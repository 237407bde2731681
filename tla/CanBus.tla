------------------------------- MODULE CanBus -------------------------------
(***************************************************************************)
(* CANBusMgr's sockets: the table of interfaces and the fd set the console *)
(* writes in start() and stop(), and CANThread, which copies the set,      *)
(* selects on the copy and reads what is ready; and sendFrame, which either*)
(* may call.  Nothing is locked.                                           *)
(*                                                                         *)
(* The kernel is modelled as far as the code sees it: it gives out the     *)
(* lowest free fd, an interface may or may not bind, select() refuses a set*)
(* with a closed fd, and read() on a socket with nothing to read blocks.   *)
(* Names differ in case only when Fold maps them to the same name.         *)
(***************************************************************************)
EXTENDS FiniteSets, Integers

CONSTANTS
  Names,       \* interface names as they can be typed
  Registered,  \* main()'s registerHandler calls
  ObdPort,     \* the interface the OBD command sends to: can1
  Links,       \* the interfaces the kernel has
  Fold,        \* a name without its case, for strcasecmp
  Order,       \* the order of names in a map<string, int>
  FirstFd,     \* the lowest fd a socket can get
  LastFd,      \* bound: the process can open no fd above it
  MaxPending   \* bound: frames waiting in a socket

Fds     == FirstFd .. LastFd
Closed  == -1
NoEntry == -2
All     == ""          \* stop("")
Free    == "free"      \* an fd nobody has
Unbound == "unbound"   \* a socket whose interface was not found

ASSUME NamesAssumption == IsFiniteSet(Names) /\ Registered \subseteq Names /\ Links \subseteq Names
ASSUME ObdPortAssumption == ObdPort \in Names
ASSUME OrderAssumption ==
  /\ Order \in [Names -> Nat]
  /\ \A n, m \in Names : Order[n] = Order[m] => n = m
ASSUME MarkersAssumption == Names \cap {All, Free, Unbound} = {}
ASSUME FdAssumption == FirstFd \in Nat \ {0} /\ LastFd \in Nat
ASSUME PendingAssumption == MaxPending \in Nat

VARIABLES
  fdOf,        \* _interfaces
  master,      \* _master_fds
  maxFd,       \* _max_fds
  running,     \* _running
  thread,      \* where CANThread is
  dup,         \* its copy of _master_fds
  toScan,      \* interfaces its loop has still to look at
  readFd,      \* the fd it reads
  ifName,      \* the interface it reads it for
  sendFd,      \* the fd sendFrame, called for a protocol, is about to write to
  console,     \* where the console is
  call,        \* the name given to the start() or stop() it is in
  newFd,       \* what openSocket returned
  toClose,     \* interfaces stop() has still to look at
  sockets,     \* kernel: what each fd is open on
  pending,     \* kernel: frames waiting in each socket
  everClosed,  \* history: some stop() has closed a socket
  strays       \* history: who has sent a frame to another bus than it was for

table  == <<fdOf, master, maxFd>>
loop   == <<thread, dup, toScan, readFd, ifName, sendFd>>
caller == <<console, call, newFd, toClose>>
kernel == <<sockets, pending>>
history == <<everClosed, strays>>
vars   == <<table, running, loop, caller, kernel, history>>

Keys(map) == {n \in Names : map[n] # NoEntry}
First(names) == CHOOSE n \in names : \A m \in names : Order[n] <= Order[m]

ThreadPC  == {"copy", "select", "scan", "read", "blocked", "reply", "write", "ended"}
ConsolePC == {"idle", "assign", "stop", "clear", "exit", "clearExit",
              "join", "exited"}

Init ==
  /\ fdOf = [n \in Names |-> IF n \in Registered THEN Closed ELSE NoEntry]
  /\ master = {} /\ maxFd = 0 /\ running = TRUE
  /\ thread = "copy" /\ dup = {} /\ toScan = {} /\ readFd = Closed
  /\ console = "idle" /\ call = All /\ newFd = Closed /\ toClose = {}
  /\ sockets = [f \in Fds |-> Free] /\ pending = [f \in Fds |-> 0]
  /\ ifName = All /\ sendFd = Closed
  /\ everClosed = FALSE /\ strays = {}

-----------------------------------------------------------------------------
(* start() and openSocket().                                               *)

Matches(n) == {k \in Keys(fdOf) : Fold[k] = Fold[n]}

\* socket(), then the interface's index and bind(), unless the first entry that
\* matches has an fd: then it is "already open" and start() changes nothing.  A
\* socket that does not bind stays open.
OpenSocket(n) ==
  LET free == {f \in Fds : sockets[f] = Free}
      fd   == CHOOSE f \in free : \A g \in free : f <= g
  IN
  /\ console = "idle" /\ Matches(n) # {} /\ fdOf[First(Matches(n))] = Closed
  /\ console' = "assign" /\ call' = n
  /\ \/ /\ free # {} /\ n \in Links
        /\ sockets' = [sockets EXCEPT ![fd] = n]
        /\ master' = master \cup {fd}
        /\ maxFd' = IF fd > maxFd THEN fd ELSE maxFd
        /\ newFd' = fd
     \/ /\ free # {}
        /\ sockets' = [sockets EXCEPT ![fd] = Unbound]
        /\ newFd' = Closed /\ UNCHANGED <<master, maxFd>>
     \/ /\ free = {} /\ newFd' = Closed /\ UNCHANGED <<sockets, master, maxFd>>
  /\ UNCHANGED <<fdOf, running, loop, toClose, pending, history>>

\* The fd goes to the entry that matched and to the name as it was typed.
Assign ==
  /\ console = "assign" /\ console' = "idle"
  /\ fdOf' = [fdOf EXCEPT ![First(Matches(call))] = newFd, ![call] = newFd]
  /\ newFd' = Closed /\ call' = All
  /\ UNCHANGED <<master, maxFd, running, loop, toClose, kernel, history>>

-----------------------------------------------------------------------------
(* stop() and the destructor.                                              *)

\* stop(name) looks at the first entry that matches, stop("") at all of them.
BeginStop(n) ==
  /\ console = "idle" /\ console' = "stop" /\ call' = n
  /\ toClose' = IF n = All THEN Keys(fdOf)
                ELSE IF Matches(n) = {} THEN {} ELSE {First(Matches(n))}
  /\ UNCHANGED <<table, running, loop, newFd, kernel, history>>

Exit ==
  /\ console = "idle" /\ console' = "exit" /\ call' = All
  /\ toClose' = Keys(fdOf)
  /\ UNCHANGED <<table, running, loop, newFd, kernel, history>>

SkipClosed ==
  /\ console \in {"stop", "exit"} /\ toClose # {} /\ fdOf[First(toClose)] = Closed
  /\ toClose' = toClose \ {First(toClose)}
  /\ UNCHANGED <<table, running, loop, console, call, newFd, kernel, history>>

\* close(fd); another thread may have the number by then.
CloseFd ==
  LET fd == fdOf[First(toClose)] IN
  /\ console \in {"stop", "exit"} /\ toClose # {} /\ fd # Closed
  /\ sockets' = [sockets EXCEPT ![fd] = Free] /\ pending' = [pending EXCEPT ![fd] = 0]
  /\ everClosed' = TRUE /\ UNCHANGED strays
  /\ newFd' = fd
  /\ console' = IF console = "exit" THEN "clearExit" ELSE "clear"
  /\ UNCHANGED <<table, running, loop, call, toClose>>

\* Mutants of ClearFd: _max_fds goes down with every fd; the entry keeps its fd.
ClearFdEveryMax ==
  /\ console \in {"clear", "clearExit"}
  /\ master' = master \ {newFd} /\ maxFd' = maxFd - 1
  /\ fdOf' = [fdOf EXCEPT ![IF call = All THEN First(toClose) ELSE call] = Closed]
  /\ toClose' = toClose \ {First(toClose)} /\ newFd' = Closed
  /\ console' = IF console = "clearExit" THEN "exit" ELSE "stop"
  /\ UNCHANGED <<running, loop, call, kernel, history>>
ClearFdKeepsEntry ==
  /\ console \in {"clear", "clearExit"}
  /\ master' = master \ {newFd}
  /\ maxFd' = IF newFd = maxFd THEN maxFd - 1 ELSE maxFd
  /\ toClose' = toClose \ {First(toClose)} /\ newFd' = Closed
  /\ console' = IF console = "clearExit" THEN "exit" ELSE "stop"
  /\ UNCHANGED <<fdOf, running, loop, call, kernel, history>>

\* safe_fd_clr, then the entry: the key's for stop(""), else that of the name as
\* it was typed.
ClearFd ==
  /\ console \in {"clear", "clearExit"}
  /\ master' = master \ {newFd}
  /\ maxFd' = IF newFd = maxFd THEN maxFd - 1 ELSE maxFd
  /\ fdOf' = [fdOf EXCEPT ![IF call = All THEN First(toClose) ELSE call] = Closed]
  /\ toClose' = toClose \ {First(toClose)} /\ newFd' = Closed
  /\ console' = IF console = "clearExit" THEN "exit" ELSE "stop"
  /\ UNCHANGED <<running, loop, call, kernel, history>>

EndStop ==
  /\ console = "stop" /\ toClose = {} /\ console' = "idle" /\ call' = All
  /\ UNCHANGED <<table, running, loop, newFd, toClose, kernel, history>>

\* Mutant of EndExit: _max_fds is set to the fd of a closed interface.
EndExitNoMax ==
  /\ console = "exit" /\ toClose = {} /\ console' = "join"
  /\ master' = {} /\ maxFd' = Closed /\ running' = FALSE
  /\ UNCHANGED <<fdOf, loop, call, newFd, toClose, kernel, history>>

\* The destructor: FD_ZERO, then _running, then it joins CANThread.
EndExit ==
  /\ console = "exit" /\ toClose = {} /\ console' = "join"
  /\ master' = {} /\ maxFd' = 0 /\ running' = FALSE
  /\ UNCHANGED <<fdOf, loop, call, newFd, toClose, kernel, history>>

Join ==
  /\ console = "join" /\ thread = "ended" /\ console' = "exited"
  /\ UNCHANGED <<table, running, loop, call, newFd, toClose, kernel, history>>

-----------------------------------------------------------------------------
(* CANThread.                                                              *)

Copy ==
  /\ thread = "copy"
  /\ IF running THEN thread' = "select" /\ dup' = master
                ELSE thread' = "ended" /\ UNCHANGED dup
  /\ UNCHANGED <<table, running, toScan, readFd, ifName, sendFd, caller, kernel, history>>

\* Mutant of Select: the wait's outcome is not looked at.
SelectUnread ==
  /\ thread = "select" /\ thread' = "scan" /\ toScan' = Keys(fdOf)
  /\ UNCHANGED <<table, running, dup, readFd, ifName, sendFd, caller, kernel, history>>

\* select() over the fds up to _max_fds, ready or timed out.  With a closed one
\* among them it fails, leaves the set as it is and ends the loop; the thread
\* still looks at the interfaces.
Select ==
  LET watched == {f \in dup : f <= maxFd} IN
  /\ thread = "select" /\ thread' = "scan" /\ toScan' = Keys(fdOf)
  /\ IF \E f \in watched : sockets[f] = Free
       THEN running' = FALSE /\ UNCHANGED dup
       ELSE dup' = {f \in watched : pending[f] > 0} /\ UNCHANGED running
  /\ UNCHANGED <<table, readFd, ifName, sendFd, caller, kernel, history>>

\* if ((fd != -1) && FD_ISSET(fd, &dup))
Scan ==
  /\ thread = "scan"
  /\ IF toScan = {}
       THEN thread' = "copy" /\ dup' = {} /\ UNCHANGED <<toScan, readFd, ifName>>
       ELSE LET n == First(toScan) IN
            /\ toScan' = toScan \ {n}
            /\ IF fdOf[n] \in dup THEN thread' = "read" /\ readFd' = fdOf[n] /\ ifName' = n
                                  ELSE UNCHANGED <<thread, readFd, ifName>>
            /\ UNCHANGED dup
  /\ UNCHANGED <<table, running, sendFd, caller, kernel, history>>

\* saveFrame of what was read for ifName: a protocol may answer it.
SaveFrame ==
  /\ readFd' = Closed
  /\ \/ thread' = "reply" /\ UNCHANGED ifName
     \/ thread' = "scan" /\ ifName' = All

\* read() returns a frame or, of a closed fd, -1, which as a size_t is a frame
\* too: either way saveFrame is called.  With nothing to read it blocks.
Read ==
  /\ thread = "read"
  /\ IF sockets[readFd] # Free /\ pending[readFd] = 0
       THEN thread' = "blocked" /\ UNCHANGED <<pending, readFd, ifName>>
       ELSE SaveFrame /\ pending' = [pending EXCEPT ![readFd] = IF @ > 0 THEN @ - 1 ELSE 0]
  /\ UNCHANGED <<table, running, dup, toScan, sendFd, caller, sockets, history>>

\* The frame a blocked read waits for; it has the socket even when the fd is closed.
Unblock ==
  /\ thread = "blocked" /\ SaveFrame
  /\ UNCHANGED <<table, running, dup, toScan, sendFd, caller, kernel, history>>

-----------------------------------------------------------------------------
(* sendFrame.                                                              *)

\* The fd of the first entry that matches, Closed if there is none.
FdFor(n) == IF Matches(n) = {} THEN Closed ELSE fdOf[First(Matches(n))]

\* write() to an fd that is no socket, or one without an interface, fails; else the
\* frame goes out on the interface of the socket that has the number now.
Strayed(sender, fd, n) ==
  strays' = IF fd \in Fds /\ sockets[fd] \in Names \ {n} THEN strays \cup {sender} ELSE strays

\* OBD2::processFrame asks for the rest of a long answer on the interface it came
\* from: the table is looked up, then the fd is written to.
Reply ==
  /\ thread = "reply" /\ sendFd' = FdFor(ifName)
  /\ IF sendFd' = Closed THEN thread' = "scan" /\ ifName' = All
                         ELSE thread' = "write" /\ UNCHANGED ifName
  /\ UNCHANGED <<table, running, dup, toScan, readFd, caller, kernel, history>>

Write ==
  /\ thread = "write" /\ thread' = "scan" /\ ifName' = All /\ sendFd' = Closed
  /\ Strayed("thread", sendFd, ifName)
  /\ UNCHANGED <<table, running, dup, toScan, readFd, caller, kernel, everClosed>>

\* A request of the OBD command.  Of those of `OBD pids` each is one such step, as
\* long as they can be written.  No other thread writes the table.
OBDCmdHandler ==
  /\ console = "idle"
  /\ Strayed("console", FdFor(ObdPort), ObdPort)
  /\ UNCHANGED <<table, running, loop, caller, kernel, everClosed>>

\* The bus delivers a frame to a bound socket.
Arrive(f) ==
  /\ sockets[f] \in Names /\ pending[f] < MaxPending
  /\ ~(thread = "blocked" /\ readFd = f)
  /\ pending' = [pending EXCEPT ![f] = @ + 1]
  /\ UNCHANGED <<table, running, loop, caller, sockets, history>>

-----------------------------------------------------------------------------

ConsoleRuns ==
  Assign \/ SkipClosed \/ CloseFd \/ ClearFd \/ EndStop \/ EndExit \/ Join
ThreadRuns == Copy \/ Select \/ Scan \/ Read \/ Reply \/ Write
Commands ==
  \/ \E n \in Names : OpenSocket(n) \/ BeginStop(n)
  \/ BeginStop(All) \/ Exit \/ OBDCmdHandler

Next == Commands \/ ConsoleRuns \/ ThreadRuns \/ Unblock \/ \E f \in Fds : Arrive(f)

Spec == Init /\ [][Next]_vars

\* The kernel runs both threads.  No command and no frame need come.
FairSpec == Spec /\ WF_vars(ConsoleRuns) /\ WF_vars(ThreadRuns)

-----------------------------------------------------------------------------
(* Properties.                                                             *)

\* The table, the threads and the kernel's fds have the types the code gives them.
TypeOK ==
  /\ fdOf \in [Names -> Fds \cup {Closed, NoEntry}]
  /\ master \subseteq Fds /\ maxFd \in 0 .. LastFd /\ running \in BOOLEAN
  /\ thread \in ThreadPC /\ dup \subseteq Fds /\ toScan \subseteq Names
  /\ readFd \in Fds \cup {Closed}
  /\ console \in ConsolePC /\ call \in Names \cup {All} /\ newFd \in Fds \cup {Closed}
  /\ toClose \subseteq Names
  /\ sockets \in [Fds -> Names \cup {Free, Unbound}] /\ pending \in [Fds -> 0 .. MaxPending]
  /\ ifName \in Names \cup {All} /\ sendFd \in Fds \cup {Closed}
  /\ everClosed \in BOOLEAN /\ strays \subseteq {"console", "thread"}

\* Between two commands the table is true: the fd of an open interface is a socket
\* bound to it, CANThread watches it and select() is given a bound that covers it,
\* though the bound goes down by one at most and sockets that failed to bind leave
\* gaps.  And nothing else is watched: no closed fd stays in the set for good, where
\* it would end CANThread.
OpenIsWatched ==
  console = "idle" =>
    /\ \A n \in Keys(fdOf) : fdOf[n] # Closed =>
         sockets[fdOf[n]] = n /\ fdOf[n] \in master /\ fdOf[n] <= maxFd
    /\ \A f \in master : \E n \in Keys(fdOf) : fdOf[n] = f

\* Until a socket has been closed under it, CANThread neither ends nor blocks in a
\* read(): it takes only a stop() between its copy of the set and its reads.
LoopIsSafeWithoutStop == ~everClosed => thread \notin {"blocked", "ended"} \/ ~running

\* A request goes out on the OBD port or not at all: when a socket's number is used
\* again, no entry still holds it for another interface.  CANThread's requests for
\* the rest of an answer may go to the wrong bus only after a stop(): the number
\* may be closed and used again between the lookup and the write.
FramesGoWhereMeant == "console" \notin strays /\ ("thread" \in strays => everClosed)

\* A frame that waits on an open interface is read, unless the interface is closed
\* or CANThread was lost to a stop().
FramesAreRead ==
  \A f \in Fds :
    pending[f] = MaxPending ~>
      pending[f] < MaxPending \/ sockets[f] = Free \/ thread \in {"blocked", "ended"}
=============================================================================
