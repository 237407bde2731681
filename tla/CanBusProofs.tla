---------------------------- MODULE CanBusProofs ----------------------------
(***************************************************************************)
(* What is proved of CanBus, for any number of interfaces, fds and frames: *)
(* the types, and that the table the console writes and the set CANThread  *)
(* copies agree between commands.  The latter needs the names to be typed  *)
(* as they are registered (FoldsApart): start() and stop() write the entry *)
(* of a name typed otherwise beside the one they matched.                  *)
(***************************************************************************)
EXTENDS CanBus, TLAPS, WellFoundedInduction

FoldsApart == \A n, m \in Names : Fold[n] = Fold[m] => n = m

USE DEF history

-----------------------------------------------------------------------------
(* Least elements.                                                         *)

LEMMA LessIsWellFounded == IsWellFoundedOn({p \in Nat \X Nat : p[1] < p[2]}, Nat)
BY NatLessThanWellFounded DEF OpToRel

LEMMA LeastExists ==
  ASSUME NEW S, S \subseteq Nat, S # {}
  PROVE  \E x \in S : \A y \in S : x <= y
<1> DEFINE Less == {p \in Nat \X Nat : p[1] < p[2]}
<1>1. IsWellFoundedOn(Less, Nat)
  BY LessIsWellFounded
<1> HIDE DEF Less
<1>2. PICK x \in S : \A y \in S : ~(<<y, x>> \in Less)
  BY <1>1, WFMin
<1>3. ASSUME NEW y \in S PROVE x <= y
  <2>1. x \in Nat /\ y \in Nat
    OBVIOUS
  <2>2. <<y, x>> \notin Less
    BY <1>2
  <2>3. QED BY <2>1, <2>2 DEF Less
<1>4. QED BY <1>3

\* The entry a map<string, int> is looked up at first.
LEMMA FirstIn ==
  ASSUME NEW S, S \subseteq Names, S # {}
  PROVE  First(S) \in S
<1> DEFINE orders == {Order[n] : n \in S}
<1>1. orders \subseteq Nat /\ orders # {}
  BY OrderAssumption
<1> HIDE DEF orders
<1>2. PICK o \in orders : \A q \in orders : o <= q
  BY <1>1, LeastExists
<1>3. \E n \in S : \A m \in S : Order[n] <= Order[m]
  BY <1>2 DEF orders
<1>4. QED BY <1>3 DEF First

LEMMA FirstOfOne ==
  ASSUME NEW n \in Names
  PROVE  First({n}) = n
<1>1. First({n}) \in {n}
  BY FirstIn
<1>2. QED BY <1>1

\* The kernel gives out a free fd, if there is one.
LowestFree == CHOOSE f \in {g \in Fds : sockets[g] = Free} :
                \A g \in {h \in Fds : sockets[h] = Free} : f <= g
LEMMA LowestFreeIsFree ==
  ASSUME {f \in Fds : sockets[f] = Free} # {}
  PROVE  LowestFree \in Fds /\ sockets[LowestFree] = Free
<1> DEFINE free == {f \in Fds : sockets[f] = Free}
<1>1. free \subseteq Nat
  BY FdAssumption DEF Fds
<1>2. \E f \in free : \A g \in free : f <= g
  <2> HIDE DEF free
  <2>1. free # {} BY DEF free
  <2>2. QED BY <1>1, <2>1, LeastExists
<1>3. QED BY <1>2 DEF LowestFree

-----------------------------------------------------------------------------
(* Types.                                                                  *)

\* What stop() has still to look at are entries, and what it closes is an fd.
TypeInv ==
  /\ TypeOK
  /\ toClose \subseteq Keys(fdOf)
  /\ console \in {"clear", "clearExit"} => newFd \in Fds /\ toClose # {}
  /\ thread \in {"read", "blocked", "reply", "write"} => ifName \in Names

LEMMA InitTypes == Init => TypeInv
<1> SUFFICES ASSUME Init PROVE TypeInv
  OBVIOUS
<1> USE DEF Init
<1>1. fdOf \in [Names -> Fds \cup {Closed, NoEntry}]
  OBVIOUS
<1>2. maxFd \in 0 .. LastFd
  BY FdAssumption
<1>3. sockets \in [Fds -> Names \cup {Free, Unbound}] /\ pending \in [Fds -> 0 .. MaxPending]
  BY PendingAssumption
<1>4. thread \in ThreadPC /\ console \in ConsolePC
  BY DEF ThreadPC, ConsolePC
<1>5. QED BY <1>1, <1>2, <1>3, <1>4 DEF TypeInv, TypeOK

LEMMA KeysInNames == Keys(fdOf) \subseteq Names /\ \A n : Matches(n) \subseteq Keys(fdOf)
BY DEF Keys, Matches

LEMMA CommandTypes == TypeInv /\ Commands => TypeInv'
<1> SUFFICES ASSUME TypeInv, Commands PROVE TypeInv'
  OBVIOUS
<1> USE DEF TypeInv, TypeOK, ConsolePC
<1>1. ASSUME NEW n \in Names, OpenSocket(n) PROVE TypeInv'
  <2>1. console' = "assign" /\ call' = n
    BY <1>1 DEF OpenSocket
  <2>2. UNCHANGED <<fdOf, running, loop, toClose, pending, history>>
    BY <1>1 DEF OpenSocket
  <2>3. CASE newFd' = Closed /\ UNCHANGED <<sockets, master, maxFd>>
    BY <2>1, <2>2, <2>3 DEF loop, Keys
  <2>4. ASSUME {f \in Fds : sockets[f] = Free} # {}
        PROVE  LowestFree \in Fds /\ LowestFree \in 0 .. LastFd
    <3>1. LowestFree \in Fds
      BY <2>4, LowestFreeIsFree
    <3>2. QED BY <3>1, FdAssumption DEF Fds
  <2>5. CASE /\ {f \in Fds : sockets[f] = Free} # {}
             /\ sockets' = [sockets EXCEPT ![LowestFree] = n]
             /\ master' = master \cup {LowestFree}
             /\ maxFd' = IF LowestFree > maxFd THEN LowestFree ELSE maxFd
             /\ newFd' = LowestFree
    BY <2>1, <2>2, <2>4, <2>5 DEF loop, Keys
  <2>6. CASE /\ {f \in Fds : sockets[f] = Free} # {}
             /\ sockets' = [sockets EXCEPT ![LowestFree] = Unbound]
             /\ newFd' = Closed /\ UNCHANGED <<master, maxFd>>
    BY <2>1, <2>2, <2>4, <2>6 DEF loop, Keys
  <2>7. QED BY <1>1, <2>3, <2>5, <2>6 DEF OpenSocket, LowestFree
<1>2. ASSUME NEW n \in Names \cup {All}, BeginStop(n) PROVE TypeInv'
  <2>1. Matches(n) # {} => First(Matches(n)) \in Keys(fdOf)
    BY KeysInNames, FirstIn
  <2>2. UNCHANGED <<table, running, loop, newFd, kernel, history>>
    BY <1>2 DEF BeginStop
  <2>3. toClose' \subseteq Keys(fdOf) /\ console' = "stop" /\ call' = n
    BY <1>2, <2>1 DEF BeginStop
  <2>4. QED BY <2>2, <2>3, KeysInNames DEF table, loop, kernel, Keys
<1>3. CASE Exit
  BY <1>3, KeysInNames DEF Exit, table, loop, kernel, Keys
<1>4. CASE OBDCmdHandler
  BY <1>4 DEF OBDCmdHandler, Strayed, table, loop, caller, kernel, Keys
<1>5. QED BY <1>1, <1>2, <1>3, <1>4 DEF Commands

LEMMA ConsoleTypes == TypeInv /\ ConsoleRuns => TypeInv'
<1> SUFFICES ASSUME TypeInv, ConsoleRuns PROVE TypeInv'
  OBVIOUS
<1> USE DEF TypeInv, TypeOK, ConsolePC
<1>1. toClose # {} => First(toClose) \in toClose /\ fdOf[First(toClose)] \in Fds \cup {Closed}
  BY FirstIn DEF Keys
<1>2. CASE Assign
  <2>1. fdOf' \in [Names -> Fds \cup {Closed, NoEntry}]
    BY <1>2 DEF Assign
  <2>2. newFd # NoEntry
    BY FdAssumption DEF Fds, Closed, NoEntry
  <2>3. Keys(fdOf) \subseteq Keys(fdOf')
    BY <1>2, <2>2 DEF Assign, Keys
  <2>4. newFd' \in Fds \cup {Closed} /\ call' \in Names \cup {All} /\ console' = "idle"
    BY <1>2 DEF Assign
  <2>5. UNCHANGED <<master, maxFd, running, loop, toClose, kernel, history>>
    BY <1>2 DEF Assign
  <2>6. QED BY <2>1, <2>3, <2>4, <2>5 DEF loop, kernel
<1>3. CASE SkipClosed
  BY <1>3 DEF SkipClosed, table, loop, kernel, Keys
<1>4. CASE CloseFd
  <2>1. fdOf[First(toClose)] \in Fds
    BY <1>1, <1>4 DEF CloseFd
  <2>2. QED BY <1>4, <2>1, PendingAssumption DEF CloseFd, table, loop, Keys
<1>5. CASE ClearFd
  <2>1. newFd \in Fds /\ newFd \in Nat \ {0} /\ maxFd - 1 \in Int
    BY <1>5, FdAssumption DEF ClearFd, Fds
  <2>2. maxFd' \in 0 .. LastFd
    <3>1. maxFd \in 0 .. LastFd /\ maxFd' = IF newFd = maxFd THEN maxFd - 1 ELSE maxFd
      BY <1>5 DEF ClearFd
    <3> HIDE DEF TypeInv, TypeOK
    <3>2. QED BY <2>1, <3>1, FdAssumption
  <2>3. fdOf' \in [Names -> Fds \cup {Closed, NoEntry}] /\ Keys(fdOf) \subseteq Keys(fdOf')
    BY <1>5, <1>1 DEF ClearFd, Keys, Closed, NoEntry
  <2>4. QED BY <1>5, <2>2, <2>3 DEF ClearFd, loop, kernel, Keys
<1>6. CASE EndStop \/ Join
  BY <1>6 DEF EndStop, Join, table, loop, kernel, Keys
<1>8. CASE EndExit
  <2>1. master' = {} /\ maxFd' = 0 /\ running' = FALSE
    BY <1>8 DEF EndExit
  <2>2. 0 \in 0 .. LastFd
    BY FdAssumption
  <2>3. QED BY <1>8, <2>1, <2>2 DEF EndExit, loop, kernel, Keys
<1>7. QED BY <1>2, <1>3, <1>4, <1>5, <1>6, <1>8 DEF ConsoleRuns

LEMMA ThreadTypes == TypeInv /\ (ThreadRuns \/ Unblock \/ \E f \in Fds : Arrive(f)) => TypeInv'
<1> SUFFICES ASSUME TypeInv, ThreadRuns \/ Unblock \/ \E f \in Fds : Arrive(f)
             PROVE  TypeInv'
  OBVIOUS
<1> USE DEF TypeInv, TypeOK, ThreadPC
<1>1. CASE Copy
  BY <1>1 DEF Copy, table, caller, kernel, Keys
<1>2. CASE Select
  BY <1>2 DEF Select, table, caller, kernel, Keys
<1>3. CASE Scan
  <2>1. toScan # {} => First(toScan) \in Names
    BY FirstIn
  <2>2. fdOf' = fdOf
    BY <1>3 DEF Scan, table
  <2>3. thread' \in ThreadPC /\ readFd' \in Fds \cup {Closed} /\ ifName' \in Names \cup {All}
        /\ (thread' = "read" => ifName' \in Names) /\ thread' \in {"copy", "scan", "read"}
    BY <1>3, <2>1 DEF Scan
  <2>4. dup' \subseteq Fds /\ toScan' \subseteq Names
    BY <1>3 DEF Scan
  <2>5. QED BY <1>3, <2>2, <2>3, <2>4 DEF Scan, table, caller, kernel, Keys
<1>4. CASE Read
  <2>1. pending' \in [Fds -> 0 .. MaxPending]
    BY <1>4, PendingAssumption DEF Read
  <2>2. /\ thread' \in ThreadPC /\ readFd' \in Fds \cup {Closed} /\ ifName' \in Names \cup {All}
        /\ thread' \in {"read", "blocked", "reply", "write"} => ifName' \in Names
    BY <1>4 DEF Read, SaveFrame
  <2>3. QED BY <1>4, <2>1, <2>2 DEF Read, table, caller, Keys
<1>5. CASE Unblock
  BY <1>5 DEF Unblock, SaveFrame, table, caller, kernel, Keys
<1>6. ASSUME NEW f \in Fds, Arrive(f) PROVE TypeInv'
  BY <1>6, PendingAssumption DEF Arrive, table, loop, caller, Keys
<1>7. CASE Reply
  <2>1. FdFor(ifName) \in Fds \cup {Closed}
    <3>1. Matches(ifName) # {} => First(Matches(ifName)) \in Keys(fdOf)
      BY KeysInNames, FirstIn
    <3>2. QED BY <3>1 DEF FdFor, Keys
  <2>2. QED BY <1>7, <2>1 DEF Reply, table, caller, kernel, Keys
<1>8. CASE Write
  BY <1>8 DEF Write, Strayed, table, caller, kernel, Keys
<1>9. QED BY <1>1, <1>2, <1>3, <1>4, <1>5, <1>6, <1>7, <1>8 DEF ThreadRuns

LEMMA TypesKept == TypeInv /\ [Next]_vars => TypeInv'
<1>1. TypeInv /\ UNCHANGED vars => TypeInv'
  BY DEF vars, table, loop, caller, kernel, TypeInv, TypeOK, Keys
<1>2. QED BY <1>1, CommandTypes, ConsoleTypes, ThreadTypes DEF Next

\* The types of CANBusMgr's table, of both threads and of the fds.
THEOREM Types == Spec => []TypeOK
<1>1. TypeInv => TypeOK
  BY DEF TypeInv
<1>2. QED BY <1>1, InitTypes, TypesKept, PTL DEF Spec

-----------------------------------------------------------------------------
(* The table and the set.                                                  *)

Closing == console \in {"clear", "clearExit"}
Exiting == console \in {"join", "exited"}

\* An open interface has a socket bound to it, but for one that was just closed, which
\* is watched until the destructor empties the set.
EntriesAreOpen ==
  \A n \in Names : fdOf[n] \in Fds =>
    /\ sockets[fdOf[n]] = n \/ (Closing /\ n = First(toClose))
    /\ ~Exiting => fdOf[n] \in master /\ fdOf[n] <= maxFd

\* What is watched is in the table, or will be with the next step.
WatchedAreEntries ==
  \A f \in master : (\E n \in Names : fdOf[n] = f) \/ (console = "assign" /\ newFd = f)

\* Between openSocket and the entry's update, and between close and safe_fd_clr.
OpenedIsBound ==
  console = "assign" =>
    /\ call \in Names /\ fdOf[call] = Closed
    /\ newFd \in Fds => sockets[newFd] = call /\ newFd \in master /\ newFd <= maxFd
ClosedIsEntry == Closing => fdOf[First(toClose)] = newFd /\ sockets[newFd] = Free
StopsOneOrAll == console \in {"stop", "clear"} => call = All \/ toClose \subseteq {call}
ExitStopsAll  == console \in {"exit", "clearExit"} => call = All

TableInv ==
  /\ EntriesAreOpen /\ WatchedAreEntries
  /\ OpenedIsBound /\ ClosedIsEntry /\ StopsOneOrAll /\ ExitStopsAll

-----------------------------------------------------------------------------
(* CANThread's loop.                                                       *)

\* Nothing was closed and the loop was not told to stop.
Undisturbed == ~everClosed /\ running

\* The copy then has open sockets only, and of those the loop has still to look at
\* each has a frame, as has the one it reads.
LoopInv ==
  /\ Closing => everClosed
  /\ Exiting \/ thread = "ended" => ~running
  /\ Undisturbed =>
       /\ thread # "blocked"
       /\ \A f \in dup : sockets[f] # Free
       /\ thread \in {"scan", "read", "reply", "write"} =>
            \A f \in dup : sockets[f] \in toScan => pending[f] > 0
       /\ thread = "read" =>
            /\ readFd \in Fds /\ pending[readFd] > 0
            /\ sockets[readFd] # Free /\ sockets[readFd] \notin toScan

\* Until then the fd sendFrame has looked up is a socket of the interface it is for.
SendInv ==
  /\ "console" \notin strays
  /\ "thread" \in strays => everClosed
  /\ thread = "write" /\ ~everClosed => sendFd \in Fds /\ sockets[sendFd] = ifName

IInv == TypeInv /\ TableInv /\ LoopInv /\ SendInv

-----------------------------------------------------------------------------
LEMMA InitTable == Init => TableInv /\ LoopInv
<1> SUFFICES ASSUME Init PROVE TableInv /\ LoopInv
  OBVIOUS
<1>1. \A n \in Names : fdOf[n] \notin Fds
  BY FdAssumption DEF Init, Fds, Closed, NoEntry
<1>2. master = {} /\ dup = {} /\ console = "idle" /\ thread = "copy"
  BY DEF Init
<1>3. TableInv
  BY <1>1, <1>2 DEF TableInv, EntriesAreOpen, WatchedAreEntries, OpenedIsBound, ClosedIsEntry,
                    StopsOneOrAll, ExitStopsAll, Closing, Exiting
<1>4. QED BY <1>2, <1>3 DEF LoopInv, Closing, Exiting

\* What the table's invariant depends on.
LEMMA TableOfUnchanged ==
  ASSUME TableInv, UNCHANGED <<table, caller, sockets>>
  PROVE  TableInv'
BY DEF TableInv, EntriesAreOpen, WatchedAreEntries, OpenedIsBound, ClosedIsEntry, StopsOneOrAll,
       ExitStopsAll, Closing, Exiting, table, caller

LEMMA ThreadTable ==
  TableInv /\ (ThreadRuns \/ Unblock \/ \E f \in Fds : Arrive(f)) => TableInv'
<1> SUFFICES ASSUME TableInv, ThreadRuns \/ Unblock \/ \E f \in Fds : Arrive(f)
             PROVE  UNCHANGED <<table, caller, sockets>>
  BY TableOfUnchanged
<1>1. CASE Copy \/ Select \/ Scan \/ Unblock
  BY <1>1 DEF Copy, Select, Scan, Unblock, kernel
<1>2. CASE Read \/ Reply \/ Write
  BY <1>2 DEF Read, Reply, Write, kernel
<1>3. CASE \E f \in Fds : Arrive(f)
  BY <1>3 DEF Arrive
<1>4. QED BY <1>1, <1>2, <1>3 DEF ThreadRuns

\* With names apart, only an entry itself matches its name.
LEMMA MatchesItself ==
  ASSUME FoldsApart, NEW n \in Names
  PROVE  /\ Matches(n) = {n} \cap Keys(fdOf)
         /\ Matches(n) # {} => n \in Keys(fdOf) /\ First(Matches(n)) = n
<1>1. Matches(n) = {n} \cap Keys(fdOf)
  BY DEF FoldsApart, Matches, Keys
<1>2. ASSUME Matches(n) # {} PROVE Matches(n) = {n} /\ n \in Keys(fdOf)
  BY <1>1, <1>2
<1>3. QED BY <1>1, <1>2, FirstOfOne

LEMMA CommandTable == FoldsApart /\ TypeInv /\ TableInv /\ Commands => TableInv'
<1> SUFFICES ASSUME FoldsApart, TypeInv, TableInv, Commands PROVE TableInv'
  OBVIOUS
<1> USE DEF TableInv, StopsOneOrAll, ExitStopsAll, Closing, Exiting
<1>1. ASSUME NEW n \in Names, OpenSocket(n) PROVE TableInv'
  <2>1. fdOf[n] = Closed
    BY <1>1, MatchesItself DEF OpenSocket
  <2>2. console = "idle" /\ console' = "assign" /\ call' = n /\ UNCHANGED <<fdOf, toClose>>
    BY <1>1 DEF OpenSocket
  <2>3. CASE newFd' = Closed /\ UNCHANGED <<sockets, master, maxFd>>
    <3>1. Closed \notin Fds
      BY FdAssumption DEF Closed, Fds
    <3>2. QED BY <2>1, <2>2, <2>3, <3>1
                 DEF EntriesAreOpen, WatchedAreEntries, OpenedIsBound, ClosedIsEntry
  <2>4. ASSUME {f \in Fds : sockets[f] = Free} # {}, NEW owner \in {n, Unbound},
               sockets' = [sockets EXCEPT ![LowestFree] = owner]
        PROVE  \A m \in Names : fdOf[m] \in Fds => sockets'[fdOf[m]] = m
    <3>1. sockets[LowestFree] = Free
      BY <2>4, LowestFreeIsFree
    <3>2. \A m \in Names : m # Free
      BY MarkersAssumption
    <3>3. QED BY <2>2, <2>4, <3>1, <3>2 DEF EntriesAreOpen, TypeInv, TypeOK
  <2>5. CASE /\ {f \in Fds : sockets[f] = Free} # {}
             /\ sockets' = [sockets EXCEPT ![LowestFree] = n]
             /\ master' = master \cup {LowestFree}
             /\ maxFd' = IF LowestFree > maxFd THEN LowestFree ELSE maxFd
             /\ newFd' = LowestFree
    <3>1. LowestFree \in Fds /\ LowestFree \in Int /\ maxFd \in Int /\ \A f \in Fds : f \in Int
      BY <2>5, LowestFreeIsFree, FdAssumption DEF Fds, TypeInv, TypeOK
    <3>2. LowestFree <= maxFd' /\ \A f \in Fds : f <= maxFd => f <= maxFd'
      BY <2>5, <3>1
    <3>3. sockets'[LowestFree] = n
      BY <2>5, <3>1 DEF TypeInv, TypeOK
    <3>4. EntriesAreOpen'
      BY <2>2, <2>4, <2>5, <3>2 DEF EntriesAreOpen
    <3>5. QED BY <2>1, <2>2, <2>5, <3>2, <3>3, <3>4
                 DEF WatchedAreEntries, OpenedIsBound, ClosedIsEntry
  <2>6. CASE /\ {f \in Fds : sockets[f] = Free} # {}
             /\ sockets' = [sockets EXCEPT ![LowestFree] = Unbound]
             /\ newFd' = Closed /\ UNCHANGED <<master, maxFd>>
    <3>1. Closed \notin Fds
      BY FdAssumption DEF Closed, Fds
    <3>2. EntriesAreOpen'
      BY <2>2, <2>4, <2>6 DEF EntriesAreOpen
    <3>3. QED BY <2>1, <2>2, <2>6, <3>1, <3>2 DEF WatchedAreEntries, OpenedIsBound, ClosedIsEntry
  <2>7. QED BY <1>1, <2>3, <2>5, <2>6 DEF OpenSocket, LowestFree
<1>2. ASSUME NEW n \in Names \cup {All}, BeginStop(n) PROVE TableInv'
  <2>1. console = "idle" /\ console' = "stop" /\ call' = n
        /\ UNCHANGED <<table, newFd, sockets>>
    BY <1>2 DEF BeginStop, kernel
  <2>2. n = All \/ toClose' \subseteq {n}
    <3>1. CASE n \in Names /\ n # All
      BY <1>2, <3>1, MatchesItself DEF BeginStop
    <3>2. QED BY <3>1
  <2>3. QED BY <2>1, <2>2
               DEF EntriesAreOpen, WatchedAreEntries, OpenedIsBound, ClosedIsEntry, table
<1>3. CASE Exit
  BY <1>3 DEF Exit, EntriesAreOpen, WatchedAreEntries, OpenedIsBound, ClosedIsEntry, table, kernel
<1>4. CASE OBDCmdHandler
  BY <1>4, TableOfUnchanged DEF OBDCmdHandler, kernel
<1>5. QED BY <1>1, <1>2, <1>3, <1>4 DEF Commands

LEMMA ConsoleTable == FoldsApart /\ TypeInv /\ TableInv /\ ConsoleRuns => TableInv'
<1> SUFFICES ASSUME FoldsApart, TypeInv, TableInv, ConsoleRuns PROVE TableInv'
  OBVIOUS
<1> USE DEF TableInv, StopsOneOrAll, ExitStopsAll, Closing, Exiting
<1>1. toClose # {} => First(toClose) \in toClose /\ First(toClose) \in Names
  BY FirstIn DEF TypeInv, TypeOK
<1>2. fdOf \in [Names -> Fds \cup {Closed, NoEntry}] /\ sockets \in [Fds -> Names \cup {Free, Unbound}]
  BY DEF TypeInv, TypeOK
<1>3. Closed \notin Fds /\ NoEntry \notin Fds /\ Closed # NoEntry
  BY FdAssumption DEF Closed, NoEntry, Fds
<1>4. CASE Assign
  <2>1. console = "assign" /\ console' = "idle" /\ UNCHANGED <<master, maxFd, toClose, sockets>>
    BY <1>4 DEF Assign, kernel
  <2>2. call \in Names /\ fdOf[call] = Closed
    BY <2>1 DEF OpenedIsBound
  <2>3. call \in Matches(call)
    BY <1>3, <2>2 DEF Matches, Keys
  <2>4. First(Matches(call)) = call
    BY <2>2, <2>3, MatchesItself
  <2>5. fdOf' = [fdOf EXCEPT ![call] = newFd]
    BY <1>2, <1>4, <2>4 DEF Assign
  <2>6. fdOf'[call] = newFd /\ \A n \in Names \ {call} : fdOf'[n] = fdOf[n]
    BY <1>2, <2>2, <2>5
  <2>7. EntriesAreOpen'
    BY <2>1, <2>2, <2>6 DEF EntriesAreOpen, OpenedIsBound
  <2>8. WatchedAreEntries'
    <3>1. SUFFICES ASSUME NEW f \in master PROVE \E n \in Names : fdOf'[n] = f
      BY <2>1 DEF WatchedAreEntries
    <3>2. CASE newFd = f
      BY <2>2, <2>6, <3>2
    <3>3. CASE newFd # f
      <4>1. PICK n \in Names : fdOf[n] = f
        BY <3>3 DEF WatchedAreEntries
      <4>2. f \in Fds
        BY DEF TypeInv, TypeOK
      <4>3. n # call
        BY <1>3, <2>2, <4>1, <4>2
      <4>4. QED BY <2>6, <4>1, <4>3
    <3>4. QED BY <3>2, <3>3
  <2>9. QED BY <2>1, <2>7, <2>8 DEF OpenedIsBound, ClosedIsEntry
<1>5. CASE SkipClosed
  <2>1. UNCHANGED <<table, console, call, newFd, sockets>> /\ toClose' \subseteq toClose
    BY <1>5 DEF SkipClosed, kernel
  <2>2. console \in {"stop", "exit"}
    BY <1>5 DEF SkipClosed
  <2>3. QED BY <2>1, <2>2
               DEF EntriesAreOpen, WatchedAreEntries, OpenedIsBound, ClosedIsEntry, table
<1>6. CASE CloseFd
  <2> DEFINE fd == fdOf[First(toClose)]
  <2>1. /\ console \in {"stop", "exit"} /\ toClose # {} /\ fd # Closed
        /\ sockets' = [sockets EXCEPT ![fd] = Free] /\ newFd' = fd
        /\ UNCHANGED <<table, call, toClose>>
    BY <1>6 DEF CloseFd
  <2>2. console' = IF console = "exit" THEN "clearExit" ELSE "clear"
    BY <1>6 DEF CloseFd
  <2>3. fd \in Fds
    BY <1>1, <1>2, <2>1 DEF TypeInv, Keys
  <2>4. sockets[fd] = First(toClose)
    BY <1>1, <2>1, <2>3 DEF EntriesAreOpen
  <2>5. EntriesAreOpen'
    <3>1. SUFFICES ASSUME NEW n \in Names, fdOf[n] \in Fds
                   PROVE  /\ sockets'[fdOf[n]] = n \/ n = First(toClose)
                          /\ fdOf[n] \in master /\ fdOf[n] <= maxFd
      BY <2>1, <2>2 DEF EntriesAreOpen, table
    <3>2. sockets[fdOf[n]] = n /\ fdOf[n] \in master /\ fdOf[n] <= maxFd
      BY <2>1, <3>1 DEF EntriesAreOpen
    <3>3. CASE fdOf[n] = fd
      BY <2>4, <3>2, <3>3
    <3>4. CASE fdOf[n] # fd
      BY <1>2, <2>1, <2>3, <3>1, <3>2, <3>4
    <3>5. QED BY <3>2, <3>3, <3>4
  <2>6. ClosedIsEntry'
    BY <1>2, <2>1, <2>3 DEF ClosedIsEntry, table
  <2>7. QED BY <2>1, <2>2, <2>5, <2>6 DEF WatchedAreEntries, OpenedIsBound, table
<1>7. CASE ClearFd
  <2> DEFINE k == First(toClose)
  <2>1. /\ console \in {"clear", "clearExit"} /\ UNCHANGED <<call, sockets>>
        /\ master' = master \ {newFd}
        /\ maxFd' = IF newFd = maxFd THEN maxFd - 1 ELSE maxFd
        /\ toClose' = toClose \ {k} /\ newFd' = Closed
        /\ console' = IF console = "clearExit" THEN "exit" ELSE "stop"
    BY <1>7 DEF ClearFd, kernel
  <2>2. toClose # {} /\ newFd \in Fds /\ k \in toClose /\ k \in Names
    BY <1>1, <2>1 DEF TypeInv
  <2>3. fdOf' = [fdOf EXCEPT ![k] = Closed]
    <3>1. call = All \/ call = k
      BY <2>1, <2>2
    <3>2. QED BY <1>7, <3>1 DEF ClearFd
  <2>4. fdOf[k] = newFd /\ sockets[newFd] = Free
    BY <2>1 DEF ClosedIsEntry
  <2>5. \A f \in Fds : f \in Int
    BY FdAssumption DEF Fds
  <2>6. maxFd \in Int
    BY DEF TypeInv, TypeOK
  <2> HIDE DEF k
  <2>7. EntriesAreOpen'
    <3>1. SUFFICES ASSUME NEW n \in Names, fdOf'[n] \in Fds
                   PROVE  sockets[fdOf'[n]] = n /\ fdOf'[n] \in master' /\ fdOf'[n] <= maxFd'
      BY <2>1 DEF EntriesAreOpen
    <3>2. n # k /\ fdOf'[n] = fdOf[n]
      BY <1>2, <1>3, <2>2, <2>3, <3>1
    <3>3. sockets[fdOf[n]] = n /\ fdOf[n] \in master /\ fdOf[n] <= maxFd
      BY <2>1, <3>1, <3>2 DEF EntriesAreOpen, k
    <3>4. fdOf[n] # newFd
      BY <2>4, <3>3, MarkersAssumption
    <3>5. fdOf[n] <= maxFd'
      BY <2>1, <2>2, <2>5, <2>6, <3>1, <3>2, <3>3, <3>4
    <3>6. QED BY <2>1, <3>2, <3>3, <3>4, <3>5
  <2>8. WatchedAreEntries'
    <3>1. SUFFICES ASSUME NEW f \in master, f # newFd PROVE \E n \in Names : fdOf'[n] = f
      BY <2>1 DEF WatchedAreEntries
    <3>2. PICK n \in Names : fdOf[n] = f
      BY <2>1 DEF WatchedAreEntries
    <3>3. n # k
      BY <2>4, <3>1, <3>2
    <3>4. QED BY <1>2, <2>3, <3>2, <3>3
  <2>9. QED BY <2>1, <2>7, <2>8 DEF OpenedIsBound, ClosedIsEntry
<1>8. CASE EndStop
  BY <1>8 DEF EndStop, EntriesAreOpen, WatchedAreEntries, OpenedIsBound, ClosedIsEntry, table, kernel
<1>9. CASE EndExit
  BY <1>9 DEF EndExit, EntriesAreOpen, WatchedAreEntries, OpenedIsBound, ClosedIsEntry, kernel
<1>10. CASE Join
  BY <1>10 DEF Join, EntriesAreOpen, WatchedAreEntries, OpenedIsBound, ClosedIsEntry, table, kernel
<1>11. QED BY <1>4, <1>5, <1>6, <1>7, <1>8, <1>9, <1>10 DEF ConsoleRuns

-----------------------------------------------------------------------------
\* openSocket leaves every open socket as it is.
LEMMA OpenSocketTakesFree ==
  ASSUME TypeInv, NEW n \in Names, OpenSocket(n)
  PROVE  \A f \in Fds : sockets[f] # Free => sockets'[f] = sockets[f]
<1>1. CASE UNCHANGED sockets
  BY <1>1
<1>2. ASSUME {f \in Fds : sockets[f] = Free} # {}, NEW owner,
             sockets' = [sockets EXCEPT ![LowestFree] = owner]
      PROVE  \A f \in Fds : sockets[f] # Free => sockets'[f] = sockets[f]
  <2>1. sockets[LowestFree] = Free
    BY <1>2, LowestFreeIsFree
  <2>2. QED BY <1>2, <2>1 DEF TypeInv, TypeOK
<1>3. QED BY <1>1, <1>2 DEF OpenSocket, LowestFree

\* The loop's invariant over the console's steps: they open sockets that nothing
\* has in its copy, and disturb the loop when they close one or tell it to stop.
LEMMA ConsoleLoop ==
  TypeInv /\ LoopInv /\ (Commands \/ ConsoleRuns) => LoopInv'
<1> SUFFICES ASSUME TypeInv, LoopInv, Commands \/ ConsoleRuns PROVE LoopInv'
  OBVIOUS
<1>1. ASSUME NEW n \in Names, OpenSocket(n) PROVE LoopInv'
  <2>1. /\ console = "idle" /\ console' = "assign"
        /\ UNCHANGED <<running, loop, pending, history>>
    BY <1>1 DEF OpenSocket
  <2>2. \A f \in Fds : sockets[f] # Free => sockets'[f] = sockets[f]
    BY <1>1, OpenSocketTakesFree
  <2>3. dup \subseteq Fds
    BY DEF TypeInv, TypeOK
  <2>4. QED BY <2>1, <2>2, <2>3 DEF LoopInv, Closing, Exiting, Undisturbed, loop
<1>2. CASE (\E n \in Names \cup {All} : BeginStop(n)) \/ Exit
  BY <1>2 DEF BeginStop, Exit, LoopInv, Closing, Exiting, Undisturbed, loop, kernel
<1>3. CASE Assign \/ SkipClosed \/ EndStop \/ ClearFd
  BY <1>3 DEF Assign, SkipClosed, EndStop, ClearFd, LoopInv, Closing, Exiting, Undisturbed, loop, kernel
<1>4. CASE CloseFd
  BY <1>4 DEF CloseFd, LoopInv, Closing, Exiting, Undisturbed, loop
<1>5. CASE EndExit \/ Join
  BY <1>5 DEF EndExit, Join, LoopInv, Closing, Exiting, Undisturbed, loop, kernel
<1>6. CASE OBDCmdHandler
  BY <1>6 DEF OBDCmdHandler, LoopInv, Closing, Exiting, Undisturbed, loop, caller, kernel
<1>7. QED BY <1>1, <1>2, <1>3, <1>4, <1>5, <1>6 DEF Commands, ConsoleRuns

\* And over CANThread's own.
LEMMA ThreadLoop ==
  TypeInv /\ TableInv /\ LoopInv /\ (ThreadRuns \/ Unblock \/ \E f \in Fds : Arrive(f))
    => LoopInv'
<1> SUFFICES ASSUME TypeInv, TableInv, LoopInv,
                    ThreadRuns \/ Unblock \/ \E f \in Fds : Arrive(f)
             PROVE  LoopInv'
  OBVIOUS
<1>1. /\ dup \subseteq Fds /\ toScan \subseteq Names /\ Free \notin Names
      /\ pending \in [Fds -> 0 .. MaxPending] /\ fdOf \in [Names -> Fds \cup {Closed, NoEntry}]
      /\ master \subseteq Fds
  BY MarkersAssumption DEF TypeInv, TypeOK
<1>2. Undisturbed => \A n \in Names : fdOf[n] \in Fds => sockets[fdOf[n]] = n
  BY DEF TableInv, EntriesAreOpen, LoopInv, Undisturbed
<1>3. CASE Copy
  <2>1. ASSUME Undisturbed, NEW f \in master PROVE sockets[f] # Free
    <3>1. CASE \E n \in Names : fdOf[n] = f
      BY <1>1, <1>2, <2>1, <3>1
    <3>2. CASE console = "assign" /\ newFd = f
      BY <1>1, <2>1, <3>2 DEF TableInv, OpenedIsBound
    <3>3. QED BY <3>1, <3>2 DEF TableInv, WatchedAreEntries
  <2>2. QED BY <1>3, <2>1 DEF Copy, LoopInv, Undisturbed, Closing, Exiting, caller, kernel
<1>4. CASE Select
  BY <1>1, <1>4 DEF Select, LoopInv, Undisturbed, Closing, Exiting, caller, kernel
<1>5. CASE Scan
  <2>1. CASE toScan = {}
    BY <1>5, <2>1 DEF Scan, LoopInv, Undisturbed, Closing, Exiting, caller, kernel
  <2>2. CASE toScan # {}
    <3> DEFINE n == First(toScan)
    <3>1. n \in toScan /\ n \in Names
      BY <1>1, <2>2, FirstIn
    <3>2. /\ thread = "scan" /\ toScan' = toScan \ {n}
          /\ IF fdOf[n] \in dup THEN thread' = "read" /\ readFd' = fdOf[n]
                               ELSE UNCHANGED <<thread, readFd>>
          /\ UNCHANGED <<dup, running, console, sockets, pending, history>>
      BY <1>5, <2>2 DEF Scan, caller, kernel
    <3> HIDE DEF n
    <3>3. ASSUME Undisturbed, fdOf[n] \in dup
          PROVE  fdOf[n] \in Fds /\ sockets[fdOf[n]] = n /\ pending[fdOf[n]] > 0
      BY <1>1, <1>2, <3>1, <3>2, <3>3 DEF LoopInv
    <3>4. QED BY <1>1, <3>1, <3>2, <3>3 DEF LoopInv, Undisturbed, Closing, Exiting
  <2>3. QED BY <2>1, <2>2
<1>6. CASE Read
  <2>1. thread = "read" /\ UNCHANGED <<running, dup, toScan, console, sockets, history>>
    BY <1>6 DEF Read, caller
  <2>2. CASE ~Undisturbed
    BY <1>6, <2>1, <2>2 DEF Read, SaveFrame, LoopInv, Undisturbed, Closing, Exiting
  <2>3. CASE Undisturbed
    <3>1. readFd \in Fds /\ pending[readFd] > 0 /\ sockets[readFd] \notin toScan
      BY <2>1, <2>3 DEF LoopInv
    <3>2. thread' \in {"scan", "reply"} /\ pending' = [pending EXCEPT ![readFd] = IF @ > 0 THEN @ - 1 ELSE 0]
      BY <1>6, <3>1 DEF Read, SaveFrame
    <3>3. \A f \in dup : sockets[f] \in toScan => f # readFd /\ pending'[f] = pending[f]
      BY <1>1, <3>1, <3>2
    <3>4. QED BY <2>1, <2>3, <3>2, <3>3 DEF LoopInv, Undisturbed, Closing, Exiting
  <2>4. QED BY <2>2, <2>3
<1>7. CASE Unblock
  BY <1>7 DEF Unblock, SaveFrame, LoopInv, Undisturbed, Closing, Exiting, caller, kernel
<1>8. ASSUME NEW f \in Fds, Arrive(f) PROVE LoopInv'
  <2>1. UNCHANGED <<running, loop, console, sockets, history>>
    BY <1>8 DEF Arrive, caller
  <2>2. \A g \in Fds : pending[g] > 0 => pending'[g] > 0
    BY <1>1, <1>8 DEF Arrive
  <2>3. QED BY <1>1, <2>1, <2>2 DEF LoopInv, Undisturbed, Closing, Exiting, loop
<1>9. CASE Reply \/ Write
  BY <1>9 DEF Reply, Write, LoopInv, Undisturbed, Closing, Exiting, caller, kernel
<1>10. QED BY <1>3, <1>4, <1>5, <1>6, <1>7, <1>8, <1>9 DEF ThreadRuns

-----------------------------------------------------------------------------
(* sendFrame.                                                              *)

LEMMA FdForIsOpen ==
  ASSUME FoldsApart, TypeInv, TableInv, ~Closing, NEW n \in Names, FdFor(n) # Closed
  PROVE  FdFor(n) \in Fds /\ sockets[FdFor(n)] = n
<1>1. Matches(n) # {}
  BY DEF FdFor
<1>2. n \in Keys(fdOf) /\ FdFor(n) = fdOf[n]
  BY <1>1, MatchesItself DEF FdFor
<1>3. fdOf[n] \in Fds
  BY <1>2 DEF TypeInv, TypeOK, Keys
<1>4. QED BY <1>2, <1>3 DEF TableInv, EntriesAreOpen

LEMMA SendKept ==
  FoldsApart /\ TypeInv /\ TableInv /\ LoopInv /\ SendInv /\ Next => SendInv'
<1> SUFFICES ASSUME FoldsApart, TypeInv, TableInv, LoopInv, SendInv, Next PROVE SendInv'
  OBVIOUS
<1>1. CASE Reply
  <2>1. ifName \in Names
    BY <1>1 DEF Reply, TypeInv
  <2>2. ASSUME ~everClosed, FdFor(ifName) # Closed
        PROVE  FdFor(ifName) \in Fds /\ sockets[FdFor(ifName)] = ifName
    BY <2>1, <2>2, FdForIsOpen DEF LoopInv
  <2>3. /\ UNCHANGED <<sockets, history>> /\ sendFd' = FdFor(ifName)
        /\ thread' = "write" => FdFor(ifName) # Closed /\ UNCHANGED ifName
    BY <1>1 DEF Reply, kernel
  <2>4. QED BY <2>2, <2>3 DEF SendInv
<1>2. CASE Write
  <2>1. thread = "write" /\ thread' = "scan" /\ UNCHANGED everClosed
        /\ Strayed("thread", sendFd, ifName)
    BY <1>2 DEF Write
  <2>2. "thread" \in strays' => everClosed
    BY <2>1 DEF Strayed, SendInv
  <2>3. QED BY <2>1, <2>2 DEF Strayed, SendInv
<1>3. CASE OBDCmdHandler
  <2>1. console = "idle" /\ UNCHANGED <<loop, sockets, everClosed>>
        /\ Strayed("console", FdFor(ObdPort), ObdPort)
    BY <1>3 DEF OBDCmdHandler, kernel
  <2>2. FdFor(ObdPort) # Closed => sockets[FdFor(ObdPort)] = ObdPort
    BY <2>1, ObdPortAssumption, FdForIsOpen DEF Closing
  <2>3. Closed \notin Fds
    BY FdAssumption DEF Closed, Fds
  <2>4. strays' = strays
    BY <2>1, <2>2, <2>3 DEF Strayed
  <2>5. QED BY <2>1, <2>4 DEF SendInv, loop
<1>4. ASSUME NEW n \in Names, OpenSocket(n) PROVE SendInv'
  <2>1. UNCHANGED <<loop, history>>
    BY <1>4 DEF OpenSocket
  <2>2. \A f \in Fds : sockets[f] # Free => sockets'[f] = sockets[f]
    BY <1>4, OpenSocketTakesFree
  <2>3. thread = "write" => ifName # Free
    BY MarkersAssumption DEF TypeInv
  <2>4. QED BY <2>1, <2>2, <2>3 DEF SendInv, loop
<1>5. CASE CloseFd
  BY <1>5 DEF CloseFd, SendInv
<1>6. CASE \/ (\E n \in Names \cup {All} : BeginStop(n)) \/ Exit \/ Assign \/ SkipClosed
           \/ ClearFd \/ EndStop \/ EndExit \/ Join
  BY <1>6 DEF BeginStop, Exit, Assign, SkipClosed, ClearFd, EndStop, EndExit, Join, SendInv,
              loop, kernel
<1>7. CASE Copy \/ Select \/ Scan
  BY <1>7 DEF Copy, Select, Scan, SendInv, kernel
<1>8. CASE Read \/ Unblock
  BY <1>8 DEF Read, Unblock, SaveFrame, SendInv
<1>9. CASE \E f \in Fds : Arrive(f)
  BY <1>9 DEF Arrive, SendInv, loop
<1>10. QED BY <1>1, <1>2, <1>3, <1>4, <1>5, <1>6, <1>7, <1>8, <1>9
              DEF Next, Commands, ConsoleRuns, ThreadRuns

-----------------------------------------------------------------------------
LEMMA Inductive == ASSUME FoldsApart PROVE IInv /\ [Next]_vars => IInv'
<1>1. IInv /\ UNCHANGED vars => IInv'
  BY TypesKept, TableOfUnchanged
     DEF IInv, vars, table, loop, caller, kernel, LoopInv, SendInv, Undisturbed, Closing, Exiting
<1>2. QED
  BY <1>1, TypesKept, CommandTable, ConsoleTable, ThreadTable, ConsoleLoop, ThreadLoop, SendKept
     DEF IInv, Next

LEMMA Invariant == ASSUME FoldsApart PROVE Spec => []IInv
<1>1. Init => IInv
  BY InitTypes, InitTable DEF IInv, SendInv, Init
<1>2. IInv /\ [Next]_vars => IInv'
  BY Inductive
<1>3. QED BY <1>1, <1>2, PTL DEF Spec

\* Between two commands an open interface has a socket of its own that select() is
\* given, and select() is given nothing else (start() and stop() with _interfaces,
\* _master_fds and _max_fds).
THEOREM OpenAreWatched == ASSUME FoldsApart PROVE Spec => []OpenIsWatched
<1>1. ASSUME IInv, console = "idle"
      PROVE  \A n \in Keys(fdOf) : fdOf[n] # Closed =>
               sockets[fdOf[n]] = n /\ fdOf[n] \in master /\ fdOf[n] <= maxFd
  BY <1>1 DEF IInv, TypeInv, TypeOK, TableInv, EntriesAreOpen, Keys, Closing, Exiting
<1>2. ASSUME IInv, console = "idle"
      PROVE  \A f \in master : \E n \in Keys(fdOf) : fdOf[n] = f
  <2>1. NoEntry \notin Fds
    BY FdAssumption DEF NoEntry, Fds
  <2>2. QED BY <1>2, <2>1 DEF IInv, TypeInv, TypeOK, TableInv, WatchedAreEntries, Keys
<1>3. IInv => OpenIsWatched
  BY <1>1, <1>2 DEF OpenIsWatched
<1>4. QED BY <1>3, Invariant, PTL

\* CANThread is lost only to a stop(): what it reads was ready, since nothing else
\* takes a frame or a socket from under it.
THEOREM LoopSafeWithoutStop == ASSUME FoldsApart PROVE Spec => []LoopIsSafeWithoutStop
<1>1. IInv => LoopIsSafeWithoutStop
  BY DEF IInv, LoopInv, Undisturbed, LoopIsSafeWithoutStop
<1>2. QED BY <1>1, Invariant, PTL

\* No request of the OBD command goes out on another bus, and no request for the rest
\* of an answer unless a stop() has come between sendFrame's lookup and its write.
THEOREM FramesReachTheirBus == ASSUME FoldsApart PROVE Spec => []FramesGoWhereMeant
<1>1. IInv => FramesGoWhereMeant
  BY DEF IInv, SendInv, FramesGoWhereMeant
<1>2. QED BY <1>1, Invariant, PTL
=============================================================================
