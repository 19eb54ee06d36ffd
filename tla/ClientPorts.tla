---------------------------- MODULE ClientPorts ----------------------------
(***************************************************************************)
(* The client ports /dev/gpsN and their accounting (mbm_manager.c:         *)
(* client_add, client_remove and the notifier and client parts of          *)
(* main_loop).                                                             *)
(*                                                                         *)
(* A port is a pty.  An inotify watch that fires once tells the daemon of  *)
(* the first program that opens it, and a failing read of its master that  *)
(* the last one has closed it, after which the port is made anew.  Programs *)
(* open, write and close between any two steps of the loop.                *)
(***************************************************************************)
EXTENDS Integers, Sequences, FiniteSets

CONSTANTS Ports,       \* the ports, 0 .. MAX_CLIENTS - 1 in the code
          MaxPrograms, \* bound: programs that have one port open at a time
          MaxStrays    \* bound: ports opened in a window, see strays

ASSUME ConstantsOK ==
  /\ Ports \subseteq Nat /\ IsFiniteSet(Ports)
  /\ MaxPrograms \in Nat /\ MaxStrays \in Nat

Stale == -1   \* a watch descriptor no port has any more

VARIABLES
  (* the ports, as the kernel has them *)
  programs,  \* how many programs have the port open
  used,      \* has it been open since it was made?
  written,   \* is there something to read from it?
  watched,   \* has its watch yet to fire?
  events,    \* unread IN_OPEN events of the notifier
  (* the loop thread *)
  pc, ready, batch, todo,
  (* MBMManagerPrivate *)
  conns, active,
  (* history *)
  strays     \* the windows of the loop in which ports were opened: "adding":
             \* made but not watched, "polling": between pselect's looks at two
             \* descriptors, "removing": hung up but not yet closed

kernel == <<programs, used, written, watched, events>>
loop == <<pc, ready, batch, todo>>
vars == <<kernel, loop, conns, active, strays>>

Nothing == [ifd |-> FALSE, masters |-> {}]

Init ==
  /\ programs = [p \in Ports |-> 0] /\ used = [p \in Ports |-> FALSE]
  /\ written = [p \in Ports |-> FALSE] /\ watched = [p \in Ports |-> TRUE]
  /\ events = <<>>
  /\ pc = "select" /\ ready = Nothing /\ batch = <<>> /\ todo = {}
  /\ conns = 0 /\ active = [p \in Ports |-> FALSE] /\ strays = <<>>

HungUpEarly(p) == used[p]   \* faulty: any failing read is a hangup

HungUp(p) == used[p] /\ programs[p] = 0

-----------------------------------------------------------------------------
(* Client programs.                                                        *)

\* The port the loop is at in its turn.
First(p) == p \in todo /\ \A q \in todo : p <= q

InWindow(p) == \/ pc = "adding" /\ ~used[p] /\ ~watched[p]
               \/ pc = "polling" /\ watched[p]
               \/ pc = "removing" /\ First(p)

Open(p) ==
  /\ programs[p] < MaxPrograms
  /\ IF InWindow(p) THEN Len(strays) < MaxStrays /\ strays' = Append(strays, pc)
                    ELSE UNCHANGED strays
  /\ programs' = [programs EXCEPT ![p] = @ + 1]
  /\ used' = [used EXCEPT ![p] = TRUE]
  /\ watched' = [watched EXCEPT ![p] = FALSE]
  /\ events' = IF watched[p] THEN Append(events, p) ELSE events
  /\ UNCHANGED <<written, loop, conns, active>>

Write(p) ==
  /\ programs[p] > 0 /\ written' = [written EXCEPT ![p] = TRUE]
  /\ UNCHANGED <<programs, used, watched, events, loop, conns, active>>

Close(p) ==
  /\ programs[p] > 0 /\ programs' = [programs EXCEPT ![p] = @ - 1]
  /\ UNCHANGED <<used, written, watched, events, loop, conns, active>>

-----------------------------------------------------------------------------
(* main_loop: pselect.                                                     *)

Readable == {p \in Ports : written[p] \/ HungUp(p)}

\* Two looks, the notifier's descriptor first.
SelectNotifier ==
  /\ pc = "select" /\ pc' = "polling"
  /\ ready' = [Nothing EXCEPT !.ifd = events # <<>>]
  /\ UNCHANGED <<kernel, batch, todo, conns, active>>

SelectMasters ==
  /\ pc = "polling"
  /\ ready' = [ready EXCEPT !.masters = Readable]
  /\ pc' = IF ready' = Nothing THEN "select" ELSE "notifier"
  /\ UNCHANGED <<kernel, batch, todo, conns, active>>

-----------------------------------------------------------------------------
(* main_loop: the notifier.  One read takes all events there are by now.   *)

ReadNotifier ==
  /\ pc = "notifier" /\ pc' = "opens"
  /\ IF ready.ifd THEN batch' = events /\ events' = <<>>
                  ELSE UNCHANGED <<batch, events>>
  /\ UNCHANGED <<programs, used, written, watched, ready, todo, conns, active>>

HandleOpenOnce ==   \* faulty: a client is counted only if there is none
  /\ pc = "opens" /\ batch # <<>> /\ batch' = Tail(batch)
  /\ conns' = 1
  /\ active' = [p \in Ports |-> active[p] \/ p = Head(batch)]
  /\ UNCHANGED <<kernel, pc, ready, todo>>

HandleOpenLast ==   \* faulty: one event for each read
  /\ pc = "opens" /\ batch # <<>> /\ batch' = <<>>
  /\ conns' = conns + 1
  /\ active' = [p \in Ports |-> active[p] \/ p = Head(batch)]
  /\ UNCHANGED <<kernel, pc, ready, todo>>

\* Every event counts, the port whose watch it came from is active.
HandleOpen ==
  /\ pc = "opens" /\ batch # <<>> /\ batch' = Tail(batch)
  /\ conns' = conns + 1
  /\ active' = [p \in Ports |-> active[p] \/ p = Head(batch)]
  /\ UNCHANGED <<kernel, pc, ready, todo>>

NotifierDone ==
  /\ pc = "opens" /\ batch = <<>>
  /\ pc' = "clients" /\ todo' = ready.masters
  /\ UNCHANGED <<kernel, ready, batch, conns, active>>

-----------------------------------------------------------------------------
(* main_loop: the client ports, in the order of their numbers.             *)

Turn(p) == pc = "clients" /\ First(p)

\* What is written comes first, even when all programs have gone.
ReadClient(p) ==
  /\ Turn(p) /\ written[p]
  /\ written' = [written EXCEPT ![p] = FALSE]
  /\ todo' = todo \ {p}
  /\ UNCHANGED <<programs, used, watched, events, pc, ready, batch, conns,
                 active>>

\* The read of the master fails.
ReadFails(p) ==
  /\ Turn(p) /\ ~written[p] /\ HungUp(p)
  /\ pc' = "removing"
  /\ UNCHANGED <<kernel, ready, batch, todo, conns, active>>

\* client_remove and the part of client_add that makes a new port: it can be
\* opened now.  Who has opened the old one since the read holds a dead slave; from
\* the close to the new link an open fails.  Events of the old port's watch match
\* no port any more.
RemakeActive(p) ==   \* faulty: the new port is still active
  /\ programs' = [programs EXCEPT ![p] = 0]
  /\ used' = [used EXCEPT ![p] = FALSE] /\ written' = [written EXCEPT ![p] = FALSE]
  /\ events' = [i \in DOMAIN events |->
                 IF events[i] = p THEN Stale ELSE events[i]]
  /\ UNCHANGED active

Remake(p) ==
  /\ programs' = [programs EXCEPT ![p] = 0]
  /\ used' = [used EXCEPT ![p] = FALSE] /\ written' = [written EXCEPT ![p] = FALSE]
  /\ active' = [active EXCEPT ![p] = FALSE]
  /\ events' = [i \in DOMAIN events |->
                 IF events[i] = p THEN Stale ELSE events[i]]

ClientGone(p) ==
  /\ pc = "removing" /\ First(p)
  /\ Remake(p)
  /\ pc' = "adding"
  /\ UNCHANGED <<watched, ready, batch, todo, conns>>

\* The rest: watch it, "adjust client accounts".
Account(p) ==
  /\ watched' = [watched EXCEPT ![p] = TRUE]
  /\ conns' = IF conns > 0 THEN conns - 1 ELSE 0
  /\ todo' = todo \ {p} /\ pc' = "clients"

AddWatch(p) ==
  /\ pc = "adding" /\ First(p)
  /\ Account(p)
  /\ UNCHANGED <<programs, used, written, events, ready, batch, active>>

EndTurn ==
  /\ pc = "clients" /\ todo = {}
  /\ pc' = "select" /\ ready' = Nothing
  /\ UNCHANGED <<kernel, batch, todo, conns, active>>

-----------------------------------------------------------------------------
Loop ==
  \/ SelectNotifier \/ SelectMasters
  \/ ReadNotifier \/ HandleOpen \/ NotifierDone
  \/ \E p \in Ports : ReadClient(p) \/ ReadFails(p) \/ ClientGone(p) \/ AddWatch(p)
  \/ EndTurn

Uses(p) == Write(p) \/ Close(p)

Next == \/ (Loop \/ \E p \in Ports : Uses(p)) /\ UNCHANGED strays
        \/ \E p \in Ports : Open(p)

Spec == Init /\ [][Next]_vars

\* The loop thread runs; a program does nothing that it does not want to.
FairSpec == Spec /\ WF_vars(Loop /\ UNCHANGED strays)

-----------------------------------------------------------------------------
Pending(s) == {s[i] : i \in DOMAIN s}

Strayed == {strays[i] : i \in DOMAIN strays}

TypeOK ==
  /\ programs \in [Ports -> 0..MaxPrograms]
  /\ used \in [Ports -> BOOLEAN] /\ written \in [Ports -> BOOLEAN]
  /\ watched \in [Ports -> BOOLEAN] /\ active \in [Ports -> BOOLEAN]
  /\ events \in Seq(Ports \union {Stale}) /\ batch \in Seq(Ports \union {Stale})
  /\ pc \in {"select", "polling", "notifier", "opens", "clients", "removing", "adding"}
  /\ ready \in [ifd : BOOLEAN, masters : SUBSET Ports] /\ todo \subseteq Ports
  /\ conns \in Nat /\ strays \in Seq({"adding", "polling", "removing"})

\* client_connections, which decides whether the GPS is wanted, is the number
\* of the ports that are known to be in use, though the two are updated apart, as
\* long as no port was opened before its watch or while pselect looks.
CountIsExact ==
  Strayed \subseteq {"removing"} /\ pc # "adding"
  => conns = Cardinality({p \in Ports : active[p]})

\* No client is forgotten or made up, even if one opens a port that is being
\* removed or looked at: the ports in use are those known to be in use and those
\* whose event is still to be handled.  Only one that comes before the watch is
\* not known.
UsedIsKnown ==
  "adding" \notin Strayed =>
    \A p \in Ports : used[p] <=> active[p] \/ p \in Pending(events \o batch)

\* pselect saw the port hung up, and a program has opened it since: the loop
\* waits in the read of its master until that program writes or goes.
Blocked == \E p \in Ports : Turn(p) /\ ~written[p] /\ ~HungUp(p)

\* A client that stays keeps the GPS wanted, whatever others do to their ports
\* and in whichever window they open them, except for ports opened before their
\* watch, and unless the loop blocks again and again.
ClientStaysCounted ==
  \A p \in Ports :
    <>[](programs[p] > 0)
      => <>[](conns > 0) \/ []<>Blocked \/ <>[]("adding" \in Strayed)

\* What the accounting promises, until a port is opened in a window.
phase == [p \in Ports |-> IF active[p] THEN "counted"
                          ELSE IF used[p] THEN "waiting" ELSE "free"]

Promise ==
  INSTANCE ClientCount WITH open <- [p \in Ports |-> programs[p] > 0],
                            excused <- strays # <<>>
Promised == Promise!Spec

\* And in time, unless the loop blocks again and again.
PromisedInTime == Promise!InTime \/ []<>Blocked \/ <>[](strays # <<>>)
=============================================================================
