------------------------------ MODULE Shutdown ------------------------------
(***************************************************************************)
(* The end of the daemon (mbm_gpsd.c: sig_quit, mbm_manager.c:             *)
(* mbm_manager_quit, cleanup_func).                                        *)
(*                                                                         *)
(* The handler of SIGINT, SIGTERM and SIGHUP runs in the main thread and   *)
(* takes the daemon down while the loop thread is somewhere in its turn:   *)
(* it frees the client ports, removes the SUPL account, switches the       *)
(* reports and the GPS off, as far as the daemon remembers them as on, and *)
(* closes the devices.  The loop thread looks at system_terminating only   *)
(* at the head of a turn, and may be falling asleep or waking up, with the *)
(* device closed.  Only the AT commands exclude one another.  The modem    *)
(* does what it is told: refusals are in GpsControl and SuplAccount.       *)
(***************************************************************************)
EXTENDS Naturals, Sequences

CONSTANTS MaxClients,       \* MAX_CLIENTS
          ClientSwitches,   \* what the commands of clients switch
          MaxOps            \* bound: what the loop thread begins, in a behaviour

Switchable == {"account", "E2GPSSTAT", "E2CFUN", "CREG", "gps", "other"}

ASSUME ConstantsOK ==
  MaxClients \in Nat \ {0} /\ MaxOps \in Nat /\ ClientSwitches \subseteq Switchable

Ports == 1..MaxClients

Threads == {"main", "loop"}
Nobody == "nobody"

\* What has to be undone, and the commands that switch it on or off.
Resources == {"account", "reports", "gps"}
Switches == [account |-> <<"account">>, reports |-> <<"E2GPSSTAT", "E2CFUN", "CREG">>,
             gps |-> <<"gps">>]

Command == [switch : Switchable, to : BOOLEAN]
Idle == [what |-> "nothing", to |-> FALSE]
Op(what, to) == [what |-> what, to |-> to]
Commands(what, to) ==
  [i \in DOMAIN Switches[what] |-> [switch |-> Switches[what][i], to |-> to]]

VARIABLES
  main,         \* "starting", "created", "running", the steps of the handler,
                \* "ended", "crashed"
  loop,         \* "unborn", "top", "turn", "dozing", "asleep", "waking",
                \* "probing", "taking", "exit"
  terminating,  \* system_terminating
  freed,        \* the client ports that are freed
  doing,        \* what each thread switches, in several commands
  todo,         \* the commands it still has to send
  at,           \* its current command: "no", "locked", "sent", "spin"
  holder,       \* who holds nmea_mutex
  known,        \* supl_account_idx, unsolicited_responses_enabled, gps_enabled
  on,           \* what is on in the modem
  closed,       \* the thread that has closed the control device
  lost,         \* it has gone away
  ops,          \* what the loop thread has begun so far
  astray,       \* history: what a client's command has switched, or the daemon
                \* has forgotten, since the daemon has last switched it
  adrift,       \* history: a command was under way with the device closed by
                \* the loop thread
  looked,       \* history: what the handler has decided about
  missed        \* history: what the loop thread was switching on meanwhile,
                \* or afterwards

serial == <<doing, todo, at, holder, known, on>>
vars == <<main, loop, terminating, freed, serial, closed, lost, ops, astray, adrift,
          looked, missed>>

Init ==
  /\ main = "starting" /\ loop = "unborn" /\ terminating = FALSE /\ freed = {}
  /\ doing = [t \in Threads |-> Idle] /\ todo = [t \in Threads |-> <<>>]
  /\ at = [t \in Threads |-> "no"] /\ holder = Nobody
  /\ known = [r \in Resources |-> FALSE] /\ on = {}
  /\ closed = Nobody /\ lost = FALSE /\ ops = 0
  /\ astray = {} /\ adrift = FALSE /\ looked = {} /\ missed = {}

Alive == main \notin {"ended", "crashed"}
Reachable == closed = Nobody /\ ~lost

-----------------------------------------------------------------------------
(* serial_send_AT_cmd, and what its callers do with it.                    *)

BeginForgetting(t, what, to) ==   \* faulty: known as off before it is
  /\ doing' = [doing EXCEPT ![t] = Op(what, to)]
  /\ todo' = [todo EXCEPT ![t] = Commands(what, to)]
  /\ known' = [r \in Resources |-> known[r] /\ r # what]
  /\ UNCHANGED <<at, holder, on>>

Begin(t, what, to) ==
  /\ doing' = [doing EXCEPT ![t] = Op(what, to)]
  /\ todo' = [todo EXCEPT ![t] = Commands(what, to)]
  /\ UNCHANGED <<at, holder, known, on>>

Lock(t) ==
  /\ at[t] = "no" /\ todo[t] # <<>> /\ holder = Nobody
  /\ at' = [at EXCEPT ![t] = "locked"] /\ holder' = t
  /\ UNCHANGED <<main, loop, terminating, freed, doing, todo, known, on, closed, lost,
                 ops, astray, adrift, looked, missed>>

\* What is switched on after the handler has decided about it is missed.
Send(t) ==
  /\ at[t] = "locked" /\ Reachable
  /\ at' = [at EXCEPT ![t] = "sent"]
  /\ LET c == Head(todo[t]) IN
       /\ on' = IF c.to THEN on \union {c.switch} ELSE on \ {c.switch}
       /\ astray' = IF doing[t].what = "client" THEN astray \union {c.switch}
                    ELSE astray \ {c.switch}
  /\ missed' = missed \union
       (IF t = "loop" /\ doing[t].to THEN {doing[t].what} \intersect looked ELSE {})
  /\ UNCHANGED <<main, loop, terminating, freed, doing, todo, holder, known, closed,
                 lost, ops, adrift, looked>>

\* The loop of writes, or of reads, never ends, and the mutex stays locked.
CallFails(t) ==
  /\ at[t] \in {"locked", "sent"} /\ ~Reachable
  /\ at' = [at EXCEPT ![t] = "spin"] /\ adrift' = (adrift \/ closed = "loop")
  /\ UNCHANGED <<main, loop, terminating, freed, doing, todo, holder, known, on, closed,
                 lost, ops, astray, looked, missed>>

Answer(t) ==
  /\ at[t] = "sent" /\ Reachable
  /\ at' = [at EXCEPT ![t] = "no"] /\ holder' = Nobody
  /\ todo' = [todo EXCEPT ![t] = Tail(@)]
  /\ UNCHANGED <<main, loop, terminating, freed, doing, known, on, closed, lost, ops,
                 astray, adrift, looked, missed>>

Finished(t) == doing[t] # Idle /\ todo[t] = <<>>

Store(t) ==
  /\ known' = IF doing[t].what \in Resources
              THEN [known EXCEPT ![doing[t].what] = doing[t].to] ELSE known
  /\ doing' = [doing EXCEPT ![t] = Idle]
  /\ UNCHANGED <<todo, at, holder, on>>

-----------------------------------------------------------------------------
(* The loop thread.                                                        *)

\* It exits when the daemon is going down, asleep or not.
HeadOfLoop ==
  /\ \/ loop = "top" /\ loop' = IF terminating THEN "exit" ELSE "turn"
     \/ loop = "asleep" /\ terminating /\ loop' = "exit"
  /\ UNCHANGED <<main, terminating, freed, serial, closed, lost, ops, astray, adrift,
                 looked, missed>>

\* A change of state, a port that is opened, a resume: it switches something
\* on or off.
LoopBegins(what, to) ==
  /\ loop = "turn" /\ doing["loop"] = Idle /\ ops < MaxOps
  /\ to # known[what]
  /\ Begin("loop", what, to) /\ ops' = ops + 1
  /\ UNCHANGED <<main, loop, terminating, freed, closed, lost, astray, adrift, looked,
                 missed>>

\* It sends a command that the daemon does not know as its own.
Passes(c) ==
  /\ doing' = [doing EXCEPT !["loop"] = Op("client", c.to)]
  /\ todo' = [todo EXCEPT !["loop"] = <<c>>]
  /\ UNCHANGED <<at, holder, known, on>>

\* A client's command goes to the modem as it is.
ClientCommand(c) ==
  /\ loop = "turn" /\ doing["loop"] = Idle /\ ops < MaxOps
  /\ Passes(c) /\ ops' = ops + 1
  /\ UNCHANGED <<main, loop, terminating, freed, closed, lost, astray, adrift, looked,
                 missed>>

\* gps_enabled is stored without a command: off with a fix in single shot, on
\* while the loop waits for the registration.
Supposes(to) ==
  /\ loop = "turn" /\ doing["loop"] = Idle /\ ops < MaxOps /\ ops' = ops + 1
  /\ known' = [known EXCEPT !["gps"] = to]
  /\ astray' = IF to THEN astray ELSE astray \union {"gps"}
  /\ UNCHANGED <<main, loop, terminating, freed, doing, todo, at, holder, on, closed, lost,
                 adrift, looked, missed>>

LoopStores ==
  /\ Finished("loop") /\ Store("loop")
  /\ UNCHANGED <<main, loop, terminating, freed, closed, lost, ops, astray, adrift, looked,
                 missed>>

\* The buffer of a freed port is written to, or freed again when the port is
\* found closed.
UsesFreedPort ==
  /\ loop = "turn" /\ doing["loop"] = Idle /\ freed # {}
  /\ main' \in {main, "crashed"}
  /\ UNCHANGED <<loop, terminating, freed, serial, closed, lost, ops, astray, adrift,
                 looked, missed>>

EndOfTurn ==
  /\ loop = "turn" /\ doing["loop"] = Idle /\ loop' = "top"
  /\ UNCHANGED <<main, terminating, freed, serial, closed, lost, ops, astray, adrift,
                 looked, missed>>

\* A suspension, found at the head of a turn; the signal may have come since
\* the loop thread looked at system_terminating.
Doze ==
  /\ loop = "top" /\ ops < MaxOps
  /\ loop' = "dozing" /\ ops' = ops + 1
  /\ UNCHANGED <<main, terminating, freed, serial, closed, lost, astray, adrift, looked,
                 missed>>

\* pm_prepare_for_sleep switches off what is known to be on, one after the
\* other, and closes the devices, whatever the handler is doing with them.
PrepareForSleep(r) ==
  /\ loop = "dozing" /\ doing["loop"] = Idle /\ known[r]
  /\ r = "reports" => ~known["account"]
  /\ r = "gps" => ~known["account"] /\ ~known["reports"]
  /\ Begin("loop", r, FALSE)
  /\ UNCHANGED <<main, loop, terminating, freed, closed, lost, ops, astray, adrift, looked,
                 missed>>

FallAsleep ==
  /\ loop = "dozing" /\ doing["loop"] = Idle /\ \A r \in Resources : ~known[r]
  /\ loop' = "asleep" /\ closed' = "loop"
  /\ UNCHANGED <<main, terminating, freed, serial, lost, ops, astray, adrift, looked,
                 missed>>

\* pm_wake_up: gps_enabled is GPS_WAKING_UP until the modem is taken up.
WakeUp ==
  /\ loop = "asleep" /\ loop' = "waking"
  /\ known' = [known EXCEPT !["gps"] = TRUE]
  /\ UNCHANGED <<main, terminating, freed, doing, todo, at, holder, on, closed, lost, ops,
                 astray, adrift, looked, missed>>

\* After 10 seconds the device is opened and probed.
Probe ==
  /\ loop = "waking" /\ doing["loop"] = Idle /\ loop' = "probing" /\ closed' = Nobody
  /\ Passes([switch |-> "other", to |-> TRUE])
  /\ UNCHANGED <<main, terminating, freed, lost, ops, astray, adrift, looked, missed>>

\* recover_stalled_ctrl_device closes it for at least 10 seconds again.
Recover ==
  /\ loop = "probing" /\ doing["loop"] = Idle /\ ops < MaxOps
  /\ loop' = "waking" /\ closed' = "loop" /\ ops' = ops + 1
  /\ known' = [known EXCEPT !["gps"] = TRUE]
  /\ UNCHANGED <<main, terminating, freed, doing, todo, at, holder, on, lost, astray,
                 adrift, looked, missed>>

TakeUp ==
  /\ loop = "probing" /\ doing["loop"] = Idle /\ loop' = "taking"
  /\ Begin("loop", "reports", TRUE)
  /\ UNCHANGED <<main, terminating, freed, closed, lost, ops, astray, adrift, looked,
                 missed>>

\* gps_enabled is restored to what falling asleep has left: off.
Awake ==
  /\ loop = "taking" /\ doing["loop"] = Idle /\ loop' = "turn"
  /\ known' = [known EXCEPT !["gps"] = FALSE]
  /\ UNCHANGED <<main, terminating, freed, doing, todo, at, holder, on, closed, lost, ops,
                 astray, adrift, looked, missed>>

Loop == HeadOfLoop \/ EndOfTurn \/ LoopStores \/ Lock("loop") \/ Send("loop")
        \/ CallFails("loop") \/ Answer("loop") \/ \E r \in Resources : PrepareForSleep(r)
        \/ FallAsleep \/ Probe \/ TakeUp \/ Awake

-----------------------------------------------------------------------------
(* main.                                                                   *)

\* mbm_manager_new starts the loop thread with the reports on, and then
\* g_manager is set.
Create ==
  /\ main = "starting" /\ main' = "created" /\ loop' = "top"
  /\ known' = [known EXCEPT !["reports"] = TRUE]
  /\ on' = {Switches["reports"][i] : i \in DOMAIN Switches["reports"]}
  /\ UNCHANGED <<terminating, freed, doing, todo, at, holder, closed, lost, ops, astray,
                 adrift, looked, missed>>

SetManager ==
  /\ main = "created" /\ main' = "running"
  /\ UNCHANGED <<loop, terminating, freed, serial, closed, lost, ops, astray, adrift,
                 looked, missed>>

\* The handler of a signal; without a manager it aborts.  A second
\* signal goes to the loop thread and is only logged.
Signal ==
  /\ main \in {"starting", "created", "running"}
  /\ main' = IF main = "running" THEN "ports" ELSE "crashed"
  /\ terminating' = (main = "running")
  /\ UNCHANGED <<loop, freed, serial, closed, lost, ops, astray, adrift,
                 looked, missed>>

RemovePort(p) ==
  /\ main = "ports" /\ freed = 1..(p - 1)
  /\ freed' = freed \union {p}
  /\ main' = IF freed' = Ports THEN "account" ELSE main
  /\ UNCHANGED <<loop, terminating, serial, closed, lost, ops, astray, adrift,
                 looked, missed>>

After == [account |-> "reports", reports |-> "gps", gps |-> "close"]

\* remove_supl_setup, modem_disable_unsolicited_responses, modem_disable_gps:
\* each does nothing unless the daemon knows it to be on.
SwitchOff(r) ==
  /\ main = r /\ doing["main"] = Idle /\ r \notin looked
  /\ looked' = looked \union {r}
  /\ missed' = missed \union {x \in {r} : doing["loop"] = Op(x, TRUE)}
  /\ IF known[r] THEN Begin("main", r, FALSE) /\ UNCHANGED main
     ELSE main' = After[r] /\ UNCHANGED serial
  /\ UNCHANGED <<loop, terminating, freed, closed, lost, ops, astray, adrift>>

MainStores ==
  /\ Finished("main") /\ Store("main") /\ main' = After[main]
  /\ UNCHANGED <<loop, terminating, freed, closed, lost, ops, astray, adrift, looked,
                 missed>>

CloseEarly ==   \* faulty: closes the devices before all is off
  /\ main \in {"account", "close"} /\ closed' = "main"
  /\ main' = IF main = "close" THEN "quit" ELSE main
  /\ UNCHANGED <<loop, terminating, freed, serial, lost, ops, astray, adrift, looked,
                 missed>>

\* The devices are closed, g_main_loop_quit, and main returns.
Close ==
  /\ main = "close" /\ main' = "quit" /\ closed' = "main"
  /\ UNCHANGED <<loop, terminating, freed, serial, lost, ops, astray, adrift, looked,
                 missed>>

Return ==
  /\ main = "quit" /\ main' = "ended"
  /\ UNCHANGED <<loop, terminating, freed, serial, closed, lost, ops, astray, adrift,
                 looked, missed>>

Handler ==
  \/ \E p \in Ports : RemovePort(p)
  \/ \E r \in Resources : SwitchOff(r)
  \/ MainStores \/ Close \/ Return
  \/ Lock("main") \/ Send("main") \/ CallFails("main") \/ Answer("main")

Lose ==
  /\ loop # "unborn" /\ ~lost /\ lost' = TRUE
  /\ UNCHANGED <<main, loop, terminating, freed, serial, closed, ops, astray, adrift,
                 looked, missed>>

-----------------------------------------------------------------------------
Next ==
  /\ Alive
  /\ \/ Create \/ SetManager \/ Signal \/ Handler \/ Loop \/ UsesFreedPort \/ Lose
     \/ \E what \in Resources, to \in BOOLEAN : LoopBegins(what, to)
     \/ \E s \in ClientSwitches, to \in BOOLEAN : ClientCommand([switch |-> s, to |-> to])
     \/ \E to \in BOOLEAN : Supposes(to)
     \/ Doze \/ WakeUp \/ Recover

\* Both threads run.  Each turn of the loop begins finitely many commands, so
\* that the handler gets the mutex.
Spec == /\ Init /\ [][Next]_vars
        /\ WF_vars(Alive /\ Handler) /\ WF_vars(Alive /\ Loop)

-----------------------------------------------------------------------------
\* The types; a thread that has sent a command, and no other, has the mutex.
TypeOK ==
  /\ main \in {"starting", "created", "running", "ports", "account", "reports", "gps",
               "close", "quit", "ended", "crashed"}
  /\ loop \in {"unborn", "top", "turn", "dozing", "asleep", "waking", "probing", "taking",
               "exit"}
  /\ {terminating, lost, adrift} \subseteq BOOLEAN /\ freed \subseteq Ports
  /\ closed \in Threads \union {Nobody}
  /\ doing \in [Threads -> {Idle} \union [what : Resources \union {"client"}, to : BOOLEAN]]
  /\ todo \in [Threads -> Seq(Command)]
  /\ at \in [Threads -> {"no", "locked", "sent", "spin"}]
  /\ holder \in Threads \union {Nobody}
  /\ \A t \in Threads : at[t] # "no" <=> holder = t
  /\ known \in [Resources -> BOOLEAN] /\ on \subseteq Switchable
  /\ astray \subseteq Switchable
  /\ ops \in 0..MaxOps /\ looked \subseteq Resources /\ missed \subseteq looked

\* When the daemon has ended the modem has no account, sends no reports and its
\* GPS is off, whatever the loop thread was doing when the signal came - but for
\* what it was switching on just then, and what a client's command had switched
\* on, or the daemon had forgotten, before.
LeavesModemClean ==
  main = "ended" /\ ~lost =>
    \A r \in Resources \ missed : \A i \in DOMAIN Switches[r] :
      Switches[r][i] \notin on \ astray

\* A daemon told to terminate does, whichever thread has the mutex, unless it
\* crashes, the device is lost, or the loop thread has the device closed
\* when the handler talks to it: asleep, waking up or recovering.
QuitEnds == terminating ~> main \in {"ended", "crashed"} \/ lost \/ adrift
=============================================================================
