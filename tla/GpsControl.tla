----------------------------- MODULE GpsControl -----------------------------
(***************************************************************************)
(* The main loop of mbm-gpsd (mbm_manager.c: main_loop) and the GPS power  *)
(* control it runs (mbm_modem.c: modem_check_and_handle_gps_states,        *)
(* modem_enable_gps, modem_disable_gps, modem_parse_gps_ctrl).             *)
(*                                                                         *)
(* Three parties interleave: the loop thread, one step per AT command or   *)
(* decision; the D-Bus thread, which writes the options the loop reads;    *)
(* and the world outside (modem, radio network, client programs).  The     *)
(* loop learns what the modem does only from unsolicited responses, which  *)
(* it reads either as control data or as a part of a command's response.   *)
(***************************************************************************)
EXTENDS Integers, Sequences, FiniteSets

CONSTANTS Clients,      \* the client ports, 0 .. MAX_CLIENTS - 1 in the code
          PrefModes,    \* the modes SetPrefGpsMode is called with
          Networks,     \* the registration states the network goes through
          Replies,      \* how the modem answers AT*E2GPSCTL: "OK", "ERROR"
          Env,          \* which outside events happen, see the guards below
          MaxEvents,    \* bound: outside events in a behaviour
          MaxMsgs       \* bound: unread unsolicited responses of one kind

\* EGPS_MODE
OFF == 0
STAND_ALONE_MODE == 1
SUPL_MODE == 3
GPS_WAKING_UP == 10
SUPL_WAITING_FOR_REGISTRATION == 31
Modes == {OFF, STAND_ALONE_MODE, SUPL_MODE, GPS_WAKING_UP,
          SUPL_WAITING_FOR_REGISTRATION}

\* The modes the modem itself can be in.
ModemModes == {OFF, STAND_ALONE_MODE, SUPL_MODE}

\* MBM_REGISTRATION_*: 0 not registered, 1 home, 2 searching, 3 denied,
\* 4 unknown, 5 roaming, 6 not possible (SIM locked or missing).
REGISTRATION_NOT_POSSIBLE == 6
Registered == {1, 3, 5}
Unregistered == {0, 2, 4}

ASSUME ConstantsOK ==
  /\ IsFiniteSet(Clients)
  /\ PrefModes \subseteq ModemModes
  /\ Networks \subseteq 0..5 /\ Networks # {}
  /\ Replies \subseteq {"OK", "ERROR"} /\ Replies # {}
  /\ MaxEvents \in Nat
  /\ MaxMsgs \in Nat

VARIABLES
  pc,            \* where the loop thread is
  call,          \* parameters of modem_enable_gps and where it returns to
  ready,         \* what pselect reported: opened ports, hung-up ports, ctrl_fd
  saved,         \* gps_enabled_current of pm_wake_up
  (* options, written by the D-Bus thread *)
  nmeaMode, singleShot, userDisabled, suspended,
  interval,      \* FixInterval: 1 for 1..60, 61 for all that is refused
  installCert,   \* install_supl_cert
  (* MBMManagerPrivate, written by the loop thread *)
  waitForSleep, registration, conns, portUndefined, suplFailed, gpsEnabled,
  current, new,
  (* client ports and modem *)
  port, modemMode, modemSupl, modemShot, modemWdis, network, cregOn, lost,
  foreign,       \* history: a client's own command has switched the GPS on
  (* the unread control stream, one queue for each kind of response *)
  statQ, cfunQ, cregQ,
  dropped,       \* history: the last word on the mode was never parsed
  events         \* outside events so far

loopVars == <<pc, call, ready, saved>>
options == <<nmeaMode, singleShot, userDisabled, suspended, interval,
             installCert>>
priv == <<waitForSleep, registration, conns, portUndefined, suplFailed,
          gpsEnabled, current, new>>
modem == <<modemMode, modemSupl, modemShot, modemWdis, network, cregOn, lost,
           foreign>>
stream == <<statQ, cfunQ, cregQ, dropped>>
vars == <<loopVars, options, priv, port, modem, stream, events>>

-----------------------------------------------------------------------------
(* The state of the daemon after _mbm_manager_init.                        *)

\* *E2GPSSTAT: the mode and the SUPL status, 0 for ok.
Status(m, s) == [mode |-> m, supl |-> s]
Statuses == [mode : ModemModes, supl : 0..1]

\* MBMGpsState, without the fields that are only displayed.
GpsState == [mode : Modes, supl : 0..1, wdis : 0..1]

NoCall == [mode |-> OFF, interval |-> 1, ret |-> "select"]

\* 0 asks the modem for a single fix.  60 is the most modem_enable_gps takes,
\* and a negative interval is more than that, being passed as unsigned.
Intervals == {0, 1, 61}

Nothing == [opens |-> {}, hups |-> {}, ctrl |-> FALSE]

\* What modem_enable_unsolicited_responses and modem_check_radio leave in
\* registration_status: not possible without a usable SIM, else the network's
\* state, but for "+CREG: 1,0" (and a radio that was off) the old value.
RegistrationAfterInit(old, sim) ==
  IF ~sim THEN REGISTRATION_NOT_POSSIBLE
  ELSE IF network = 0 THEN old ELSE network

Init ==
  /\ pc = "top" /\ call = NoCall /\ ready = Nothing /\ saved = OFF
  /\ nmeaMode \in PrefModes
  /\ singleShot = FALSE /\ userDisabled = FALSE /\ suspended = FALSE
  /\ interval = 1 /\ installCert = FALSE
  /\ waitForSleep = FALSE /\ conns = 0 /\ portUndefined = TRUE
  /\ suplFailed = FALSE /\ gpsEnabled = OFF
  /\ current = [mode |-> OFF, supl |-> 0, wdis |-> 0] /\ new = current
  /\ port = [c \in Clients |-> "idle"]
  /\ modemMode = OFF /\ modemSupl = 0 /\ modemShot = FALSE /\ modemWdis = 0
  /\ network \in Networks /\ lost = FALSE /\ foreign = FALSE
  /\ cregOn \in BOOLEAN /\ (~cregOn => "nosim" \in Env)
  /\ registration = RegistrationAfterInit(0, cregOn)
  /\ statQ = <<>> /\ cfunQ = <<>> /\ cregQ = <<>> /\ dropped = FALSE
  /\ events = 0

-----------------------------------------------------------------------------
(* modem_parse_gps_ctrl on all that is unread, q its E2GPSSTAT messages: of *)
(* these the last one goes to new_gps_state and, when there are several,   *)
(* the first one to current_gps_state; of the E2CFUN and of the CREG       *)
(* messages only the first one is looked at.                               *)

ParsedNewFirst(n, q) ==   \* faulty: the oldest message wins
  [mode |-> IF q = <<>> THEN n.mode ELSE Head(q).mode,
   supl |-> IF q = <<>> THEN n.supl ELSE Head(q).supl,
   wdis |-> IF cfunQ = <<>> THEN n.wdis ELSE Head(cfunQ)]

ParsedNew(n, q) ==
  [mode |-> IF q = <<>> THEN n.mode ELSE q[Len(q)].mode,
   supl |-> IF q = <<>> THEN n.supl ELSE q[Len(q)].supl,
   wdis |-> IF cfunQ = <<>> THEN n.wdis ELSE Head(cfunQ)]

ParsedCurrent(q) ==
  IF Len(q) > 1
    THEN [current EXCEPT !.mode = Head(q).mode, !.supl = Head(q).supl]
    ELSE current

ParsedRegistrationOffByOne ==   \* faulty: str[6], a blank, less '0'
  IF cregQ = <<>> THEN registration ELSE 32 - 48

ParsedRegistration == IF cregQ = <<>> THEN registration ELSE Head(cregQ)

Parse(n, q) ==
  /\ new' = ParsedNew(n, q)
  /\ current' = ParsedCurrent(q)
  /\ registration' = ParsedRegistration

\* serial_send_AT_cmd reads all the stream holds along with the answer.
StreamRead == statQ' = <<>> /\ cfunQ' = <<>> /\ cregQ' = <<>>

\* The commands whose answers are only searched for a word do not parse it.
Discarded == dropped' = (dropped \/ statQ # <<>>)
Discard == StreamRead /\ Discarded

\* What the modem reports when a command takes it to mode m, either ahead of
\* the command's answer or after it.
Change(m) == IF modemMode = m THEN <<>> ELSE <<Status(m, 0)>>

-----------------------------------------------------------------------------
(* modem_enable_gps, called with a mode and an interval: g_error ends the  *)
(* program when the interval is beyond 60.                                 *)

CallEnable(m, i, ret) ==
  IF i > 60
    THEN pc' = "exit" /\ call' = NoCall
    ELSE /\ call' = [mode |-> m, interval |-> i, ret |-> ret]
         /\ pc' = IF m = SUPL_MODE THEN "setup" ELSE "ctl"

Return == pc' = call.ret /\ call' = NoCall

\* setup_supl: either all is set up, or a series of commands, whose responses
\* are only searched for OK, sets it up or fails.
SetupSupl ==
  /\ pc = "setup" /\ ~lost
  /\ \/ UNCHANGED stream /\ pc' = "suplctl" /\ call' = call
     \/ Discard /\ pc' = "suplctl" /\ call' = call
     \/ /\ Discard
        /\ pc' = "ctl" /\ call' = [call EXCEPT !.mode = STAND_ALONE_MODE]
  /\ UNCHANGED <<ready, saved, options, priv, port, modem, events>>

\* AT*E2GPSCTL=<m> answered OK: define the NMEA port if needed, note the mode,
\* then act on the unsolicited responses that came with the answer.
Enabled(m) ==
  /\ modemMode' = m /\ modemShot' = (call.interval = 0) /\ modemSupl' = 0
  /\ foreign' = FALSE /\ dropped' = FALSE
  /\ portUndefined' = FALSE
  /\ gpsEnabled' = m
  /\ \/ Parse([new EXCEPT !.mode = m], statQ \o Change(m)) /\ statQ' = <<>>
     \/ Parse([new EXCEPT !.mode = m], statQ) /\ statQ' = Change(m)
  /\ cfunQ' = <<>> /\ cregQ' = <<>>
  /\ Return
  /\ UNCHANGED <<waitForSleep, conns, suplFailed, modemWdis, network,
                 cregOn, lost>>

EnableSupl ==
  /\ pc = "suplctl" /\ ~lost
  /\ \/ "OK" \in Replies /\ Enabled(SUPL_MODE)
     \/ /\ "ERROR" \in Replies
        /\ Discard
        /\ pc' = "ctl" /\ call' = [call EXCEPT !.mode = STAND_ALONE_MODE]
        /\ UNCHANGED <<priv, modem>>
  /\ UNCHANGED <<ready, saved, options, port, events>>

EnableStandAlone ==
  /\ pc = "ctl" /\ call.mode # OFF /\ ~lost
  /\ \/ "OK" \in Replies /\ Enabled(STAND_ALONE_MODE)
     \/ /\ "ERROR" \in Replies
        /\ Discard /\ Return
        /\ UNCHANGED <<priv, modem>>
  /\ UNCHANGED <<ready, saved, options, port, events>>

TurnOffUnlessError ==   \* faulty: an ERROR leaves the old state
  /\ \/ /\ "OK" \in Replies /\ modemMode' = OFF /\ statQ' = <<>>
        /\ new' = [new EXCEPT !.mode = OFF] /\ gpsEnabled' = OFF
        /\ foreign' = FALSE /\ dropped' = FALSE
     \/ /\ "ERROR" \in Replies /\ statQ' = <<>> /\ Discarded
        /\ UNCHANGED <<modemMode, new, gpsEnabled, foreign>>
  /\ cfunQ' = <<>> /\ cregQ' = <<>>
  /\ UNCHANGED <<current, suplFailed, portUndefined, conns, modemSupl,
                 modemShot, modemWdis, network, lost>>

TurnOffIfKnownOn ==   \* faulty: trusts the last state handled
  /\ modemMode' = IF current.mode = OFF THEN modemMode ELSE OFF
  /\ StreamRead /\ foreign' = FALSE /\ dropped' = FALSE
  /\ new' = [new EXCEPT !.mode = OFF] /\ gpsEnabled' = OFF
  /\ UNCHANGED <<current, suplFailed, portUndefined, conns, modemSupl,
                 modemShot, modemWdis, network, lost>>

\* AT*E2GPSCTL=0, sent by both modem_enable_gps (OFF) and modem_disable_gps:
\* whatever the answer, the daemon takes the GPS to be off.
TurnOff ==
  /\ \/ /\ "OK" \in Replies /\ modemMode' = OFF /\ foreign' = FALSE
        /\ statQ' \in {<<>>, Change(OFF)} /\ dropped' = FALSE
     \/ /\ "ERROR" \in Replies /\ UNCHANGED <<modemMode, foreign>>
        /\ statQ' = <<>> /\ Discarded
  /\ cfunQ' = <<>> /\ cregQ' = <<>>
  /\ new' = [new EXCEPT !.mode = OFF]
  /\ gpsEnabled' = OFF
  /\ UNCHANGED <<current, suplFailed, portUndefined, conns, modemSupl,
                 modemShot, modemWdis, network, lost>>

EnableOff ==
  /\ pc = "ctl" /\ call.mode = OFF /\ ~lost
  /\ TurnOff /\ Return
  /\ UNCHANGED <<ready, saved, options, waitForSleep, registration, cregOn,
                 port, events>>

DisableGps ==
  /\ pc = "disable"
  /\ \/ /\ gpsEnabled = OFF
        /\ UNCHANGED <<priv, modem, stream>>
     \/ /\ gpsEnabled # OFF /\ ~lost
        /\ TurnOff
        /\ UNCHANGED <<waitForSleep, registration, cregOn>>
  /\ Return
  /\ UNCHANGED <<ready, saved, options, port, events>>

-----------------------------------------------------------------------------
(* modem_check_and_handle_gps_states: what the code computes before it     *)
(* decides, from the last state it handled (current), the last one it was  *)
(* told of (new) and the options.                                          *)

\* "Single shot fix received."
ShotDone == singleShot /\ new.mode = OFF /\ current.mode # OFF

UserDisabled == userDisabled \/ ShotDone

WDisableSet == current.wdis = 0 /\ new.wdis = 1
WDisableUnset == current.wdis = 1 /\ new.wdis = 0

\* "SUPL has failed!!!"
SuplFails == /\ new.mode = OFF /\ current.mode = SUPL_MODE
             /\ new.supl # 0 /\ new.wdis = 0

ModeWanted == IF SuplFails THEN STAND_ALONE_MODE ELSE nmeaMode

UsesSupl == ModeWanted = SUPL_MODE /\ ~(suplFailed \/ SuplFails)

WaitsForRegistration == UsesSupl /\ registration \in Unregistered

EnableSet ==
  \/ (WDisableUnset \/ SuplFails) /\ ~UserDisabled
  \/ UsesSupl /\ registration = REGISTRATION_NOT_POSSIBLE
  \/ /\ UsesSupl /\ registration \in Registered
     /\ current.mode = SUPL_WAITING_FOR_REGISTRATION

WantedWithoutClients ==   \* faulty: client_connections not looked at
  ~WDisableSet /\ ~UserDisabled /\ new.wdis = 0
WantedOnEdge ==   \* faulty: w_disable matters only when it changes
  conns # 0 /\ ~WDisableSet /\ ~UserDisabled
WantedDespiteUser ==   \* faulty: user_disabled not looked at
  conns # 0 /\ ~WDisableSet /\ new.wdis = 0

Wanted == conns # 0 /\ ~WDisableSet /\ ~UserDisabled /\ new.wdis = 0

\* The state the handler leaves in current_gps_state and new_gps_state.
Handled ==
  [new EXCEPT !.mode = IF WaitsForRegistration
                         THEN SUPL_WAITING_FOR_REGISTRATION ELSE @]

AtHandler == pc = "states" \/ (pc = "top" /\ ~suspended /\ ~waitForSleep)

\* supl_install_certificate: a file that cannot be read costs no command, and
\* the answers of AT*E2CERT are not parsed, whatever reports they carry.
InstallCertificate ==
  /\ AtHandler /\ installCert
  /\ UNCHANGED stream \/ (~lost /\ Discard)
  /\ installCert' = FALSE /\ pc' = "handle"
  /\ UNCHANGED <<call, ready, saved, nmeaMode, singleShot, userDisabled,
                 suspended, interval, priv, port, modem, events>>

HandleStates ==
  /\ pc = "handle" \/ (AtHandler /\ ~installCert)
  /\ current' = Handled /\ new' = Handled
  /\ userDisabled' = UserDisabled
  /\ gpsEnabled' = IF WaitsForRegistration THEN SUPL_WAITING_FOR_REGISTRATION
                   ELSE IF ShotDone THEN OFF ELSE gpsEnabled
  /\ \/ /\ Wanted /\ ~WaitsForRegistration /\ (EnableSet \/ Handled.mode = OFF)
        /\ CallEnable(ModeWanted, IF singleShot THEN 0 ELSE interval, "select")
        /\ suplFailed' = (suplFailed \/ SuplFails)
     \/ /\ ~Wanted /\ Handled.mode # OFF
        /\ pc' = "disable" /\ call' = NoCall
        /\ suplFailed' = FALSE
     \/ /\ IF Wanted
             THEN WaitsForRegistration \/ ~(EnableSet \/ Handled.mode = OFF)
             ELSE Handled.mode = OFF
        /\ pc' = "select" /\ call' = NoCall
        /\ suplFailed' = (suplFailed \/ SuplFails)
  /\ UNCHANGED <<ready, saved, nmeaMode, singleShot, suspended, interval,
                 installCert, waitForSleep, registration, conns, portUndefined,
                 port, modem, stream, events>>

-----------------------------------------------------------------------------
(* Suspending, waking up and losing the device.                            *)

\* pm_prepare_for_sleep: the GPS goes off, unsolicited responses too, and
\* what is still unread is flushed.  While suspended the loop then spins.
PrepareForSleep ==
  /\ pc = "top" /\ suspended /\ ~waitForSleep /\ ~lost
  /\ waitForSleep' = TRUE
  /\ registration' = 0 /\ cregOn' = FALSE
  /\ IF gpsEnabled = OFF
       THEN UNCHANGED <<new, gpsEnabled, modemMode, foreign>> /\ Discarded
       ELSE /\ new' = [new EXCEPT !.mode = OFF] /\ gpsEnabled' = OFF
            /\ \/ /\ "OK" \in Replies /\ modemMode' = OFF
                  /\ foreign' = FALSE /\ dropped' = FALSE
               \/ /\ "ERROR" \in Replies /\ UNCHANGED <<modemMode, foreign>>
                  /\ Discarded
  /\ statQ' = <<>> /\ cfunQ' = <<>> /\ cregQ' = <<>>
  /\ UNCHANGED <<loopVars, options, conns, portUndefined, suplFailed, current,
                 modemSupl, modemShot, modemWdis, network, lost, port,
                 events>>

\* pm_wake_up up to its sleep, called with "ret" left to do.
BeginWakeUp(ret) ==
  /\ saved' = gpsEnabled /\ gpsEnabled' = GPS_WAKING_UP
  /\ pc' = "waking" /\ call' = [NoCall EXCEPT !.ret = ret]
  /\ UNCHANGED <<options, registration, conns, portUndefined, suplFailed,
                 current, new, port, modem, events>>

Resume ==
  /\ pc = "top" /\ ~suspended /\ waitForSleep
  /\ waitForSleep' = FALSE
  /\ BeginWakeUp("states")
  /\ UNCHANGED <<ready, stream>>

\* The rest of pm_wake_up: init_mbm_modem, then the old gps_enabled is back.
FinishWakeUp ==
  /\ pc = "waking"
  /\ lost' = FALSE
  /\ cregOn' \in BOOLEAN /\ (~cregOn' => "nosim" \in Env)
  /\ registration' = RegistrationAfterInit(registration, cregOn')
  /\ portUndefined' = TRUE
  /\ gpsEnabled' = saved /\ saved' = OFF
  /\ Return
  /\ UNCHANGED <<ready, options, waitForSleep, conns, suplFailed, current,
                 new, port, modemMode, modemSupl, modemShot, modemWdis,
                 network, foreign, stream, events>>

\* init_mbm_modem finds no device or one that has stalled: the daemon exits.
WakeUpFails ==
  /\ pc = "waking" /\ "gone" \in Env
  /\ pc' = "exit"
  /\ UNCHANGED <<call, ready, saved, options, priv, port, modem, stream,
                 events>>

-----------------------------------------------------------------------------
(* The rest of a turn of main_loop: pselect, notifier, clients, control.   *)

Unread == statQ # <<>> \/ cfunQ # <<>> \/ cregQ # <<>>

Opening == {c \in Clients : port[c] \in {"opening", "openhup"}}
HungUp == {c \in Clients : port[c] \in {"hup", "openhup"}}

\* pselect: a timeout starts the next turn, else the turn goes on with what
\* was readable now, whatever happens to it meanwhile.
Select ==
  /\ pc = "select"
  /\ LET r == [opens |-> Opening, hups |-> HungUp, ctrl |-> Unread \/ lost]
     IN  ready' = r /\ pc' = IF r = Nothing THEN "top" ELSE "notifier"
  /\ UNCHANGED <<call, saved, options, priv, port, modem, stream, events>>

\* IN_OPEN while no client is counted: enable the GPS first, with the
\* preferred mode and the ordinary interval.
FirstOpen ==
  /\ pc = "notifier" /\ ready.opens # {} /\ conns = 0
  /\ CallEnable(nmeaMode, interval, "opened")
  /\ UNCHANGED <<ready, saved, options, priv, port, modem, stream, events>>

CountOpen(c) ==
  /\ pc = "opened" \/ (pc = "notifier" /\ conns # 0)
  /\ c \in ready.opens
  /\ conns' = conns + 1
  /\ port' = [port EXCEPT ![c] = IF @ = "opening" THEN "attached" ELSE "hup"]
  /\ ready' = [ready EXCEPT !.opens = @ \ {c}]
  /\ pc' = "notifier"
  /\ UNCHANGED <<call, saved, options, waitForSleep, registration,
                 portUndefined, suplFailed, gpsEnabled, current, new, modem,
                 stream, events>>

NotifierDone ==
  /\ pc = "notifier" /\ ready.opens = {}
  /\ pc' = "clients"
  /\ UNCHANGED <<call, ready, saved, options, priv, port, modem, stream,
                 events>>

\* A failed read on a client port: recreate it, and without clients left
\* call modem_disable_gps.
ClientGone(c) ==
  /\ pc = "clients" /\ c \in ready.hups
  /\ port' = [port EXCEPT ![c] = "idle"]
  /\ ready' = [ready EXCEPT !.hups = @ \ {c}]
  /\ conns' = IF conns > 0 THEN conns - 1 ELSE 0
  /\ IF conns' = 0
       THEN pc' = "disable" /\ call' = [NoCall EXCEPT !.ret = "clients"]
       ELSE UNCHANGED <<pc, call>>
  /\ UNCHANGED <<saved, options, waitForSleep, registration, portUndefined,
                 suplFailed, gpsEnabled, current, new, modem, stream, events>>

\* A client's own AT*E2GPSCTL=<m>: the modem obeys, gps_enabled is not stored,
\* and what the modem reports is parsed with its answer or left unread.
ClientSwitches(m, shot) ==
  /\ modemMode' = m /\ modemShot' = shot /\ modemSupl' = 0
  /\ foreign' = (m # OFF /\ (foreign \/ modemMode = OFF))
  /\ dropped' = (dropped /\ modemMode = m)
  /\ \/ Parse(new, statQ \o Change(m)) /\ statQ' = <<>>
     \/ Parse(new, statQ) /\ statQ' = Change(m)
  /\ cfunQ' = <<>> /\ cregQ' = <<>>
  /\ UNCHANGED <<modemWdis, network, cregOn, lost>>

\* modem_parse_client: a client's own AT command, whatever it says, is sent as
\* it is, and its response is parsed for unsolicited responses as well.
ClientCommand(c) ==
  /\ pc = "clients" /\ port[c] = "attached" /\ "command" \in Env /\ ~lost
  /\ events < MaxEvents /\ events' = events + 1
  /\ \/ Parse(new, statQ) /\ StreamRead /\ UNCHANGED <<modem, dropped>>
     \/ \E m \in ModemModes, shot \in BOOLEAN : ClientSwitches(m, shot)
  /\ UNCHANGED <<loopVars, options, waitForSleep, conns, portUndefined,
                 suplFailed, gpsEnabled, port>>

\* The control port.  Its read blocks when a command of this very turn has
\* already taken the data that made it readable.
NoControl ==
  /\ pc = "clients" /\ ready.hups = {} /\ ~ready.ctrl
  /\ pc' = "top" /\ ready' = Nothing
  /\ UNCHANGED <<call, saved, options, priv, port, modem, stream, events>>

ReadControl ==
  /\ pc = "clients" /\ ready.hups = {} /\ ready.ctrl /\ Unread /\ ~lost
  /\ Parse(new, statQ)
  /\ StreamRead /\ UNCHANGED dropped
  /\ pc' = "top" /\ ready' = Nothing
  /\ UNCHANGED <<call, saved, options, waitForSleep, conns, portUndefined,
                 suplFailed, gpsEnabled, port, modem, events>>

\* The read fails: "The control device was lost."
ControlLost ==
  /\ pc = "clients" /\ ready.hups = {} /\ ready.ctrl /\ lost
  /\ BeginWakeUp("top")
  /\ ready' = Nothing
  /\ Discard
  /\ UNCHANGED waitForSleep

-----------------------------------------------------------------------------
(* The D-Bus thread (gps_settings.c).                                      *)

Event == events < MaxEvents /\ events' = events + 1

SetPrefGpsMode(m) ==
  /\ Event /\ nmeaMode # m /\ nmeaMode' = m
  /\ UNCHANGED <<loopVars, singleShot, userDisabled, suspended, interval,
                 installCert, priv, port, modem, stream>>

SetSingleShot(b) ==
  /\ Event /\ "shot" \in Env /\ singleShot # b /\ singleShot' = b
  /\ UNCHANGED <<loopVars, nmeaMode, userDisabled, suspended, interval,
                 installCert, priv, port, modem, stream>>

SetGpsEnabled(b) ==
  /\ Event /\ "user" \in Env /\ userDisabled = b /\ userDisabled' = ~b
  /\ UNCHANGED <<loopVars, nmeaMode, singleShot, suspended, interval,
                 installCert, priv, port, modem, stream>>

SetSuspend(b) ==
  /\ Event /\ "suspend" \in Env /\ suspended # b /\ suspended' = b
  /\ UNCHANGED <<loopVars, nmeaMode, singleShot, userDisabled, interval,
                 installCert, priv, port, modem, stream>>

\* SetFixInterval stores what it is given, SuplInstallCertificate its flag.
SetFixInterval(i) ==
  /\ Event /\ "interval" \in Env /\ interval # i /\ interval' = i
  /\ UNCHANGED <<loopVars, nmeaMode, singleShot, userDisabled, suspended,
                 installCert, priv, port, modem, stream>>

SuplInstallCertificate ==
  /\ Event /\ "cert" \in Env /\ ~installCert /\ installCert' = TRUE
  /\ UNCHANGED <<loopVars, nmeaMode, singleShot, userDisabled, suspended,
                 interval, priv, port, modem, stream>>

-----------------------------------------------------------------------------
(* Client programs, the modem and the network.  The modem sends unsolicited *)
(* responses while the control device is open and they are switched on.    *)

ClientOpens(c) ==
  /\ Event /\ port[c] = "idle"
  /\ port' = [port EXCEPT ![c] = "opening"]
  /\ UNCHANGED <<loopVars, options, priv, modem, stream>>

ClientCloses(c) ==
  /\ Event /\ port[c] \in {"opening", "attached"}
  /\ port' = [port EXCEPT ![c] = IF @ = "opening" THEN "openhup" ELSE "hup"]
  /\ UNCHANGED <<loopVars, options, priv, modem, stream>>

Reporting == ~waitForSleep /\ ~lost /\ pc # "waking"

Report(s) ==
  Len(statQ) < MaxMsgs /\ statQ' = Append(statQ, s) /\ dropped' = FALSE

\* SUPL fails, or a single fix is made: the modem stops the GPS, and says so
\* if it may.
StopsItself(supl) ==
  /\ Event /\ modemMode' = OFF /\ modemSupl' = supl /\ foreign' = FALSE
  /\ IF Reporting THEN Report(Status(OFF, supl))
     ELSE UNCHANGED statQ /\ dropped' = TRUE
  /\ UNCHANGED <<loopVars, options, priv, port, modemShot, modemWdis, network,
                 cregOn, lost, cfunQ, cregQ>>

SuplStops == "supl" \in Env /\ modemMode = SUPL_MODE /\ StopsItself(1)

ShotFixed == modemShot /\ modemMode # OFF /\ StopsItself(modemSupl)

\* Any other change in *E2GPSSTAT (searching, fix, temperature).
StatusChanges ==
  /\ Event /\ "status" \in Env /\ Reporting
  /\ Report(Status(modemMode, modemSupl))
  /\ UNCHANGED <<loopVars, options, priv, port, modem, cfunQ, cregQ>>

\* The hardware switch behind *E2CFUN's w_disable.
SwitchTurns ==
  /\ Event /\ "wdis" \in Env /\ Reporting /\ Len(cfunQ) < MaxMsgs
  /\ modemWdis' = 1 - modemWdis /\ cfunQ' = Append(cfunQ, modemWdis')
  /\ UNCHANGED <<loopVars, options, priv, port, modemMode, modemSupl,
                 modemShot, network, cregOn, lost, foreign, statQ, cregQ,
                 dropped>>

NetworkChanges(n) ==
  /\ Event /\ n # network /\ network' = n
  /\ IF cregOn /\ Reporting
       THEN Len(cregQ) < MaxMsgs /\ cregQ' = Append(cregQ, n)
       ELSE UNCHANGED cregQ
  /\ UNCHANGED <<loopVars, options, priv, port, modemMode, modemSupl,
                 modemShot, modemWdis, cregOn, lost, foreign, statQ, cfunQ,
                 dropped>>

\* The modem resets or is unplugged: reads and writes fail until it is back.
DeviceLost ==
  /\ Event /\ "lost" \in Env /\ Reporting
  /\ lost' = TRUE /\ modemMode' = OFF /\ foreign' = FALSE
  /\ UNCHANGED <<loopVars, options, priv, port, modemSupl, modemShot, modemWdis,
                 network, cregOn, stream>>

-----------------------------------------------------------------------------
Command == SetupSupl \/ EnableSupl \/ EnableStandAlone \/ EnableOff \/ DisableGps

Loop ==
  \/ Command
  \/ InstallCertificate \/ HandleStates
  \/ PrepareForSleep \/ Resume \/ FinishWakeUp \/ WakeUpFails
  \/ Select \/ FirstOpen \/ NotifierDone
  \/ \E c \in Clients : CountOpen(c) \/ ClientGone(c)
  \/ NoControl \/ ReadControl \/ ControlLost

DBus ==
  \/ \E m \in PrefModes : SetPrefGpsMode(m)
  \/ \E b \in BOOLEAN : SetSingleShot(b) \/ SetGpsEnabled(b) \/ SetSuspend(b)
  \/ \E i \in Intervals : SetFixInterval(i)
  \/ SuplInstallCertificate

World ==
  \/ \E c \in Clients : ClientOpens(c) \/ ClientCloses(c) \/ ClientCommand(c)
  \/ SuplStops \/ ShotFixed \/ StatusChanges \/ SwitchTurns \/ DeviceLost
  \/ \E n \in Networks : NetworkChanges(n)

Next == Loop \/ DBus \/ World

Spec == Init /\ [][Next]_vars

\* The loop thread is never stopped for good; nothing outside has to happen.
FairSpec == Spec /\ WF_vars(Loop)

-----------------------------------------------------------------------------
PCs == {"top", "states", "handle", "setup", "suplctl", "ctl", "disable", "select",
        "notifier", "opened", "clients", "waking", "exit"}

LoopTypes ==
  /\ pc \in PCs
  /\ call \in [mode : ModemModes, interval : Intervals,
               ret : {"select", "opened", "clients", "states", "top"}]
  /\ ready \in [opens : SUBSET Clients, hups : SUBSET Clients, ctrl : BOOLEAN]
  /\ saved \in Modes

OptionTypes ==
  /\ nmeaMode \in PrefModes /\ interval \in Intervals
  /\ singleShot \in BOOLEAN /\ userDisabled \in BOOLEAN
  /\ suspended \in BOOLEAN /\ installCert \in BOOLEAN

PrivTypes ==
  /\ waitForSleep \in BOOLEAN /\ registration \in 0..6 /\ conns \in Nat
  /\ portUndefined \in BOOLEAN /\ suplFailed \in BOOLEAN
  /\ gpsEnabled \in Modes /\ current \in GpsState /\ new \in GpsState

ModemTypes ==
  /\ modemMode \in ModemModes /\ modemSupl \in 0..1
  /\ modemShot \in BOOLEAN /\ modemWdis \in 0..1
  /\ network \in Networks /\ cregOn \in BOOLEAN
  /\ lost \in BOOLEAN /\ foreign \in BOOLEAN

StreamTypes ==
  /\ statQ \in Seq(Statuses) /\ cfunQ \in Seq(0..1)
  /\ cregQ \in Seq(Networks) /\ dropped \in BOOLEAN

TypeOK ==
  /\ LoopTypes /\ OptionTypes /\ PrivTypes /\ ModemTypes /\ StreamTypes
  /\ port \in [Clients -> {"idle", "opening", "openhup", "attached", "hup"}]
  /\ events \in Nat

-----------------------------------------------------------------------------
(* Safety.                                                                 *)

\* When the loop goes to wait for events and counts no client, it takes the
\* GPS to be off: neither a wake-up nor the wait for registration, which both
\* write gps_enabled, leaves it on (main_loop, modem_disable_gps).
NoClientsNoGps == pc = "select" /\ conns = 0 => gpsEnabled = OFF

\* modem_disable_gps trusts gps_enabled and sends nothing when it is OFF: then
\* the modem is off indeed, at any point between two commands, unless a client
\* has switched the GPS on by a command of its own.
OffMeansOff == gpsEnabled = OFF => modemMode = OFF \/ foreign

\* "If no more clients, close gps": when the loop waits and counts no client,
\* the modem's GPS is off, unless a client has switched it on itself.
NoClientsModemOff == pc = "select" /\ conns = 0 => modemMode = OFF \/ foreign

\* A GPS that the daemon has switched on never runs without its NMEA port being
\* set since the modem was last initialised, over suspends and losses.
NmeaPortDefined == modemMode # OFF => ~portUndefined \/ foreign

\* A modem that has stopped, by itself or by a client's command, does not stay
\* unnoticed: when the loop waits and takes the GPS to be on, the message that
\* says it stopped is still unread, or has been read and waits for the next
\* turn, unless the installation of a certificate has discarded it.
StopNoticed ==
  /\ pc = "select" /\ ~dropped
  /\ gpsEnabled \in {STAND_ALONE_MODE, SUPL_MODE} /\ modemMode = OFF
  => new.mode = OFF \/ \E i \in 1..Len(statQ) : statQ[i].mode = OFF

\* With w_disable known to be set, the loop does not wait while a GPS that the
\* daemon has switched on runs, except for a report that will make it disable
\* the GPS, unless that report has been discarded.
WDisableIsObeyed ==
  pc = "select" /\ current.wdis = 1 /\ new.wdis = 1 /\ ~foreign /\ ~dropped
  => modemMode = OFF \/ \E i \in 1..Len(statQ) : statQ[i].mode # OFF

-----------------------------------------------------------------------------
(* Liveness, under FairSpec.                                               *)

\* pselect promised control data that a command has taken meanwhile: the loop
\* waits in read(ctrl_fd) until the modem says something else.
Blocked == /\ pc = "clients" /\ ready.hups = {} /\ ready.ctrl
           /\ ~Unread /\ ~lost

NoClient == \A c \in Clients : port[c] = "idle"

\* The daemon has no answer to a GPS that a client has switched on, nor to a
\* report that it has discarded, and both may last.

\* Once all clients are gone for good, the modem's GPS goes off for good.
LastClientStopsGps ==
  <>[]NoClient => <>[](modemMode = OFF) \/ <>[]Blocked \/ <>[]foreign

\* When the user disables the GPS and leaves it so, it goes off for good.
UserStopsGps == <>[]userDisabled => <>[](modemMode = OFF) \/ <>[]Blocked
                    \/ <>[]foreign \/ <>[]dropped

ClientServable ==
  /\ \E c \in Clients : port[c] = "attached"
  /\ ~userDisabled /\ ~suspended /\ modemWdis = 0 /\ ~lost
  /\ nmeaMode = STAND_ALONE_MODE \/ (nmeaMode = SUPL_MODE /\ network \in Registered)

\* With a client and nothing in the way for good, the GPS is on for good, a
\* failed SUPL session notwithstanding.
ClientIsServed ==
  <>[]ClientServable => <>[](modemMode # OFF) \/ <>[]Blocked \/ <>[]dropped
=============================================================================
