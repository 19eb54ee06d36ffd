----------------------------- MODULE ModemInit -----------------------------
(***************************************************************************)
(* How the daemon takes the modem up: at its start (mbm_manager.c:         *)
(* create_mbm_modem), after a suspension and after the loss of its device  *)
(* (pm_wake_up).  init_mbm_modem opens the control device, resets a modem  *)
(* that does not answer (recover_stalled_ctrl_device), asks what it can    *)
(* do, turns its reports on and opens the NMEA device.                     *)
(*                                                                         *)
(* The modem may stall at any time and restarts by a reset, answer late, or *)
(* vanish; its two device files come back one after the other.  The D-Bus  *)
(* thread opens and closes the settings file meanwhile, which decides the  *)
(* numbers of descriptors.                                                 *)
(***************************************************************************)
EXTENDS Naturals, FiniteSetsExt, SequencesExt

CONSTANTS Nets,         \* the registration states the network gives
          Modules,      \* kinds of module: "F5521gw", "gps", "supl", "F3507G", "none"
          Cards,        \* SIM cards: "none", "pin", "puk", "ready"
          MaxRefusals,  \* how often in a row the modem refuses one report
          Refusable,    \* queries that it may refuse: "radio", "registration"
          MaxRounds     \* bound: stalls, suspensions, losses, late
                        \* answers, uses of the file

Devices == {"nmea", "ctrl"}
Reports == {"stat", "cfun", "creg"}
Numbers == 0..3         \* of descriptors; 0 is the standard input

\* MBM_REGISTRATION_*, as in GpsControl.
REGISTRATION_NOT_POSSIBLE == 6
Registered == {1, 3, 5}
Unregistered == {0, 2, 4}

ASSUME ConstantsOK ==
  /\ Nets \subseteq 0..5 /\ MaxRefusals \in Nat /\ MaxRounds \in Nat
  /\ Modules \subseteq {"F5521gw", "gps", "supl", "F3507G", "none"}
  /\ Cards \subseteq {"none", "pin", "puk", "ready"}
  /\ Refusable \subseteq {"radio", "registration"}

VARIABLES
  pc,            \* where the thread is
  tries,         \* count, probe_attempts, i: of the loop it is in
  found,         \* nmea_dev and ctrl_dev that are not NULL
  nmeaFd, ctrlFd, fdsread,
  owner,         \* who holds a descriptor number
  fileFd,        \* what the D-Bus thread takes for its file's, 4 for none
  gpsEnabled,    \* priv->gps_enabled
  saved,         \* its values that pm_wake_up and the recovery hold
  registration, unsolicited,
  customised,    \* what mbm_gps_customization says
  module, card,  \* the modem: its kind, the card that is in it,
  present,       \* the device files that are there,
  modem,         \* and what a reset changes
  dead,          \* is it lost, for who has it open?
  rounds,
  (* history *)
  late,          \* has it answered late since it was opened?
  crossed        \* has the D-Bus thread closed a device since then?

descriptors == <<nmeaFd, ctrlFd, fdsread, owner>>
belief == <<registration, unsolicited, customised>>
line == <<modem, late, rounds>>
vars == <<pc, tries, found, descriptors, fileFd, gpsEnabled, saved, belief,
          module, card, present, line, dead, crossed>>

NoFile == 4

\* After power-on: silent until it has booted, without reports.
PowerOn == [state : {"booting"}, reports : {{}}, radio : BOOLEAN, net : {0},
            sim : {card}, unread : {FALSE}]

Init ==
  /\ pc = "create" /\ tries = 0 /\ found = {}
  /\ nmeaFd = 0 /\ ctrlFd = 0 /\ fdsread = {}
  /\ owner = [n \in Numbers |-> IF n = 0 THEN "stdin" ELSE "free"]
  /\ gpsEnabled = "off" /\ saved = <<>>
  /\ registration = 0 /\ unsolicited = FALSE /\ customised = {}
  /\ module \in Modules /\ card \in Cards
  /\ present \in {{}, Devices}
  /\ modem \in {[m EXCEPT !.state = s] : m \in PowerOn, s \in {"up", "booting"}}
  /\ fileFd = NoFile /\ dead = FALSE /\ rounds = 0 /\ late = FALSE /\ crossed = FALSE

-----------------------------------------------------------------------------
Up == modem.state = "up"

\* serial_send_AT_cmd writes or reads for ever when its device is lost or its
\* number is another's.
Talks == ~dead /\ owner[ctrlFd] = "ctrl"

\* Whatever command is answered, the reports that wait are read with the
\* answer, and init_mbm_modem parses none.
Answers(change) ==
  /\ Talks /\ UNCHANGED <<late, rounds>>
  /\ IF Up THEN modem' = [change EXCEPT !.unread = FALSE] ELSE late /\ UNCHANGED modem

\* An answer after 5 seconds is a silence for its own command, and taken for the
\* answer of a later one: from then on every answer may be that of another.
Silent(change) ==
  \/ Talks /\ ~Up /\ UNCHANGED line
  \/ /\ Talks /\ Up /\ modem' \in {modem, [change EXCEPT !.unread = FALSE]}
     /\ late' = TRUE
     /\ IF late THEN UNCHANGED rounds ELSE rounds < MaxRounds /\ rounds' = rounds + 1

LowestFree == Min({n \in Numbers : owner[n] = "free"})
Closed(fds) == [n \in Numbers |-> IF n \in fds THEN "free" ELSE owner[n]]

Goto(from, to) == pc = from /\ pc' = to

\* find_device_file, for each device: a search.
Search == found' = present

\* A retry loop: once more, or at its end.
Retry(limit, end) ==
  IF tries + 1 < limit
  THEN tries' = tries + 1 /\ UNCHANGED pc
  ELSE tries' = 0 /\ pc' = end

-----------------------------------------------------------------------------
(* Finding and opening the devices.                                        *)

Create ==
  /\ Search /\ Goto("create", IF present = Devices THEN "open" ELSE "exited")
  /\ UNCHANGED <<tries, descriptors, gpsEnabled, saved, belief, line>>

BeginWakeUp ==
  /\ Goto("asleep", "waking")
  /\ saved' = <<gpsEnabled>> /\ gpsEnabled' = "waking"
  /\ UNCHANGED <<tries, found, descriptors, belief, line>>

\* Goes on even without a device.
WakeUpSearch ==
  /\ Search /\ Goto("waking", "open")
  /\ UNCHANGED <<tries, descriptors, gpsEnabled, saved, belief, line>>

\* modem_open_gps_ctrl and modem_open_gps_nmea, or g_error.
OpenCtrl(next) ==
  /\ IF "ctrl" \in found \intersect present
     THEN /\ pc' = next /\ ctrlFd' = LowestFree /\ dead' = FALSE
          /\ owner' = [owner EXCEPT ![LowestFree] = "ctrl"]
          /\ fdsread' = fdsread \union {LowestFree}
          /\ UNCHANGED nmeaFd
     ELSE pc' = "aborted" /\ UNCHANGED <<descriptors, dead>>
  /\ UNCHANGED <<tries, found, gpsEnabled, saved, belief, line>>

FirstOpen == pc = "open" /\ OpenCtrl("probe")
Reopen == pc = "reopen" /\ OpenCtrl("reprobe")

OpenNmea ==
  /\ pc = "nmea"
  /\ IF "nmea" \in found \intersect present
     THEN /\ pc' = "turn" /\ nmeaFd' = LowestFree
          /\ owner' = [owner EXCEPT ![LowestFree] = "nmea"]
          /\ fdsread' = fdsread \union {LowestFree}
          /\ gpsEnabled' = IF saved = <<>> THEN gpsEnabled ELSE Head(saved)
          /\ saved' = <<>> /\ UNCHANGED ctrlFd
     ELSE pc' = "aborted" /\ UNCHANGED <<descriptors, gpsEnabled, saved>>
  /\ UNCHANGED <<tries, found, belief, line>>

\* tcflush, FD_CLR and close of both descriptors, open or not.
CloseDevicesKeepingCtrl ==   \* faulty: ctrl_fd stays in the set
  /\ fdsread' = fdsread \ {nmeaFd}
  /\ owner' = Closed({nmeaFd, ctrlFd})
  /\ late' = FALSE /\ crossed' = FALSE
  /\ UNCHANGED <<nmeaFd, ctrlFd>>

CloseDevices ==
  /\ fdsread' = fdsread \ {nmeaFd, ctrlFd}
  /\ owner' = Closed({nmeaFd, ctrlFd})
  /\ late' = FALSE /\ crossed' = FALSE
  /\ UNCHANGED <<nmeaFd, ctrlFd>>

-----------------------------------------------------------------------------
(* recover_stalled_ctrl_device                                             *)

Probe ==
  /\ \/ Answers(modem) /\ Goto("probe", "custom")
     \/ Silent(modem) /\ Goto("probe", "reset")
  /\ UNCHANGED <<tries, found, descriptors, gpsEnabled, saved, belief>>

\* AT*E2RESET is written to a modem that may or may not follow it.
Reset ==
  /\ Goto("reset", "rescan")
  /\ saved' = Append(saved, gpsEnabled) /\ gpsEnabled' = "recovering"
  /\ CloseDevices
  /\ \/ modem' \in PowerOn /\ present' = {}
     \/ UNCHANGED <<modem, present>>
  /\ UNCHANGED <<tries, found, belief>>

Rescan ==
  /\ Search /\ Goto("rescan", "searching") /\ tries' = 0
  /\ UNCHANGED <<descriptors, gpsEnabled, saved, belief, line>>

SearchAgainUncounted ==   \* faulty: the searches are not counted
  /\ pc = "searching" /\ found # Devices /\ tries < 5
  /\ Search /\ UNCHANGED <<pc, tries>>
  /\ UNCHANGED <<descriptors, gpsEnabled, saved, belief, line>>

SearchAgain ==
  /\ pc = "searching" /\ found # Devices /\ tries < 5
  /\ Search /\ tries' = tries + 1 /\ UNCHANGED pc
  /\ UNCHANGED <<descriptors, gpsEnabled, saved, belief, line>>

\* What counts at the end are the searches, not what the last one found.
SearchEnds ==
  /\ pc = "searching" /\ (found = Devices \/ tries = 5)
  /\ pc' = IF tries = 5 THEN "gave up" ELSE "reopen"
  /\ tries' = 0
  /\ UNCHANGED <<found, descriptors, gpsEnabled, saved, belief, line>>

ReprobeForgets ==   \* faulty: gps_enabled stays as it is
  /\ pc = "reprobe"
  /\ \/ /\ Answers(modem) /\ pc' = "custom" /\ tries' = 0
        /\ saved' = Front(saved) /\ UNCHANGED gpsEnabled
     \/ Silent(modem) /\ Retry(5, "aborted") /\ UNCHANGED <<gpsEnabled, saved>>
  /\ UNCHANGED <<found, descriptors, belief>>

Reprobe ==
  /\ pc = "reprobe"
  /\ \/ /\ Answers(modem) /\ pc' = "custom" /\ tries' = 0
        /\ gpsEnabled' = saved[Len(saved)] /\ saved' = Front(saved)
     \/ Silent(modem) /\ Retry(5, "aborted") /\ UNCHANGED <<gpsEnabled, saved>>
  /\ UNCHANGED <<found, descriptors, belief>>

-----------------------------------------------------------------------------
(* init_mbm_modem, with a control device that answered.                    *)

\* modem_check_gps_customization.  The F3507G does not know the question for
\* the GPS, which counts as a yes.
AbilityKnown == CASE   \* faulty: an error is a no
                  module \in {"F5521gw", "supl"} -> {"gps", "supl"}
                  [] module = "gps" -> {"gps"}
                  [] module \in {"F3507G", "none"} -> {}

Ability == CASE module \in {"F5521gw", "supl"} -> {"gps", "supl"}
             [] module \in {"gps", "F3507G"} -> {"gps"}
             [] module = "none" -> {}

CheckCustomization ==
  /\ Goto("custom", "pin")
  /\ \/ Answers(modem) /\ ~late /\ customised' = Ability
     \/ Answers(modem) /\ late /\ customised' \in SUBSET {"gps", "supl"}
     \/ Silent(modem) /\ customised' = {}
  /\ UNCHANGED <<tries, found, descriptors, gpsEnabled, saved, registration,
                 unsolicited>>

\* modem_check_pin: whether or not the unlocking works, and it takes a while.
CheckPin ==
  /\ \/ /\ Goto("pin", "quiet")
        /\ \E sim \in {modem.sim} \union
                      (IF modem.sim \in {"pin", "puk"} THEN {"busy"} ELSE {}) :
             \/ Answers([modem EXCEPT !.sim = sim])
             \/ Up /\ modem.sim \in {"pin", "puk"} /\ Silent([modem EXCEPT !.sim = sim])
     \/ Silent(modem) /\ Goto("pin", "aborted")
  /\ UNCHANGED <<tries, found, descriptors, gpsEnabled, saved, belief>>

\* modem_disable_unsolicited_responses, at the head of enabling them.
Quiet ==
  /\ Goto("quiet", "stat") /\ unsolicited' = FALSE
  /\ \/ unsolicited /\ \E kept \in SUBSET modem.reports :
          \/ Answers([modem EXCEPT !.reports = kept])
          \/ Silent([modem EXCEPT !.reports = kept])
     \/ ~unsolicited /\ UNCHANGED line
  /\ UNCHANGED <<tries, found, descriptors, gpsEnabled, saved, registration,
                 customised>>

\* One report of modem_enable_unsolicited_responses: the first command and up
\* to five more while it is refused.  A silence ends the process, by g_error
\* or, in a retry, by the NULL that is searched for "ERROR".
EnableReportOnce(r, next) ==   \* faulty: one retry less
  /\ pc = r
  /\ \/ /\ Answers([modem EXCEPT !.reports = @ \union {r}])
        /\ pc' = next /\ tries' = 0
     \/ tries < MaxRefusals /\ Answers(modem) /\ Retry(5, next)
     \/ Silent(modem) /\ pc' = "aborted" /\ UNCHANGED tries
  /\ unsolicited' = (unsolicited \/ pc' = "radio")
  /\ UNCHANGED <<found, descriptors, gpsEnabled, saved, registration, customised>>

EnableReport(r, next) ==
  /\ pc = r
  /\ \/ /\ Answers([modem EXCEPT !.reports = @ \union {r}])
        /\ pc' = next /\ tries' = 0
     \/ tries < MaxRefusals /\ Answers(modem) /\ Retry(6, next)
     \/ /\ late /\ \E m \in {modem, [modem EXCEPT !.reports = @ \union {r}]} : Answers(m)
        /\ \/ Retry(6, next)
           \/ pc' = next /\ tries' = 0
     \/ Silent(modem) /\ pc' = "aborted" /\ UNCHANGED tries
  /\ unsolicited' = (unsolicited \/ pc' = "radio")
  /\ UNCHANGED <<found, descriptors, gpsEnabled, saved, registration, customised>>

\* modem_is_pin_ready: an error ends it, anything else but READY is asked again.
PinNotReady ==
  /\ registration' = REGISTRATION_NOT_POSSIBLE /\ unsolicited' = TRUE

PinReady ==
  /\ pc = "pin ready"
  /\ \/ Answers(modem) /\ (modem.sim = "ready" \/ late)
        /\ pc' = "creg" /\ tries' = 0 /\ UNCHANGED <<registration, unsolicited>>
     \/ Answers(modem) /\ (modem.sim \in {"none", "busy"} \/ late)
        /\ pc' = "radio" /\ tries' = 0 /\ PinNotReady
     \/ /\ \/ Answers(modem) /\ (modem.sim \in {"pin", "puk"} \/ late)
           \/ Silent(modem)
        /\ Retry(5, "radio")
        /\ IF pc' = "radio" THEN PinNotReady ELSE UNCHANGED <<registration, unsolicited>>
  /\ UNCHANGED <<found, descriptors, gpsEnabled, saved, customised>>

\* modem_check_radio
CheckRadio ==
  /\ \/ Answers(modem) /\ (modem.radio \/ late) /\ Goto("radio", "registration")
     \/ /\ ~modem.radio \/ "radio" \in Refusable \/ late
        /\ \E on \in {modem.radio, TRUE} :
             \/ Answers([modem EXCEPT !.radio = on])
             \/ Silent([modem EXCEPT !.radio = on])
        /\ Goto("radio", "decide")
     \/ Silent(modem) /\ Goto("radio", "decide")
  /\ UNCHANGED <<tries, found, descriptors, gpsEnabled, saved, belief>>

\* modem_check_registration_status: the answer is "+CREG: <report>,<status>",
\* and only those with the report on and a status but 0 are known.
CheckedWaiting(status) ==   \* faulty: a registration is not looked for
  IF "creg" \in modem.reports /\ status \in {2, 4} THEN status ELSE registration

Checked(status) ==
  IF "creg" \in modem.reports /\ status # 0 THEN status ELSE registration

CheckRegistration ==
  /\ Goto("registration", "decide")
  /\ \/ /\ Answers(modem)
        /\ registration' \in {Checked(modem.net)} \union
              (IF "registration" \in Refusable \/ late THEN {registration} ELSE {})
     \/ Silent(modem) /\ UNCHANGED registration
  /\ UNCHANGED <<tries, found, descriptors, gpsEnabled, saved, unsolicited,
                 customised>>

\* Without a GPS the daemon ends here, in order.
Decide ==
  /\ Goto("decide", IF "gps" \in customised THEN "nmea" ELSE "exited")
  /\ UNCHANGED <<tries, found, descriptors, gpsEnabled, saved, belief, line>>

-----------------------------------------------------------------------------
(* The turns of the loop, as far as they matter here.                      *)

\* The GPS goes on or off, see GpsControl.
Power ==
  /\ Goto("turn", "turn") /\ Talks /\ gpsEnabled' \in {"off", "on"}
  /\ UNCHANGED <<tries, found, descriptors, saved, belief, line>>

\* parse_creg
ReadReport ==
  /\ Goto("turn", "turn") /\ Talks /\ modem.unread
  /\ registration' = modem.net /\ modem' = [modem EXCEPT !.unread = FALSE]
  /\ UNCHANGED <<tries, found, descriptors, gpsEnabled, saved, unsolicited,
                 customised, late, rounds>>

\* pm_prepare_for_sleep, after which the modem may lose its power.
Sleep ==
  /\ Goto("turn", "asleep") /\ Talks /\ rounds' = rounds + 1
  /\ registration' = 0 /\ unsolicited' = FALSE /\ gpsEnabled' = "off"
  /\ CloseDevices
  /\ \/ modem' \in PowerOn /\ present' = {}
     \/ modem' = [modem EXCEPT !.reports = IF Up THEN {} ELSE @, !.unread = FALSE]
        /\ UNCHANGED present
  /\ UNCHANGED <<tries, found, saved, customised>>

\* The device is lost, with or without the power of the modem.
LoseDevice ==
  /\ Goto("turn", "waking") /\ rounds' = rounds + 1
  /\ saved' = <<gpsEnabled>> /\ gpsEnabled' = "waking"
  /\ CloseDevices
  /\ modem' \in (PowerOn \union {modem}) /\ present' = {}
  /\ UNCHANGED <<tries, found, belief>>

-----------------------------------------------------------------------------
(* The modem, the network, and the settings file of the D-Bus thread.      *)

Ended == {"exited", "aborted", "gave up"}

Commanding == Reports \union {"probe", "reprobe", "custom", "pin", "quiet",
                               "pin ready", "radio", "registration"}

Stall ==
  /\ Up /\ modem' = [modem EXCEPT !.state = "stalled"] /\ rounds' = rounds + 1
  /\ UNCHANGED <<present, dead>>

Boot ==
  /\ modem.state = "booting" /\ modem' = [modem EXCEPT !.state = "up"]
  /\ UNCHANGED <<present, dead, rounds>>

SimSettles ==
  /\ modem.sim = "busy" /\ modem' = [modem EXCEPT !.sim = "ready"]
  /\ UNCHANGED <<present, dead, rounds>>

Appear(d) ==
  /\ d \notin present /\ present' = present \union {d}
  /\ UNCHANGED <<modem, dead, rounds>>

NetChange(n) ==
  /\ Up /\ modem.radio /\ n # modem.net
  /\ modem' = [modem EXCEPT !.net = n, !.unread = @ \/ "creg" \in modem.reports]
  /\ UNCHANGED <<present, dead, rounds>>

\* While the daemon takes it up; in a turn the loop sees it, LoseDevice.
Vanish ==
  /\ pc \in Commanding /\ rounds' = rounds + 1
  /\ dead' = TRUE /\ present' = {} /\ modem' \in (PowerOn \union {modem})

OpenFile ==
  /\ fileFd = NoFile /\ \E n \in Numbers : owner[n] = "free"
  /\ fileFd' = LowestFree /\ owner' = [owner EXCEPT ![LowestFree] = "file"]
  /\ rounds' = rounds + 1 /\ UNCHANGED crossed

\* fclose closes the number, also when a recovery has closed it before and it has
\* gone to a device.
CloseFile ==
  /\ fileFd # NoFile /\ fileFd' = NoFile
  /\ owner' = Closed({fileFd})
  /\ crossed' = (crossed \/ owner[fileFd] \in Devices) /\ UNCHANGED rounds

Modem ==
  /\ \/ rounds < MaxRounds /\ (Stall \/ Vanish)
     \/ Boot \/ SimSettles
     \/ \E d \in Devices : Appear(d)
     \/ \E n \in Nets : NetChange(n)
  /\ UNCHANGED <<owner, fileFd, crossed>>

World ==
  /\ pc \notin Ended
  /\ \/ Modem
     \/ /\ (rounds < MaxRounds /\ OpenFile) \/ CloseFile
        /\ UNCHANGED <<present, modem, dead>>
  /\ UNCHANGED <<pc, tries, found, nmeaFd, ctrlFd, fdsread, gpsEnabled, saved,
                 belief, module, card, late>>

Taking ==
  /\ \/ /\ \/ Create \/ WakeUpSearch \/ Probe \/ Rescan \/ SearchAgain
           \/ SearchEnds \/ Reprobe \/ CheckCustomization \/ CheckPin \/ Quiet
           \/ EnableReport("stat", "cfun") \/ EnableReport("cfun", "pin ready")
           \/ PinReady \/ EnableReport("creg", "radio")
           \/ CheckRadio \/ CheckRegistration \/ Decide \/ OpenNmea
        /\ UNCHANGED dead
     \/ FirstOpen \/ Reopen
  /\ UNCHANGED <<present, crossed>>

Loop == /\ Taking \/ (Reset /\ UNCHANGED <<rounds, dead>>)
        /\ UNCHANGED <<module, card, fileFd>>

Turns ==
  /\ \/ (Power \/ ReadReport \/ BeginWakeUp) /\ UNCHANGED <<present, crossed>>
     \/ rounds < MaxRounds /\ (Sleep \/ LoseDevice)
  /\ UNCHANGED <<module, card, fileFd, dead>>

Next == Loop \/ Turns \/ World

\* The thread runs.  Nothing is asked of the modem.
Spec == Init /\ [][Next]_vars /\ WF_vars(Loop)

-----------------------------------------------------------------------------
TypeOK ==
  /\ pc \in Reports \union Ended \union
       {"create", "asleep", "waking", "open", "probe", "reset", "rescan",
        "searching", "reopen", "reprobe", "custom", "pin", "quiet", "pin ready",
        "radio", "registration", "decide", "nmea", "turn"}
  /\ tries \in 0..5 /\ found \subseteq Devices /\ present \subseteq Devices
  /\ nmeaFd \in Numbers /\ ctrlFd \in Numbers /\ fdsread \subseteq Numbers
  /\ owner \in [Numbers -> {"free", "stdin", "file"} \union Devices]
  /\ fileFd \in Numbers \union {NoFile} /\ dead \in BOOLEAN
  /\ late \in BOOLEAN /\ crossed \in BOOLEAN
  /\ gpsEnabled \in {"off", "on", "waking", "recovering"}
  /\ saved \in Seq({"off", "on", "waking"}) /\ Len(saved) <= 2
  /\ pc = "turn" => gpsEnabled \in {"off", "on"} /\ saved = <<>>
  /\ registration \in 0..6 /\ unsolicited \in BOOLEAN
  /\ customised \subseteq {"gps", "supl"}
  /\ modem \in [state : {"up", "booting", "stalled"}, reports : SUBSET Reports,
                radio : BOOLEAN, net : 0..5, sim : Cards \union {"busy", "ready"},
                unread : BOOLEAN]
  /\ rounds \in 0..MaxRounds

\* Since the devices were opened every answer came in time, and the D-Bus thread
\* closed none of them.
Regular == ~late /\ ~crossed

\* A loop that waits in pselect watches the two devices it holds and no other
\* number, though numbers change hands while the devices are closed and the
\* recovery closes some that are closed; unless it has closed the number of the
\* settings file, which the D-Bus thread closes once more when it is a device's.
WatchesItsDevices ==
  pc = "turn" =>
    /\ fdsread = {nmeaFd, ctrlFd}
    /\ ~crossed => owner[nmeaFd] = "nmea" /\ owner[ctrlFd] = "ctrl"

\* The loop knows the GPS by reports only: when it waits they are on in the
\* modem, if that refuses five times at most and answers in time.
ReportsAreOn == pc = "turn" /\ Regular => {"stat", "cfun"} \subseteq modem.reports

\* A loop that waits for a network in SUPL mode is told of it: when the modem is
\* registered, the loop knows, or does not wait, or a report is on its way; if
\* all answers came in time.
WaitIsToldOf ==
  pc = "turn" /\ Up /\ registration \in Unregistered /\ Regular
    => modem.net \notin Registered \/ modem.unread

\* The daemon ends "without GPS functionality" or devices only when the module
\* has none, however often it stalled on the way; or when an answer came late.
ExitsOnlyWithoutGps ==
  pc = "exited" /\ Regular => module = "none" \/ found # Devices

\* A command to a device that is lost, or that was closed, never ends.
Stuck == pc \in Commanding /\ ~Talks

\* Every attempt to take the modem up ends, however it answers, unless its device
\* is lost or closed under a command.
TakingEnds == pc = "open" ~> pc \in Ended \union {"turn"} \/ Stuck
=============================================================================
