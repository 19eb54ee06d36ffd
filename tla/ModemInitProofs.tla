-------------------------- MODULE ModemInitProofs --------------------------
(***************************************************************************)
(* Theorems about ModemInit, for any network, any modules and cards, any   *)
(* number of stalls, suspensions and losses: what is true of a loop that   *)
(* goes on, wherever the attempt to take the modem up stalled.             *)
(***************************************************************************)
EXTENDS ModemInit, SequenceTheorems, TLAPS

-----------------------------------------------------------------------------
(* Where the thread is, by the devices it holds.                           *)

Opening == {"create", "asleep", "waking", "open", "rescan", "searching",
            "gave up", "reopen"}
Asking == {"custom", "pin", "quiet", "stat", "cfun", "pin ready", "creg", "radio",
           "registration", "decide", "nmea"}
Holding == {"probe", "reset", "reprobe"} \union Asking
Recovering == {"rescan", "searching", "gave up", "reopen", "reprobe"}
Places == Opening \union Holding \union {"turn", "exited", "aborted"}

States == {"up", "booting", "stalled"}
Sims == Cards \union {"busy", "ready"}
Modems == [state : States, reports : SUBSET Reports, radio : BOOLEAN, net : 0..5,
           sim : Sims, unread : BOOLEAN]

\* The variables that are neither a descriptor, nor a saved mode, nor the modem.
PlainInv ==
  /\ tries \in 0..5
  /\ found \subseteq Devices /\ present \subseteq Devices
  /\ registration \in 0..6 /\ unsolicited \in BOOLEAN
  /\ customised \subseteq {"gps", "supl"}

\* What is remembered of the line, and of the file.
LineInv ==
  /\ rounds \in 0..MaxRounds /\ fileFd \in Numbers \union {NoFile}
  /\ dead \in BOOLEAN /\ late \in BOOLEAN /\ crossed \in BOOLEAN
  /\ dead => pc \in Commanding

\* No descriptor is held twice, not even when the recovery has closed the
\* standard input or one that was closed already; and the thread watches just
\* what it holds, until the D-Bus thread closes that.
DescriptorInv ==
  /\ nmeaFd \in Numbers /\ ctrlFd \in Numbers /\ fdsread \subseteq Numbers
  /\ owner \in [Numbers -> {"free", "stdin", "file"} \union Devices]
  /\ \A m, n \in Numbers : m # n /\ owner[m] = owner[n] => owner[m] = "free"
  /\ pc \in Opening => fdsread = {} /\ \A n \in Numbers : owner[n] \notin Devices
  /\ \A n \in Numbers : owner[n] = "file" => n = fileFd
  /\ pc \in Holding => /\ fdsread = {ctrlFd} /\ (crossed \/ owner[ctrlFd] = "ctrl")
                       /\ \A n \in Numbers : owner[n] # "nmea"
  /\ pc \in Holding \union {"turn"} => \A n \in Numbers : owner[n] = "ctrl" => n = ctrlFd
  /\ pc = "turn" => \A n \in Numbers : owner[n] = "nmea" => n = nmeaFd
  /\ WatchesItsDevices

\* What is put back at the end is what the GPS was set to before: a recovery in
\* a wake-up puts back "waking", and the wake-up what the loop had.
Saved ==
  \/ saved = <<>> /\ gpsEnabled = "off"
  \/ saved \in {<<"off">>, <<"on">>} /\ gpsEnabled = "waking"
SavedTwice ==
  gpsEnabled = "recovering" /\ saved \in {<<"off">>, <<"off", "waking">>, <<"on", "waking">>}

SavedInv ==
  /\ pc \in {"create", "waking", "open", "probe", "reset", "exited"} \union Asking => Saved
  /\ pc \in Recovering => SavedTwice
  /\ pc = "aborted" => Saved \/ SavedTwice
  /\ pc = "turn" => saved = <<>> /\ gpsEnabled \in {"off", "on"}
  /\ pc = "asleep" => saved = <<>> /\ gpsEnabled = "off"

\* The modem: no network without radio, and no report on it without being asked
\* for; one that has answered the probe has booted.
ModemInv ==
  /\ module \in Modules /\ card \in Cards /\ modem \in Modems
  /\ ~modem.radio => modem.net = 0
  /\ modem.unread => "creg" \in modem.reports
  /\ pc \in Asking \union {"turn"} \/ late => modem.state # "booting" \/ dead

\* Nothing has come late, no device was closed by another, and none is lost.
Usual == Regular /\ ~dead

\* A GPS that the module has is known when the daemon decides whether to end:
\* the question that a stall left unanswered is followed by one that aborts.
GpsKnown == module = "none" \/ "gps" \in customised
AbilityInv ==
  Usual => /\ pc = "pin" /\ Up => GpsKnown
           /\ pc \in Asking \ {"custom", "pin"} => GpsKnown
           /\ pc = "exited" => module = "none" \/ found # Devices

\* Each report is on in the modem when the loop of its retries is left.
ReportsHeld ==
  /\ pc \in (Asking \ {"custom", "pin", "quiet", "stat"}) \union {"turn"}
       => "stat" \in modem.reports
  /\ pc \in (Asking \ {"custom", "pin", "quiet", "stat", "cfun"}) \union {"turn"}
       => "cfun" \in modem.reports
ReportsInv == Usual => ReportsHeld

\* Behind the reports on the registration the loop knows that there is no
\* registration to wait for, or is told; behind the question for it, it knows.
Waits == Up /\ registration \in Unregistered
RegistrationHeld ==
  /\ pc \in {"radio", "registration", "decide", "nmea", "turn"}
       => "creg" \in modem.reports \/ registration = REGISTRATION_NOT_POSSIBLE
  /\ pc \in {"decide", "nmea", "turn"} /\ Waits
       => modem.net \notin Registered \/ modem.unread
RegistrationInv == Usual => RegistrationHeld

PlaceInv == pc \in Places

Inv == PlaceInv /\ LineInv /\ PlainInv /\ DescriptorInv /\ SavedInv /\ ModemInv /\ AbilityInv

\* The modem gives in after five refusals, and answers both questions.
Compliant == MaxRefusals <= 5
Answering == Compliant /\ Refusable = {}

-----------------------------------------------------------------------------
(* Every step, by its part of the attempt.                                 *)

Idle == UNCHANGED vars
Elsewhere == UNCHANGED <<module, card, fileFd>>

Finding ==
  /\ Create \/ WakeUpSearch \/ FirstOpen \/ Reopen \/ OpenNmea
  /\ UNCHANGED <<present, crossed>>

Recovery == Probe \/ Rescan \/ SearchAgain \/ SearchEnds \/ Reprobe

Reporting ==
  \/ EnableReport("stat", "cfun") \/ EnableReport("cfun", "pin ready")
  \/ EnableReport("creg", "radio")

Questions ==
  CheckCustomization \/ CheckPin \/ Quiet \/ PinReady \/ CheckRadio \/ CheckRegistration

LEMMA Parts ==
  ASSUME Loop
  PROVE  /\ Elsewhere
         /\ \/ Reset
            \/ Finding
            \/ UNCHANGED <<present, crossed, dead>> /\ Recovery
            \/ UNCHANGED <<present, crossed, dead>> /\ Reporting
            \/ UNCHANGED <<present, crossed, dead>> /\ Questions
            \/ UNCHANGED <<present, crossed, dead>> /\ Decide
BY DEF Loop, Taking, Elsewhere, Finding, Recovery, Reporting, Questions

\* What a command does, however late its answer comes.
Effect(change) ==
  \/ UNCHANGED modem
  \/ Up /\ modem' = [change EXCEPT !.unread = FALSE]
Told ==
  /\ Talks
  /\ \/ UNCHANGED <<late, rounds>>
     \/ /\ Up /\ late' = TRUE
        /\ UNCHANGED rounds \/ (rounds < MaxRounds /\ rounds' = rounds + 1)

LEMMA Commands ==
  ASSUME NEW change, Answers(change) \/ Silent(change)
  PROVE  Effect(change) /\ Told
<1>1. CASE Answers(change)
  BY <1>1, Zenon DEF Answers, Effect, Told
<1>2. CASE Silent(change)
  <2>1. CASE Talks /\ ~Up /\ UNCHANGED line
    BY <2>1 DEF Effect, Told, line
  <2>2. CASE /\ Talks /\ Up /\ modem' \in {modem, [change EXCEPT !.unread = FALSE]}
             /\ late' = TRUE
             /\ UNCHANGED rounds \/ (rounds < MaxRounds /\ rounds' = rounds + 1)
    BY <2>2 DEF Effect, Told
  <2> QED BY <1>2, <2>1, <2>2, Zenon DEF Silent
<1> QED BY <1>1, <1>2

\* As long as no answer comes late.
LEMMA InTime ==
  ASSUME NEW change, ~late, ~late'
  PROVE  /\ Answers(change) => Up /\ modem' = [change EXCEPT !.unread = FALSE]
         /\ Silent(change) => ~Up /\ UNCHANGED modem
<1>1. Answers(change) => Up /\ modem' = [change EXCEPT !.unread = FALSE]
  BY Zenon DEF Answers
<1>2. Silent(change) => ~Up /\ UNCHANGED line
  BY Zenon DEF Silent
<1> QED BY <1>1, <1>2 DEF line

-----------------------------------------------------------------------------
(* The places, counts and what is remembered besides.                      *)

LEMMA PlaceFacts ==
  /\ Opening \subseteq Places /\ Holding \subseteq Places /\ Asking \subseteq Places
  /\ {"turn", "exited", "aborted", "gave up"} \subseteq Places
BY DEF Places, Opening, Holding

LEMMA StepPlace ==
  ASSUME PlaceInv, [Next]_vars
  PROVE  PlaceInv'
<1> USE DEF PlaceInv
<1>1. CASE Loop
  <2> USE PlaceFacts DEF Opening, Holding, Asking, Goto
  <2>1. CASE Reset
    BY <2>1 DEF Reset
  <2>2. CASE Finding
    BY <2>2 DEF Finding, Create, WakeUpSearch, FirstOpen, Reopen, OpenCtrl, OpenNmea
  <2>3. CASE Recovery
    BY <2>3 DEF Recovery, Probe, Rescan, SearchAgain, SearchEnds, Reprobe, Retry
  <2>4. CASE Reporting
    BY <2>4 DEF Reporting, EnableReport, Retry
  <2>5. CASE Questions
    BY <2>5 DEF Questions, CheckCustomization, CheckPin, Quiet, PinReady, CheckRadio,
                CheckRegistration, Retry
  <2>6. CASE Decide
    BY <2>6 DEF Decide
  <2> QED BY <1>1, <2>1, <2>2, <2>3, <2>4, <2>5, <2>6, Parts
<1>2. CASE Turns
  BY <1>2, PlaceFacts DEF Opening, Goto, Turns, Power, ReadReport, BeginWakeUp, Sleep, LoseDevice
<1>3. CASE World \/ Idle
  BY <1>3 DEF World, Idle, vars
<1> QED BY <1>1, <1>2, <1>3 DEF Next, Idle

LEMMA InitPlain ==
  ASSUME Init
  PROVE  PlainInv
<1>1. /\ tries = 0 /\ found = {} /\ registration = 0 /\ unsolicited = FALSE
      /\ customised = {} /\ present \subseteq Devices
  BY DEF Init
<1>2. 0 \in 0..5 /\ 0 \in 0..6
  OBVIOUS
<1> QED BY <1>1, <1>2, Zenon DEF PlainInv

LEMMA RetryCounts ==
  ASSUME NEW limit \in {5, 6}, NEW end, tries \in 0..5, Retry(limit, end)
  PROVE  tries' \in 0..5
BY DEF Retry

LEMMA FindingPlain ==
  ASSUME PlainInv, Finding, Elsewhere
  PROVE  PlainInv'
<1> USE DEF PlainInv, belief, Devices, Elsewhere
<1>1. CASE Create \/ WakeUpSearch
  BY <1>1 DEF Finding, Create, WakeUpSearch, Search
<1>2. CASE FirstOpen \/ Reopen
  BY <1>2 DEF Finding, FirstOpen, Reopen, OpenCtrl
<1>3. CASE OpenNmea
  BY <1>3 DEF Finding, OpenNmea
<1> QED BY <1>1, <1>2, <1>3 DEF Finding

LEMMA ResetPlain ==
  ASSUME PlainInv, Reset, Elsewhere
  PROVE  PlainInv'
BY DEF PlainInv, belief, Devices, Elsewhere, Reset

LEMMA RecoveryPlain ==
  ASSUME PlainInv, Recovery, UNCHANGED present, Elsewhere
  PROVE  PlainInv'
<1>0. tries \in 0..5
  BY DEF PlainInv
<1>1. CASE Rescan
  BY <1>1 DEF Rescan, Search, PlainInv, belief, Elsewhere
<1>2. CASE SearchAgain
  <2>1. tries' \in 0..5
    BY <1>0, <1>2 DEF SearchAgain
  <2> QED BY <1>2, <2>1 DEF SearchAgain, Search, PlainInv, belief, Elsewhere
<1>3. CASE Probe
  BY <1>3 DEF Probe, PlainInv, belief, Elsewhere
<1>4. CASE SearchEnds
  <2>1. tries' = 0 /\ UNCHANGED <<found, belief>>
    BY <1>4 DEF SearchEnds
  <2> QED BY <2>1 DEF PlainInv, belief, Elsewhere
<1>5. CASE Reprobe
  <2>1. tries' = 0 \/ Retry(5, "aborted")
    BY <1>5 DEF Reprobe
  <2>2. tries' \in 0..5
    BY <1>0, <2>1, RetryCounts
  <2> QED BY <1>5, <2>2 DEF Reprobe, PlainInv, belief, Elsewhere
<1> QED BY <1>1, <1>2, <1>3, <1>4, <1>5 DEF Recovery

LEMMA ReportingPlain ==
  ASSUME PlainInv, UNCHANGED present, Elsewhere, NEW r, NEW next, EnableReport(r, next)
  PROVE  PlainInv'
<1>1. tries' \in 0..5
  BY RetryCounts DEF EnableReport, PlainInv
<1>2. unsolicited' \in BOOLEAN
  BY DEF EnableReport, PlainInv
<1> QED BY <1>1, <1>2 DEF EnableReport, PlainInv, Elsewhere

LEMMA QuestionsPlain ==
  ASSUME PlainInv, ModemInv, UNCHANGED present, Elsewhere, Questions
  PROVE  PlainInv'
<1> USE DEF PlainInv, belief, Elsewhere
<1>1. CASE CheckCustomization
  <2>1. Ability \subseteq {"gps", "supl"}
    BY ConstantsOK DEF Ability, ModemInv
  <2> QED BY <1>1, <2>1 DEF CheckCustomization
<1>2. CASE CheckPin \/ Quiet \/ CheckRadio
  BY <1>2 DEF CheckPin, Quiet, CheckRadio
<1>3. CASE PinReady
  <2>1. tries' \in 0..5
    <3>1. tries' = 0 \/ Retry(5, "radio")
      BY <1>3 DEF PinReady
    <3> QED BY <3>1, RetryCounts
  <2>2. \/ UNCHANGED <<registration, unsolicited>>
        \/ registration' = 6 /\ unsolicited' = TRUE
    BY <1>3 DEF PinReady, PinNotReady, REGISTRATION_NOT_POSSIBLE
  <2>3. registration' \in 0..6
    BY <2>2
  <2>4. unsolicited' \in BOOLEAN
    BY <2>2
  <2> QED BY <1>3, <2>1, <2>3, <2>4 DEF PinReady
<1>4. CASE CheckRegistration
  <2>1. Checked(modem.net) \in 0..6
    BY DEF Checked, ModemInv, Modems
  <2> QED BY <1>4, <2>1 DEF CheckRegistration
<1> QED BY <1>1, <1>2, <1>3, <1>4 DEF Questions

LEMMA TurnsPlain ==
  ASSUME PlainInv, ModemInv, Turns
  PROVE  PlainInv'
<1> USE DEF PlainInv, belief
<1>1. CASE Power /\ UNCHANGED <<present, crossed>>
  BY <1>1 DEF Power
<1>2. CASE ReadReport /\ UNCHANGED <<present, crossed>>
  BY <1>2 DEF ReadReport, ModemInv, Modems
<1>3. CASE BeginWakeUp /\ UNCHANGED <<present, crossed>>
  BY <1>3 DEF BeginWakeUp
<1>4. CASE rounds < MaxRounds /\ Sleep
  <2>1. registration' \in 0..6
    BY <1>4 DEF Sleep
  <2>2. unsolicited' \in BOOLEAN
    BY <1>4 DEF Sleep
  <2>3. present' \in {{}, present}
    BY <1>4 DEF Sleep
  <2> QED BY <1>4, <2>1, <2>2, <2>3 DEF Sleep
<1>5. CASE rounds < MaxRounds /\ LoseDevice
  BY <1>5 DEF LoseDevice
<1> QED BY <1>1, <1>2, <1>3, <1>4, <1>5 DEF Turns

LEMMA WorldPlain ==
  ASSUME PlainInv, World
  PROVE  PlainInv'
<1>1. present' \in {present, {}} \/ \E d \in Devices : present' = present \union {d}
  BY DEF World, Modem, Stall, Boot, SimSettles, Appear, NetChange, Vanish
<1> USE DEF PlainInv
<1>2. present' \subseteq Devices
  BY <1>1
<1> QED BY <1>2 DEF World, belief

LEMMA StepPlain ==
  ASSUME PlainInv, ModemInv, [Next]_vars
  PROVE  PlainInv'
<1>1. CASE Loop
  <2>1. CASE UNCHANGED present /\ Decide
    BY <1>1, <2>1, Parts DEF Decide, PlainInv, belief, Elsewhere
  <2>2. CASE UNCHANGED present /\ Reporting
    BY <1>1, <2>2, Parts, ReportingPlain DEF Reporting
  <2> QED BY <1>1, <2>1, <2>2, Parts, FindingPlain, ResetPlain, RecoveryPlain, QuestionsPlain
<1>2. CASE Turns \/ World
  BY <1>2, TurnsPlain, WorldPlain
<1>3. CASE Idle
  BY <1>3 DEF Idle, vars, PlainInv, belief
<1> QED BY <1>1, <1>2, <1>3 DEF Next, Idle

-----------------------------------------------------------------------------
(* The line.                                                               *)

LEMMA LowestIsFree ==
  ASSUME NEW n \in Numbers, owner[n] = "free"
  PROVE  LowestFree \in Numbers /\ owner[LowestFree] = "free"
<1> DEFINE Free == {m \in Numbers : owner[m] = "free"}
<1>1. \E x \in Free : \A y \in Free : x =< y
  BY DEF Numbers
<1>2. (CHOOSE x \in Free : \A y \in Free : x =< y) \in Free
  BY <1>1
<1> QED BY <1>2 DEF LowestFree, Min

\* Whoever is stuck at a lost device stays there.
LEMMA LoopTells ==
  ASSUME LineInv, Loop, ~Reset
  PROVE  /\ UNCHANGED <<fileFd, crossed>>
         /\ dead' = dead \/ dead' = FALSE
         /\ UNCHANGED <<late, rounds>> \/ Told
         /\ dead => pc' \in Commanding
<1> USE DEF Goto, Commanding, Reports
<1>0. UNCHANGED <<fileFd, crossed>>
  BY Parts DEF Elsewhere, Finding
<1>1. CASE Finding
  <2>1. UNCHANGED <<late, rounds>> /\ pc \notin Commanding
    BY <1>1 DEF Finding, Create, WakeUpSearch, FirstOpen, Reopen, OpenCtrl, OpenNmea, line
  <2>2. dead' = dead \/ dead' = FALSE
    BY <1>1, Parts DEF Loop, Taking, Finding, Create, WakeUpSearch, FirstOpen, Reopen,
       OpenCtrl, OpenNmea, Reset, Probe, Rescan, SearchAgain, SearchEnds, Reprobe,
       CheckCustomization, CheckPin, Quiet, EnableReport, PinReady, CheckRadio,
       CheckRegistration, Decide
  <2> QED BY <1>0, <2>1, <2>2 DEF LineInv
<1>2. CASE UNCHANGED dead /\ (Rescan \/ SearchAgain \/ SearchEnds \/ Decide)
  <2>1. UNCHANGED <<late, rounds>> /\ pc \notin Commanding
    BY <1>2 DEF Rescan, SearchAgain, SearchEnds, Decide, line
  <2> QED BY <1>0, <1>2, <2>1 DEF LineInv
<1>3. CASE UNCHANGED dead /\ (Probe \/ Reprobe \/ Reporting)
  <2>1. Told
    BY <1>3, Commands DEF Probe, Reprobe, Reporting, EnableReport
  <2> QED BY <1>0, <1>3, <2>1 DEF Told, Talks
<1>4. CASE UNCHANGED dead /\ Questions
  <2>1. Told \/ (UNCHANGED <<late, rounds>> /\ pc' = "stat")
    BY <1>4, Commands DEF Questions, CheckCustomization, CheckPin, Quiet, PinReady,
       CheckRadio, CheckRegistration, line
  <2> QED BY <1>0, <1>4, <2>1 DEF Told, Talks
<1> QED BY <1>1, <1>2, <1>3, <1>4, Parts DEF Recovery

LEMMA StepLine ==
  ASSUME LineInv, [Next]_vars
  PROVE  LineInv'
<1>0. MaxRounds \in Nat /\ rounds \in 0..MaxRounds
  BY ConstantsOK DEF LineInv
<1>1. ASSUME rounds' = rounds \/ (rounds < MaxRounds /\ rounds' = rounds + 1)
      PROVE  rounds' \in 0..MaxRounds
  BY <1>0, <1>1
<1> USE DEF Goto
<1>2. CASE Loop /\ ~Reset
  <2>1. /\ UNCHANGED <<fileFd, crossed>> /\ (dead' = dead \/ dead' = FALSE)
        /\ late' = late \/ late' = TRUE
        /\ rounds' = rounds \/ (rounds < MaxRounds /\ rounds' = rounds + 1)
    BY <1>2, LoopTells DEF Told
  <2>3. dead' => pc' \in Commanding
    BY <1>2, LoopTells, Zenon
  <2>2. dead' \in BOOLEAN /\ late' \in BOOLEAN /\ crossed' \in BOOLEAN
    BY <2>1, Zenon DEF LineInv
  <2> QED BY <1>1, <2>1, <2>2, <2>3 DEF LineInv
<1>3. CASE Loop /\ Reset
  <2>1. /\ late' = FALSE /\ crossed' = FALSE /\ UNCHANGED <<rounds, dead, fileFd>> /\ pc = "reset"
    <3>1. late' = FALSE /\ crossed' = FALSE /\ pc = "reset" /\ UNCHANGED fileFd
      BY <1>3, Parts DEF Reset, CloseDevices, Elsewhere
    <3>2. UNCHANGED <<rounds, dead>>
      BY <1>3, <3>1 DEF Loop, Taking, Create, WakeUpSearch, FirstOpen, Reopen,
         OpenNmea, Probe, Rescan, SearchAgain, SearchEnds, Reprobe,
         CheckCustomization, CheckPin, Quiet, EnableReport, PinReady, CheckRadio,
         CheckRegistration, Decide
    <3> QED BY <3>1, <3>2
  <2>2. ~dead
    BY <2>1 DEF LineInv, Commanding, Reports
  <2> QED BY <1>0, <2>1, <2>2 DEF LineInv
<1>4. CASE Turns
  <2>1. pc \in {"turn", "asleep"} /\ UNCHANGED <<fileFd, dead>>
    BY <1>4 DEF Turns, Power, ReadReport, BeginWakeUp, Sleep, LoseDevice
  <2>2. ~dead
    BY <2>1 DEF LineInv, Commanding, Reports
  <2>3. /\ rounds' = rounds \/ (rounds < MaxRounds /\ rounds' = rounds + 1)
        /\ late' = late \/ late' = FALSE
        /\ crossed' = crossed \/ crossed' = FALSE
    BY <1>4 DEF Turns, Power, ReadReport, BeginWakeUp, Sleep, LoseDevice, CloseDevices, line
  <2>4. late' \in BOOLEAN /\ crossed' \in BOOLEAN
    BY <2>3, Zenon DEF LineInv
  <2> QED BY <1>1, <2>1, <2>2, <2>3, <2>4 DEF LineInv
<1>5. CASE World
  <2>1. UNCHANGED <<pc, late>>
    BY <1>5 DEF World
  <2>2. rounds' = rounds \/ (rounds < MaxRounds /\ rounds' = rounds + 1)
    BY <1>5 DEF World, Modem, Stall, Boot, SimSettles, Appear, NetChange, Vanish, OpenFile,
       CloseFile
  <2>3. dead' = dead \/ (dead' = TRUE /\ pc \in Commanding)
    BY <1>5 DEF World, Modem, Stall, Boot, SimSettles, Appear, NetChange, Vanish
  <2>4. fileFd' = fileFd \/ fileFd' = NoFile \/ fileFd' \in Numbers
    <3>1. CASE OpenFile
      BY <3>1, LowestIsFree DEF OpenFile
    <3>2. CASE CloseFile
      BY <3>2 DEF CloseFile
    <3> QED BY <1>5, <3>1, <3>2 DEF World, Modem
  <2>5. crossed' = crossed \/ crossed' = (crossed \/ owner[fileFd] \in Devices)
    BY <1>5 DEF World, Modem, OpenFile, CloseFile
  <2>6. dead' \in BOOLEAN /\ late' \in BOOLEAN /\ crossed' \in BOOLEAN
    BY <2>1, <2>3, <2>5, Zenon DEF LineInv
  <2>7. fileFd' \in Numbers \union {NoFile}
    BY <2>4 DEF LineInv
  <2> QED BY <1>1, <2>1, <2>2, <2>3, <2>6, <2>7 DEF LineInv
<1>6. CASE Idle
  BY <1>6 DEF Idle, vars, line, LineInv
<1> QED BY <1>2, <1>3, <1>4, <1>5, <1>6 DEF Next, Idle

\* What is usual now was so before, or the devices have just been closed.
LEMMA UsualBefore ==
  ASSUME LineInv, [Next]_vars, Usual'
  PROVE  Usual \/ pc' \in {"rescan", "asleep", "waking"}
<1> USE DEF Usual, Regular, Goto
<1>1. CASE Loop /\ ~Reset
  <2>1. CASE late \/ crossed
    BY <1>1, <2>1, LoopTells DEF Told
  <2>2. CASE dead
    <3>1. dead' = dead
      BY <1>1, <2>2, LoopTells, Parts DEF Finding, Create, WakeUpSearch, FirstOpen, Reopen,
         OpenNmea, LineInv, Commanding, Reports
    <3> QED BY <2>2, <3>1
  <2> QED BY <2>1, <2>2
<1>2. CASE Reset
  BY <1>2 DEF Reset
<1>3. CASE Turns
  BY <1>3 DEF Turns, Power, ReadReport, BeginWakeUp, Sleep, LoseDevice, line
<1>4. CASE World
  <2>1. dead => dead'
    BY <1>4 DEF World, Modem, Stall, Boot, SimSettles, Appear, NetChange, Vanish
  <2>2. crossed => crossed'
    BY <1>4 DEF World, Modem, OpenFile, CloseFile
  <2> QED BY <1>4, <2>1, <2>2 DEF World
<1>5. CASE Idle
  BY <1>5 DEF Idle, vars, line
<1> QED BY <1>1, <1>2, <1>3, <1>4, <1>5 DEF Next, Idle

-----------------------------------------------------------------------------
(* The descriptors.                                                        *)

Owners == {"free", "stdin", "file"} \union Devices

LEMMA OpeningFacts ==
  ASSUME DescriptorInv
  PROVE  /\ nmeaFd \in Numbers /\ ctrlFd \in Numbers /\ owner \in [Numbers -> Owners]
         /\ \A m, n \in Numbers : m # n /\ owner[m] = owner[n] => owner[m] = "free"
BY DEF DescriptorInv, Owners

\* The standard input, the file and one device leave a number free.
LEMMA OneIsFree ==
  ASSUME DescriptorInv, NEW d \in Devices, \A n \in Numbers : owner[n] # d
  PROVE  \E n \in Numbers : owner[n] = "free"
<1>1. SUFFICES ASSUME \A n \in Numbers : owner[n] # "free"
               PROVE  FALSE
  OBVIOUS
<1>2. 0 \in Numbers /\ 1 \in Numbers /\ 2 \in Numbers /\ 3 \in Numbers
  BY DEF Numbers
<1>3. \A n \in Numbers : owner[n] \in {"stdin", "file"} \union (Devices \ {d})
  BY <1>1, OpeningFacts DEF Owners
<1>4. PICK e : Devices \ {d} = {e}
  BY DEF Devices
<1>5. \A n \in Numbers : owner[n] = "stdin" \/ owner[n] = "file" \/ owner[n] = e
  BY <1>3, <1>4
<1>6. \A m, n \in Numbers : m # n => owner[m] # owner[n]
  BY <1>1, OpeningFacts
<1> QED BY <1>2, <1>5, <1>6

LEMMA OpenedLowest ==
  ASSUME DescriptorInv, NEW d \in Devices \union {"file"},
         \A n \in Numbers : owner[n] # d, NEW m \in Numbers, owner[m] = "free",
         owner' = [owner EXCEPT ![LowestFree] = d]
  PROVE  /\ LowestFree \in Numbers /\ owner[LowestFree] = "free"
         /\ owner' \in [Numbers -> Owners] /\ owner'[LowestFree] = d
         /\ \A n \in Numbers \ {LowestFree} : owner'[n] = owner[n]
         /\ \A k, n \in Numbers : k # n /\ owner'[k] = owner'[n] => owner'[k] = "free"
<1>1. LowestFree \in Numbers /\ owner[LowestFree] = "free"
  BY LowestIsFree
<1>2. owner' \in [Numbers -> Owners] /\ owner'[LowestFree] = d
      /\ \A n \in Numbers \ {LowestFree} : owner'[n] = owner[n]
  BY <1>1, OpeningFacts DEF Owners
<1> QED BY <1>1, <1>2, OpeningFacts

LEMMA ClosedFacts ==
  ASSUME DescriptorInv, NEW fds \in SUBSET Numbers, owner' = Closed(fds)
  PROVE  /\ owner' \in [Numbers -> Owners]
         /\ \A n \in Numbers : owner'[n] = IF n \in fds THEN "free" ELSE owner[n]
         /\ \A k, n \in Numbers : k # n /\ owner'[k] = owner'[n] => owner'[k] = "free"
BY OpeningFacts DEF Closed, Owners

LEMMA DescriptorsKept ==
  ASSUME DescriptorInv, UNCHANGED <<nmeaFd, ctrlFd, fdsread, owner, fileFd, crossed>>,
         \/ pc' = pc \/ pc' \in {"exited", "aborted"}
         \/ pc \in Opening /\ pc' \in Opening
         \/ pc \in Holding /\ pc' \in Holding
  PROVE  DescriptorInv'
BY DEF DescriptorInv, WatchesItsDevices, Opening, Holding, Asking

LEMMA OpenCtrlDescriptors ==
  ASSUME DescriptorInv, pc \in Opening, NEW next \in Holding, OpenCtrl(next),
         UNCHANGED <<fileFd, crossed>>
  PROVE  DescriptorInv'
<1>1. CASE pc' = "aborted" /\ UNCHANGED descriptors
  BY <1>1, DescriptorsKept DEF descriptors
<1>2. CASE /\ pc' = next /\ ctrlFd' = LowestFree /\ UNCHANGED nmeaFd
           /\ owner' = [owner EXCEPT ![LowestFree] = "ctrl"]
           /\ fdsread' = fdsread \union {LowestFree}
  <2>1. fdsread = {} /\ \A n \in Numbers : owner[n] \notin Devices
    BY DEF DescriptorInv
  <2>2. \A n \in Numbers : owner[n] # "ctrl"
    BY <2>1 DEF Devices
  <2>3. PICK m \in Numbers : owner[m] = "free"
    BY <2>2, OneIsFree DEF Devices
  <2>4. /\ LowestFree \in Numbers /\ owner[LowestFree] = "free"
        /\ owner' \in [Numbers -> Owners] /\ owner'[LowestFree] = "ctrl"
        /\ \A n \in Numbers \ {LowestFree} : owner'[n] = owner[n]
        /\ \A k, n \in Numbers : k # n /\ owner'[k] = owner'[n] => owner'[k] = "free"
    BY <1>2, <2>2, <2>3, OpenedLowest DEF Devices
  <2>5. nmeaFd' \in Numbers /\ ctrlFd' \in Numbers /\ fdsread' \subseteq Numbers
    BY <1>2, <2>1, <2>4 DEF DescriptorInv
  <2>6. /\ fdsread' = {ctrlFd'} /\ owner'[ctrlFd'] = "ctrl"
        /\ \A n \in Numbers : owner'[n] # "nmea"
        /\ \A n \in Numbers : owner'[n] = "ctrl" => n = ctrlFd'
        /\ \A n \in Numbers : owner'[n] = "file" => n = fileFd'
    BY <1>2, <2>1, <2>4 DEF Devices, DescriptorInv
  <2>7. pc' \notin Opening /\ pc' # "turn"
    BY <1>2 DEF Opening, Holding, Asking
  <2> QED BY <2>4, <2>5, <2>6, <2>7 DEF DescriptorInv, WatchesItsDevices, Owners
<1> QED BY <1>1, <1>2 DEF OpenCtrl

LEMMA OpenNmeaDescriptors ==
  ASSUME DescriptorInv, OpenNmea, UNCHANGED <<fileFd, crossed>>
  PROVE  DescriptorInv'
<1>0. pc = "nmea" /\ pc \in Holding
  BY DEF OpenNmea, Holding, Asking
<1>1. CASE pc' = "aborted" /\ UNCHANGED descriptors
  BY <1>1, DescriptorsKept DEF descriptors
<1>2. CASE /\ pc' = "turn" /\ nmeaFd' = LowestFree /\ UNCHANGED ctrlFd
           /\ owner' = [owner EXCEPT ![LowestFree] = "nmea"]
           /\ fdsread' = fdsread \union {LowestFree}
  <2>1. /\ fdsread = {ctrlFd} /\ (crossed \/ owner[ctrlFd] = "ctrl") /\ ctrlFd \in Numbers
        /\ \A n \in Numbers : owner[n] = "ctrl" => n = ctrlFd
        /\ \A n \in Numbers : owner[n] = "file" => n = fileFd
        /\ \A n \in Numbers : owner[n] # "nmea"
    BY <1>0 DEF DescriptorInv
  <2>2. PICK m \in Numbers : owner[m] = "free"
    BY <2>1, OneIsFree DEF Devices
  <2>3. /\ LowestFree \in Numbers /\ owner[LowestFree] = "free"
        /\ owner' \in [Numbers -> Owners] /\ owner'[LowestFree] = "nmea"
        /\ \A n \in Numbers \ {LowestFree} : owner'[n] = owner[n]
        /\ \A k, n \in Numbers : k # n /\ owner'[k] = owner'[n] => owner'[k] = "free"
    BY <1>2, <2>1, <2>2, OpenedLowest DEF Devices
  <2>4. nmeaFd' \in Numbers /\ ctrlFd' \in Numbers /\ fdsread' \subseteq Numbers
    BY <1>2, <2>1, <2>3
  <2>5. /\ fdsread' = {nmeaFd', ctrlFd'}
        /\ owner'[nmeaFd'] = "nmea" /\ (crossed' \/ owner'[ctrlFd'] = "ctrl")
        /\ \A n \in Numbers : owner'[n] = "ctrl" => n = ctrlFd'
        /\ \A n \in Numbers : owner'[n] = "nmea" => n = nmeaFd'
        /\ \A n \in Numbers : owner'[n] = "file" => n = fileFd'
    BY <1>2, <2>1, <2>3
  <2>6. pc' \notin Opening /\ pc' \notin Holding
    BY <1>2 DEF Opening, Holding, Asking
  <2> QED BY <2>3, <2>4, <2>5, <2>6 DEF DescriptorInv, WatchesItsDevices, Owners
<1> QED BY <1>1, <1>2 DEF OpenNmea

\* After closing both numbers neither device is open, though one of them may
\* have been the file of the D-Bus thread.
LEMMA CloseDescriptors ==
  ASSUME DescriptorInv, pc \in Holding \union {"turn"}, CloseDevices, pc' \in Opening,
         UNCHANGED fileFd
  PROVE  DescriptorInv'
<1>1. nmeaFd \in Numbers /\ ctrlFd \in Numbers /\ {nmeaFd, ctrlFd} \in SUBSET Numbers
  BY OpeningFacts
<1>2. /\ owner' \in [Numbers -> Owners]
      /\ \A n \in Numbers : owner'[n] = IF n \in {nmeaFd, ctrlFd} THEN "free" ELSE owner[n]
      /\ \A k, n \in Numbers : k # n /\ owner'[k] = owner'[n] => owner'[k] = "free"
  BY <1>1, ClosedFacts DEF CloseDevices
<1>3. fdsread \subseteq {nmeaFd, ctrlFd}
  BY DEF DescriptorInv, WatchesItsDevices
<1>4. \A n \in Numbers \ {nmeaFd, ctrlFd} : owner[n] \notin Devices
  BY <1>1 DEF DescriptorInv, WatchesItsDevices, Devices
<1>5. /\ \A n \in Numbers : owner'[n] \notin Devices
      /\ \A n \in Numbers : owner'[n] = "file" => n = fileFd'
  BY <1>2, <1>4 DEF Devices, DescriptorInv
<1>6. fdsread' = {} /\ UNCHANGED <<nmeaFd, ctrlFd>>
  BY <1>3 DEF CloseDevices
<1>7. pc' \notin Holding /\ pc' # "turn"
  BY DEF Opening, Holding, Asking
<1> QED BY <1>1, <1>2, <1>5, <1>6, <1>7 DEF DescriptorInv, WatchesItsDevices, Owners

LEMMA WorldDescriptors ==
  ASSUME DescriptorInv, LineInv, World
  PROVE  DescriptorInv'
<1>1. UNCHANGED <<pc, nmeaFd, ctrlFd, fdsread>>
  BY DEF World
<1>2. CASE UNCHANGED <<owner, fileFd, crossed>>
  BY <1>1, <1>2, DescriptorsKept
<1>3. CASE OpenFile
  <2>0. \A n \in Numbers : owner[n] # "file"
    BY <1>3 DEF OpenFile, DescriptorInv, NoFile, Numbers
  <2>1. PICK m \in Numbers : owner[m] = "free"
    BY <1>3 DEF OpenFile
  <2>2. /\ LowestFree \in Numbers /\ owner[LowestFree] = "free"
        /\ owner' \in [Numbers -> Owners] /\ owner'[LowestFree] = "file"
        /\ \A n \in Numbers \ {LowestFree} : owner'[n] = owner[n]
        /\ \A k, n \in Numbers : k # n /\ owner'[k] = owner'[n] => owner'[k] = "free"
    BY <1>3, <2>0, <2>1, OpenedLowest DEF OpenFile
  <2>3. \A n \in Numbers, d \in Devices : owner'[n] = d <=> owner[n] = d
    BY <2>2 DEF Devices
  <2>4. UNCHANGED crossed /\ \A n \in Numbers : owner'[n] = "file" => n = fileFd'
    BY <1>3, <2>0, <2>2 DEF OpenFile
  <2> QED BY <1>1, <2>2, <2>3, <2>4 DEF DescriptorInv, WatchesItsDevices, Owners, Devices
<1>4. CASE CloseFile
  <2>1. fileFd \in Numbers /\ owner' = Closed({fileFd})
    BY <1>4 DEF CloseFile, LineInv
  <2>2. /\ owner' \in [Numbers -> Owners]
        /\ \A n \in Numbers : owner'[n] = IF n \in {fileFd} THEN "free" ELSE owner[n]
        /\ \A k, n \in Numbers : k # n /\ owner'[k] = owner'[n] => owner'[k] = "free"
    BY <2>1, ClosedFacts
  <2>3. /\ \A n \in Numbers, d \in Devices : owner'[n] = d => owner[n] = d
        /\ \A n \in Numbers, d \in Devices : ~crossed' /\ owner[n] = d => owner'[n] = d
        /\ crossed => crossed'
    BY <1>4, <2>2 DEF Devices, CloseFile
  <2>4. \A n \in Numbers : owner'[n] # "file"
    BY <2>2 DEF DescriptorInv
  <2>5. /\ nmeaFd' \in Numbers /\ ctrlFd' \in Numbers /\ fdsread' \subseteq Numbers
        /\ pc' \in Opening => fdsread' = {} /\ \A n \in Numbers : owner'[n] \notin Devices
    BY <1>1, <2>3 DEF DescriptorInv, Devices
  <2>6. pc' \in Holding => /\ fdsread' = {ctrlFd'} /\ (crossed' \/ owner'[ctrlFd'] = "ctrl")
                           /\ \A n \in Numbers : owner'[n] # "nmea"
    BY <1>1, <2>3 DEF DescriptorInv, Devices
  <2>7. /\ pc' \in Holding \union {"turn"}
             => \A n \in Numbers : owner'[n] = "ctrl" => n = ctrlFd'
        /\ pc' = "turn" => \A n \in Numbers : owner'[n] = "nmea" => n = nmeaFd'
    BY <1>1, <2>3 DEF DescriptorInv, Devices
  <2>8. WatchesItsDevices'
    BY <1>1, <2>3 DEF DescriptorInv, WatchesItsDevices, Devices
  <2> QED BY <2>2, <2>4, <2>5, <2>6, <2>7, <2>8 DEF DescriptorInv, Owners
<1>5. UNCHANGED <<owner, fileFd, crossed>> \/ OpenFile \/ CloseFile
  BY DEF World, Modem
<1> QED BY <1>2, <1>3, <1>4, <1>5

LEMMA StepDescriptors ==
  ASSUME DescriptorInv, LineInv, [Next]_vars
  PROVE  DescriptorInv'
<1> USE DEF Goto
<1>1. CASE Loop
  <2>0. UNCHANGED fileFd /\ (UNCHANGED crossed \/ Reset)
    BY <1>1, Parts DEF Elsewhere, Finding
  <2>1. CASE Reset
    BY <2>0, <2>1, CloseDescriptors DEF Reset, Opening, Holding
  <2>2. CASE UNCHANGED crossed /\ (Create \/ WakeUpSearch)
    BY <2>0, <2>2, DescriptorsKept DEF Create, WakeUpSearch, descriptors, Opening
  <2>3. CASE UNCHANGED crossed /\ (FirstOpen \/ Reopen)
    BY <2>0, <2>3, OpenCtrlDescriptors DEF FirstOpen, Reopen, Opening, Holding
  <2>4. CASE UNCHANGED crossed /\ (Recovery)
    BY <2>0, <2>4, DescriptorsKept DEF Recovery, Probe, Rescan, SearchAgain, SearchEnds, Reprobe,
       Retry, descriptors, Opening, Holding, Asking
  <2>5. CASE UNCHANGED crossed /\ (Reporting)
    BY <2>0, <2>5, DescriptorsKept DEF Reporting, EnableReport, Retry, descriptors, Holding, Asking
  <2>6. CASE UNCHANGED crossed /\ (Questions)
    BY <2>0, <2>6, DescriptorsKept DEF Questions, CheckCustomization, CheckPin, Quiet, PinReady,
       CheckRadio, CheckRegistration, Retry, descriptors, Holding, Asking
  <2>7. CASE UNCHANGED crossed /\ (Decide)
    BY <2>0, <2>7, DescriptorsKept DEF Decide, descriptors, Holding, Asking
  <2>8. CASE UNCHANGED crossed /\ OpenNmea
    BY <2>0, <2>8, OpenNmeaDescriptors
  <2> QED BY <1>1, <2>0, <2>1, <2>2, <2>3, <2>4, <2>5, <2>6, <2>7, <2>8, Parts
          DEF Finding
<1>2. CASE Turns
  <2>1. CASE UNCHANGED <<fileFd, crossed>> /\ (Power \/ ReadReport \/ BeginWakeUp)
    BY <2>1, DescriptorsKept DEF Power, ReadReport, BeginWakeUp, descriptors, Opening
  <2>2. CASE UNCHANGED fileFd /\ (Sleep \/ LoseDevice)
    BY <2>2, CloseDescriptors DEF Sleep, LoseDevice, Opening
  <2> QED BY <1>2, <2>1, <2>2 DEF Turns
<1>3. CASE World
  BY <1>3, WorldDescriptors
<1>4. CASE Idle
  BY <1>4, DescriptorsKept DEF Idle, vars, descriptors
<1> QED BY <1>1, <1>2, <1>3, <1>4 DEF Next, Idle

-----------------------------------------------------------------------------
(* The modes that are put back.                                            *)

\* One value is saved, and another on top of it.
LEMMA TwoSaved ==
  ASSUME NEW a, NEW b
  PROVE  /\ Append(<<>>, a) = <<a>> /\ Append(<<a>>, b) = <<a, b>>
         /\ Front(<<a>>) = <<>> /\ Front(<<a, b>>) = <<a>>
         /\ <<a>>[Len(<<a>>)] = a /\ <<a, b>>[Len(<<a, b>>)] = b /\ Head(<<a>>) = a
<1> DEFINE S == {a, b}
<1>1. /\ <<a>> \in Seq(S) /\ <<a, b>> \in Seq(S) /\ b \in S
      /\ Len(<<a>>) = 1 /\ Len(<<a, b>>) = 2
  OBVIOUS
<1> HIDE DEF S
<1>2. /\ Append(<<a>>, b) \in Seq(S) /\ Len(Append(<<a>>, b)) = 2
      /\ Append(<<a>>, b)[1] = a /\ Append(<<a>>, b)[2] = b
  BY <1>1, AppendProperties
<1>3. \A i \in 1..2 : Append(<<a>>, b)[i] = <<a, b>>[i]
  BY <1>2
<1>4. Append(<<a>>, b) = <<a, b>>
  BY <1>1, <1>2, <1>3, SeqEqual
<1>5. /\ SubSeq(<<a, b>>, 1, 1) \in Seq(S) /\ Len(SubSeq(<<a, b>>, 1, 1)) = 1
      /\ SubSeq(<<a, b>>, 1, 1)[1] = a
  BY <1>1, SubSeqProperties
<1>6. \A i \in 1..1 : SubSeq(<<a, b>>, 1, 1)[i] = <<a>>[i]
  BY <1>5
<1>7. SubSeq(<<a, b>>, 1, 1) = <<a>>
  BY <1>1, <1>5, <1>6, SeqEqual
<1>8. Front(<<a>>) = <<>> /\ Front(<<a, b>>) = <<a>>
  BY <1>1, <1>7 DEF Front
<1>9. Append(<<>>, a) = <<a>> /\ Head(<<a>>) = a
  OBVIOUS
<1> QED BY <1>1, <1>4, <1>8, <1>9

Unsaved == {"create", "waking", "open", "probe", "reset", "exited"} \union Asking

LEMMA SavedKept ==
  ASSUME SavedInv, UNCHANGED <<gpsEnabled, saved>>,
         \/ pc' = pc
         \/ pc \in Unsaved /\ pc' \in Unsaved \union {"aborted"}
         \/ pc \in Recovering /\ pc' \in Recovering \union {"aborted"}
  PROVE  SavedInv'
BY DEF SavedInv, Saved, SavedTwice, Unsaved, Recovering, Asking

LEMMA ResetSaved ==
  ASSUME SavedInv, Reset
  PROVE  SavedInv'
<1>1. /\ pc = "reset" /\ pc' = "rescan"
      /\ saved' = Append(saved, gpsEnabled) /\ gpsEnabled' = "recovering"
  BY DEF Reset, Goto
<1>2. Saved
  BY <1>1 DEF SavedInv
<1>3. ASSUME saved = <<>>, gpsEnabled = "off"
      PROVE  SavedTwice'
  <2>1. saved' = <<"off">>
    BY <1>1, <1>3, TwoSaved
  <2> QED BY <1>1, <2>1 DEF SavedTwice
<1>4. ASSUME NEW a \in {"off", "on"}, saved = <<a>>, gpsEnabled = "waking"
      PROVE  SavedTwice'
  <2>1. saved' = <<a, "waking">>
    BY <1>1, <1>4, TwoSaved
  <2> QED BY <1>1, <2>1 DEF SavedTwice
<1>5. SavedTwice'
  BY <1>2, <1>3, <1>4 DEF Saved
<1> QED BY <1>1, <1>5 DEF SavedInv, Asking, Recovering

LEMMA ReprobeSaved ==
  ASSUME SavedInv, Reprobe
  PROVE  SavedInv'
<1>1. pc = "reprobe" /\ SavedTwice
  BY DEF Reprobe, SavedInv, Recovering
<1>2. CASE pc' = "custom" /\ gpsEnabled' = saved[Len(saved)] /\ saved' = Front(saved)
  <2>1. ASSUME saved = <<"off">>
        PROVE  Saved'
    <3>1. saved' = <<>> /\ gpsEnabled' = "off"
      BY <1>2, <2>1, TwoSaved
    <3> QED BY <3>1 DEF Saved
  <2>2. ASSUME NEW a \in {"off", "on"}, saved = <<a, "waking">>
        PROVE  Saved'
    <3>1. saved' = <<a>> /\ gpsEnabled' = "waking"
      BY <1>2, <2>2, TwoSaved
    <3> QED BY <3>1 DEF Saved
  <2>3. Saved'
    BY <1>1, <2>1, <2>2 DEF SavedTwice
  <2> QED BY <1>2, <2>3 DEF SavedInv, Asking, Recovering
<1>3. CASE Retry(5, "aborted") /\ UNCHANGED <<gpsEnabled, saved>>
  BY <1>1, <1>3, SavedKept DEF Retry, Recovering
<1> QED BY <1>2, <1>3 DEF Reprobe

LEMMA OpenNmeaSaved ==
  ASSUME SavedInv, OpenNmea
  PROVE  SavedInv'
<1>1. pc = "nmea" /\ Saved
  BY DEF OpenNmea, SavedInv, Asking
<1>2. CASE pc' = "aborted" /\ UNCHANGED <<gpsEnabled, saved>>
  BY <1>1, <1>2, SavedKept DEF Unsaved, Asking
<1>3. CASE /\ pc' = "turn" /\ saved' = <<>>
           /\ gpsEnabled' = IF saved = <<>> THEN gpsEnabled ELSE Head(saved)
  <2>1. gpsEnabled' \in {"off", "on"}
    BY <1>1, <1>3 DEF Saved
  <2> QED BY <1>3, <2>1 DEF SavedInv, Asking, Recovering
<1> QED BY <1>2, <1>3 DEF OpenNmea

LEMMA TurnsSaved ==
  ASSUME SavedInv, Turns
  PROVE  SavedInv'
<1> USE DEF Goto
<1>1. CASE Power
  BY <1>1 DEF Power, SavedInv, Asking, Recovering
<1>2. CASE ReadReport
  BY <1>2, SavedKept DEF ReadReport
<1>3. CASE BeginWakeUp \/ LoseDevice
  <2>1. pc \in {"asleep", "turn"} /\ pc' = "waking"
    BY <1>3 DEF BeginWakeUp, LoseDevice
  <2>2. gpsEnabled \in {"off", "on"} /\ saved' = <<gpsEnabled>> /\ gpsEnabled' = "waking"
    BY <1>3 DEF BeginWakeUp, LoseDevice, SavedInv
  <2>3. Saved'
    BY <2>2 DEF Saved
  <2> QED BY <2>1, <2>3 DEF SavedInv, Asking, Recovering
<1>4. CASE Sleep
  BY <1>4 DEF Sleep, SavedInv, Asking, Recovering
<1> QED BY <1>1, <1>2, <1>3, <1>4 DEF Turns

LEMMA StepSaved ==
  ASSUME SavedInv, [Next]_vars
  PROVE  SavedInv'
<1>1. CASE Loop
  <2> USE DEF Goto, Unsaved, Asking
  <2>1. CASE Create \/ WakeUpSearch \/ FirstOpen
    BY <2>1, SavedKept DEF Create, WakeUpSearch, FirstOpen, OpenCtrl
  <2>2. CASE Reopen
    BY <2>2, SavedKept DEF Reopen, OpenCtrl, Recovering
  <2>3. CASE Probe
    BY <2>3, SavedKept DEF Probe
  <2>4. CASE Rescan \/ SearchAgain \/ SearchEnds
    BY <2>4, SavedKept DEF Rescan, SearchAgain, SearchEnds, Recovering
  <2>5. CASE Reporting
    BY <2>5, SavedKept DEF Reporting, EnableReport, Retry
  <2>6. CASE Questions
    BY <2>6, SavedKept DEF Questions, CheckCustomization, CheckPin, Quiet, PinReady,
       CheckRadio, CheckRegistration, Retry
  <2>7. CASE Decide
    BY <2>7, SavedKept DEF Decide
  <2> QED BY <1>1, <2>1, <2>2, <2>3, <2>4, <2>5, <2>6, <2>7, Parts, ResetSaved, ReprobeSaved,
             OpenNmeaSaved DEF Finding, Recovery
<1>2. CASE World \/ Idle
  BY <1>2, SavedKept DEF World, Idle, vars
<1> QED BY <1>1, <1>2, TurnsSaved DEF Next, Idle

-----------------------------------------------------------------------------
(* The modem.                                                              *)

LEMMA OneFieldChanged ==
  ASSUME NEW A, NEW B, NEW C, NEW D, NEW E, NEW F,
         NEW m \in [state : A, reports : B, radio : C, net : D, sim : E, unread : F]
  PROVE  LET M == [state : A, reports : B, radio : C, net : D, sim : E, unread : F]
         IN  /\ \A x \in A : [m EXCEPT !.state = x] \in M
             /\ \A x \in B : [m EXCEPT !.reports = x] \in M
             /\ \A x \in C : [m EXCEPT !.radio = x] \in M
             /\ \A x \in E : [m EXCEPT !.sim = x] \in M
             /\ \A x \in F : [m EXCEPT !.unread = x] \in M
             /\ \A x \in D, y \in F : [m EXCEPT !.net = x, !.unread = y] \in M
OBVIOUS

LEMMA Fields ==
  ASSUME NEW m \in Modems
  PROVE  /\ \A x \in States : [m EXCEPT !.state = x] \in Modems
         /\ \A x \in SUBSET Reports : [m EXCEPT !.reports = x] \in Modems
         /\ \A x \in BOOLEAN : [m EXCEPT !.radio = x] \in Modems
         /\ \A x \in Sims : [m EXCEPT !.sim = x] \in Modems
         /\ \A x \in BOOLEAN : [m EXCEPT !.unread = x] \in Modems
         /\ \A x \in 0..5, y \in BOOLEAN : [m EXCEPT !.net = x, !.unread = y] \in Modems
BY OneFieldChanged, Zenon DEF Modems

\* What the invariants look at.
Like(m, state, reports, radio, net, unread) ==
  /\ m.state = state /\ m.reports = reports /\ m.radio = radio /\ m.net = net
  /\ m.unread = unread

LEMMA FieldValues ==
  ASSUME NEW A, NEW B, NEW C, NEW D, NEW E, NEW F,
         NEW m \in [state : A, reports : B, radio : C, net : D, sim : E, unread : F]
  PROVE  /\ m.state \in A /\ m.reports \in B /\ m.radio \in C /\ m.net \in D
         /\ m.sim \in E /\ m.unread \in F
         /\ \A x : Like([m EXCEPT !.state = x], x, m.reports, m.radio, m.net, m.unread)
         /\ \A x : Like([m EXCEPT !.reports = x], m.state, x, m.radio, m.net, m.unread)
         /\ \A x : Like([m EXCEPT !.radio = x], m.state, m.reports, x, m.net, m.unread)
         /\ \A x : Like([m EXCEPT !.sim = x], m.state, m.reports, m.radio, m.net, m.unread)
         /\ \A x : Like([m EXCEPT !.unread = x], m.state, m.reports, m.radio, m.net, x)
         /\ \A x, y : Like([m EXCEPT !.net = x, !.unread = y],
                           m.state, m.reports, m.radio, x, y)
BY DEF Like

LEMMA Values ==
  ASSUME NEW m \in Modems
  PROVE  /\ m.state \in States /\ m.reports \in SUBSET Reports /\ m.radio \in BOOLEAN
         /\ m.net \in 0..5 /\ m.sim \in Sims /\ m.unread \in BOOLEAN
         /\ \A x : Like([m EXCEPT !.state = x], x, m.reports, m.radio, m.net, m.unread)
         /\ \A x : Like([m EXCEPT !.reports = x], m.state, x, m.radio, m.net, m.unread)
         /\ \A x : Like([m EXCEPT !.radio = x], m.state, m.reports, x, m.net, m.unread)
         /\ \A x : Like([m EXCEPT !.sim = x], m.state, m.reports, m.radio, m.net, m.unread)
         /\ \A x : Like([m EXCEPT !.unread = x], m.state, m.reports, m.radio, m.net, x)
         /\ \A x, y : Like([m EXCEPT !.net = x, !.unread = y],
                           m.state, m.reports, m.radio, x, y)
BY FieldValues, ZenonT(60) DEF Modems, Like

LEMMA EffectFacts ==
  ASSUME NEW change \in Modems, Effect(change)
  PROVE  \/ UNCHANGED modem
         \/ /\ modem.state = "up" /\ modem' \in Modems
            /\ Like(modem', change.state, change.reports, change.radio, change.net, FALSE)
<1>1. FALSE \in BOOLEAN
  OBVIOUS
<1>2. [change EXCEPT !.unread = FALSE] \in Modems
  BY <1>1, Fields, Zenon
<1>3. Like([change EXCEPT !.unread = FALSE],
           change.state, change.reports, change.radio, change.net, FALSE)
  BY Values, Zenon
<1>4. UNCHANGED modem \/ (modem.state = "up" /\ modem' = [change EXCEPT !.unread = FALSE])
  BY DEF Effect, Up
<1> QED BY <1>2, <1>3, <1>4

\* A command that is followed, and does no harm to what the modem knows.
LEMMA EffectModem ==
  ASSUME ModemInv, UNCHANGED <<module, card, dead>>, NEW change \in Modems, Effect(change),
         change.state = modem.state, ~change.radio => change.net = 0,
         late' => late \/ Up,
         pc' \in Asking \union {"turn"} => pc \in Asking \union {"turn"} \/ Up \/ late
  PROVE  ModemInv'
<1>1. CASE UNCHANGED modem
  <2>1. pc' \in Asking \union {"turn"} \/ late' => modem.state # "booting" \/ dead
    BY DEF ModemInv, Up
  <2> QED BY <1>1, <2>1 DEF ModemInv
<1>2. CASE /\ modem.state = "up" /\ modem' \in Modems
           /\ Like(modem', change.state, change.reports, change.radio, change.net, FALSE)
  <2>1. modem'.unread = FALSE /\ modem'.state = "up" /\ modem'.radio = change.radio
        /\ modem'.net = change.net
    BY <1>2 DEF Like
  <2>2. modem'.unread => "creg" \in modem'.reports
    BY <2>1
  <2>3. ~modem'.radio => modem'.net = 0
    BY <2>1
  <2>4. modem'.state # "booting"
    BY <2>1
  <2> QED BY <1>2, <2>2, <2>3, <2>4 DEF ModemInv
<1> QED BY <1>1, <1>2, EffectFacts

LEMMA SameModem ==
  ASSUME ModemInv, UNCHANGED <<module, card, modem, dead>>, late' => late,
         pc' \in Asking \union {"turn"} => pc \in Asking \union {"turn"}
  PROVE  ModemInv'
BY DEF ModemInv

\* One that has lost its power, and is closed or lost.
LEMMA NewModem ==
  ASSUME ModemInv, UNCHANGED <<module, card>>, modem' \in PowerOn,
         dead' \/ (pc' \notin Asking \union {"turn"} /\ ~late')
  PROVE  ModemInv'
<1>1. PICK r \in BOOLEAN : modem' = [state |-> "booting", reports |-> {}, radio |-> r,
                                     net |-> 0, sim |-> card, unread |-> FALSE]
  BY DEF PowerOn
<1>2. card \in Sims /\ "booting" \in States /\ {} \in SUBSET Reports /\ 0 \in 0..5
      /\ FALSE \in BOOLEAN
  BY DEF ModemInv, Sims, States
<1>3. modem' \in Modems
  BY <1>1, <1>2, Zenon DEF Modems
<1>4. modem'.unread = FALSE /\ modem'.net = 0
  BY <1>1
<1> QED BY <1>3, <1>4 DEF ModemInv

LEMMA ReportingModem ==
  ASSUME ModemInv, UNCHANGED <<module, card, dead>>,
         NEW r \in Reports, NEW next \in Asking, pc \in Asking,
         EnableReport(r, next)
  PROVE  ModemInv'
<1> DEFINE change == [modem EXCEPT !.reports = @ \union {r}]
<1>0. modem \in Modems /\ (~modem.radio => modem.net = 0)
  BY DEF ModemInv
<1>1. modem.reports \union {r} \in SUBSET Reports
  BY <1>0, Values
<1>2. change \in Modems
  BY <1>0, <1>1, Fields
<1>3. Like(change, modem.state, modem.reports \union {r}, modem.radio, modem.net, modem.unread)
  BY <1>0, Values
<1>4. change.state = modem.state /\ (~change.radio => change.net = 0)
  BY <1>0, <1>3 DEF Like
<1> HIDE DEF change
<1>5. \/ Answers(change) \/ Silent(change)
      \/ Answers(modem) \/ Silent(modem)
  BY DEF EnableReport, change
<1>6. (Effect(change) \/ Effect(modem)) /\ Told
  BY <1>5, Commands
<1>7. late' => late \/ Up
  BY <1>6 DEF Told
<1> QED BY <1>0, <1>2, <1>4, <1>6, <1>7, EffectModem

\* What is asked is not followed, or changes neither the state of the modem nor
\* its network, nor any report but where they are turned off.
Harmless(change) ==
  /\ change.state = modem.state /\ change.net = modem.net
  /\ ~change.radio => change.net = 0
  /\ pc = "quiet" \/ change.reports = modem.reports

LEMMA QuestionsHarmless ==
  ASSUME ModemInv, Questions \/ Probe \/ Reprobe
  PROVE  \E change \in Modems : Effect(change) /\ Harmless(change)
<1>0. modem \in Modems /\ (~modem.radio => modem.net = 0)
  BY DEF ModemInv
<1>1. Harmless(modem)
  BY <1>0 DEF Harmless
<1>2. ASSUME NEW sim \in Sims
      PROVE  [modem EXCEPT !.sim = sim] \in Modems /\ Harmless([modem EXCEPT !.sim = sim])
  <2> DEFINE change == [modem EXCEPT !.sim = sim]
  <2>1. change \in Modems
    BY <1>0, Fields
  <2>2. Like(change, modem.state, modem.reports, modem.radio, modem.net, modem.unread)
    BY <1>0, Values
  <2> HIDE DEF change
  <2>3. Harmless(change)
    BY <1>0, <2>2 DEF Like, Harmless
  <2> QED BY <2>1, <2>3 DEF change
<1>3. ASSUME NEW kept \in SUBSET modem.reports, pc = "quiet"
      PROVE  /\ [modem EXCEPT !.reports = kept] \in Modems
             /\ Harmless([modem EXCEPT !.reports = kept])
  <2> DEFINE change == [modem EXCEPT !.reports = kept]
  <2>1. kept \in SUBSET Reports
    BY <1>0, Values
  <2>2. change \in Modems
    BY <1>0, <2>1, Fields
  <2>3. Like(change, modem.state, kept, modem.radio, modem.net, modem.unread)
    BY <1>0, Values
  <2> HIDE DEF change
  <2>4. Harmless(change)
    BY <1>0, <1>3, <2>3 DEF Like, Harmless
  <2> QED BY <2>2, <2>4 DEF change
<1>4. ASSUME NEW on \in {modem.radio, TRUE}
      PROVE  [modem EXCEPT !.radio = on] \in Modems /\ Harmless([modem EXCEPT !.radio = on])
  <2> DEFINE change == [modem EXCEPT !.radio = on]
  <2>1. on \in BOOLEAN
    BY <1>0, Values
  <2>2. change \in Modems
    BY <1>0, <2>1, Fields
  <2>3. Like(change, modem.state, modem.reports, on, modem.net, modem.unread)
    BY <1>0, Values
  <2> HIDE DEF change
  <2>4. /\ change.state = modem.state /\ change.net = modem.net /\ change.radio = on
        /\ change.reports = modem.reports
    BY <2>3 DEF Like
  <2>5. ~change.radio => change.net = 0
    BY <1>0, <2>4
  <2>6. Harmless(change)
    BY <2>4, <2>5 DEF Harmless
  <2> QED BY <2>2, <2>6 DEF change
<1>5. CASE CheckPin
  <2>1. modem.sim \in Sims /\ "busy" \in Sims
    BY <1>0, Values DEF Sims
  <2>2. \/ Answers(modem) \/ Silent(modem)
        \/ \E sim \in {modem.sim, "busy"} :
             Answers([modem EXCEPT !.sim = sim]) \/ Silent([modem EXCEPT !.sim = sim])
    BY <1>5 DEF CheckPin
  <2>3. \/ Effect(modem)
        \/ \E sim \in {modem.sim, "busy"} : Effect([modem EXCEPT !.sim = sim])
    BY <2>2, Commands
  <2> QED BY <1>0, <1>1, <1>2, <2>1, <2>3
<1>6. CASE Quiet
  <2>1. pc = "quiet" /\ \/ UNCHANGED modem
                        \/ \E kept \in SUBSET modem.reports :
                             \/ Answers([modem EXCEPT !.reports = kept])
                             \/ Silent([modem EXCEPT !.reports = kept])
    BY <1>6 DEF Quiet, Goto, line
  <2>2. \/ Effect(modem)
        \/ \E kept \in SUBSET modem.reports : Effect([modem EXCEPT !.reports = kept])
    BY <2>1, Commands DEF Effect
  <2> QED BY <1>0, <1>1, <1>3, <2>1, <2>2
<1>7. CASE CheckRadio
  <2>1. \/ Answers(modem) \/ Silent(modem)
        \/ \E on \in {modem.radio, TRUE} :
             Answers([modem EXCEPT !.radio = on]) \/ Silent([modem EXCEPT !.radio = on])
    BY <1>7, Zenon DEF CheckRadio
  <2>2. \/ Effect(modem)
        \/ \E on \in {modem.radio, TRUE} : Effect([modem EXCEPT !.radio = on])
    BY <2>1, Commands, Zenon
  <2> QED BY <1>0, <1>1, <1>4, <2>2, Zenon
<1>8. CASE CheckCustomization \/ CheckRegistration \/ PinReady
  <2>1. Answers(modem) \/ Silent(modem)
    BY <1>8 DEF CheckCustomization, CheckRegistration, PinReady
  <2> QED BY <1>0, <1>1, <2>1, Commands
<1>9. CASE Probe \/ Reprobe
  <2>1. Answers(modem) \/ Silent(modem)
    BY <1>9 DEF Probe, Reprobe
  <2> QED BY <1>0, <1>1, <2>1, Commands
<1> QED BY <1>5, <1>6, <1>7, <1>8, <1>9 DEF Questions

LEMMA QuestionsModem ==
  ASSUME ModemInv, LineInv, Loop, UNCHANGED <<module, card, dead>>, Questions
  PROVE  ModemInv'
<1>1. pc \in Asking /\ ~Reset
  BY DEF Questions, CheckCustomization, CheckPin, Quiet, PinReady, CheckRadio,
         CheckRegistration, Goto, Asking, Reset
<1>2. late' => late \/ Up
  BY <1>1, LoopTells DEF Told
<1> QED BY <1>1, <1>2, QuestionsHarmless, EffectModem DEF Harmless

LEMMA LoopModem ==
  ASSUME ModemInv, LineInv, Loop
  PROVE  ModemInv'
<1> USE DEF Goto
<1>0. UNCHANGED <<module, card>> /\ modem \in Modems /\ (~modem.radio => modem.net = 0)
  BY Parts DEF Elsewhere, ModemInv
<1>1. CASE Reset
  <2>1. pc = "reset" /\ pc' = "rescan" /\ ~late' /\ (modem' \in PowerOn \/ UNCHANGED modem)
    BY <1>1 DEF Reset, CloseDevices
  <2>2. CASE UNCHANGED modem
    BY <1>0, <2>1, <2>2 DEF ModemInv, Asking
  <2> QED BY <1>0, <2>1, <2>2, NewModem DEF Asking
<1>2. CASE Finding
  <2>1. /\ UNCHANGED <<modem, late>> /\ (pc' \in Asking \union {"turn"} => pc \in Asking)
        /\ pc \notin Commanding /\ ~Reset
    BY <1>2 DEF Finding, Create, WakeUpSearch, FirstOpen, Reopen, OpenCtrl, OpenNmea, Asking,
       Commanding, Reports, line, Reset
  <2>2. ~dead /\ (dead' = dead \/ dead' = FALSE)
    BY <1>2, <2>1, LoopTells, Zenon DEF LineInv
  <2>3. ~dead'
    BY <2>2, Zenon
  <2> QED BY <1>0, <2>1, <2>2, <2>3 DEF ModemInv
<1>3. CASE UNCHANGED dead /\ (Rescan \/ SearchAgain \/ SearchEnds)
  <2>1. UNCHANGED <<modem, late>> /\ pc' \notin Asking \union {"turn"}
    BY <1>3 DEF Rescan, SearchAgain, SearchEnds, Asking, line
  <2> QED BY <1>0, <1>3, <2>1, SameModem
<1>4. CASE UNCHANGED dead /\ (Probe \/ Reprobe)
  <2>1. \/ Answers(modem) /\ (Up \/ late)
        \/ Silent(modem) /\ pc' \notin Asking \union {"turn"}
    BY <1>4 DEF Probe, Reprobe, Retry, Asking, Answers
  <2>2. Effect(modem) /\ Told
    BY <2>1, Commands
  <2>3. late' => late \/ Up
    BY <2>2 DEF Told
  <2> QED BY <1>0, <1>4, <2>1, <2>2, <2>3, EffectModem
<1>5. CASE UNCHANGED dead /\ Reporting
  BY <1>0, <1>5, ReportingModem DEF Reporting, EnableReport, Reports, Asking
<1>6. CASE UNCHANGED dead /\ Decide
  BY <1>0, <1>6, SameModem DEF Decide, Asking, line
<1> QED BY <1>0, <1>1, <1>2, <1>3, <1>4, <1>5, <1>6, Parts, QuestionsModem DEF Recovery

LEMMA TurnsModem ==
  ASSUME ModemInv, Turns
  PROVE  ModemInv'
<1> USE DEF Goto
<1>0. /\ UNCHANGED <<module, card, dead>> /\ modem \in Modems /\ FALSE \in BOOLEAN
      /\ (~modem.radio => modem.net = 0)
  BY DEF Turns, ModemInv
<1>1. CASE Power \/ BeginWakeUp
  <2>1. UNCHANGED <<modem, late>> /\ (pc' \in Asking \union {"turn"} => pc = "turn")
    BY <1>1 DEF Power, BeginWakeUp, Asking, line
  <2> QED BY <1>0, <2>1, SameModem
<1>2. CASE ReadReport
  <2>1. modem' = [modem EXCEPT !.unread = FALSE] /\ pc = "turn"
    BY <1>2 DEF ReadReport
  <2>2. modem' \in Modems
    BY <1>0, <2>1, Fields, Zenon
  <2>3. Like(modem', modem.state, modem.reports, modem.radio, modem.net, FALSE)
    BY <1>0, <2>1, Values
  <2>4. modem.state # "booting" \/ dead
    BY <2>1 DEF ModemInv
  <2> QED BY <1>0, <2>2, <2>3, <2>4 DEF Like, ModemInv
<1>3. CASE Sleep
  <2>1. pc' \notin Asking \union {"turn"} /\ ~late'
    BY <1>3 DEF Sleep, Asking, CloseDevices
  <2>2. CASE modem' \in PowerOn
    BY <1>0, <2>1, <2>2, NewModem
  <2>3. CASE modem' = [modem EXCEPT !.reports = IF Up THEN {} ELSE @, !.unread = FALSE]
    <3> DEFINE kept == IF Up THEN {} ELSE modem.reports
               change == [modem EXCEPT !.reports = kept]
    <3>1. modem' = [change EXCEPT !.unread = FALSE]
      BY <2>3, Zenon
    <3>2. kept \in SUBSET Reports
      BY <1>0, Values
    <3> HIDE DEF kept
    <3>3. change \in Modems
      BY <1>0, <3>2, Fields
    <3>4. Like(change, modem.state, kept, modem.radio, modem.net, modem.unread)
      BY <1>0, Values
    <3> HIDE DEF change
    <3>5. modem' \in Modems
      BY <1>0, <3>1, <3>3, Fields, Zenon
    <3>6. Like(modem', change.state, change.reports, change.radio, change.net, FALSE)
      BY <3>1, <3>3, Values, Zenon
    <3> QED BY <1>0, <2>1, <3>4, <3>5, <3>6 DEF Like, ModemInv
  <2> QED BY <1>3, <2>2, <2>3, Zenon DEF Sleep
<1>4. CASE LoseDevice
  <2>1. /\ pc' \notin Asking \union {"turn"} /\ ~late'
        /\ modem' \in PowerOn \/ UNCHANGED modem
    BY <1>4 DEF LoseDevice, Asking, CloseDevices
  <2> QED BY <1>0, <2>1, NewModem, SameModem
<1> QED BY <1>1, <1>2, <1>3, <1>4 DEF Turns

LEMMA WorldModem ==
  ASSUME ModemInv, World
  PROVE  ModemInv'
<1>0. UNCHANGED <<pc, module, card, late>> /\ modem \in Modems
  BY DEF World, ModemInv
<1>1. CASE UNCHANGED <<modem, dead>>
  BY <1>0, <1>1, SameModem
<1>6. UNCHANGED dead
        => (pc' \in Asking \union {"turn"} \/ late' => modem.state # "booting" \/ dead')
  BY <1>0 DEF ModemInv
<1>2. ASSUME NEW state \in {"stalled", "up"}, UNCHANGED dead, modem' = [modem EXCEPT !.state = state]
      PROVE  ModemInv'
  <2>1. modem' \in Modems
    BY <1>0, <1>2, Fields DEF States
  <2>2. Like(modem', state, modem.reports, modem.radio, modem.net, modem.unread)
    BY <1>0, <1>2, Values
  <2> QED BY <1>0, <2>1, <2>2 DEF Like, ModemInv
<1>3. CASE SimSettles
  <2>1. modem' = [modem EXCEPT !.sim = "ready"] /\ "ready" \in Sims /\ UNCHANGED dead
    BY <1>3 DEF SimSettles, Sims
  <2>2. modem' \in Modems
    BY <1>0, <2>1, Fields
  <2>3. Like(modem', modem.state, modem.reports, modem.radio, modem.net, modem.unread)
    BY <1>0, <2>1, Values
  <2> QED BY <1>0, <1>6, <2>1, <2>2, <2>3 DEF Like, ModemInv
<1>4. ASSUME NEW n \in Nets, NetChange(n)
      PROVE  ModemInv'
  <2> DEFINE reported == modem.unread \/ "creg" \in modem.reports
  <2>1. /\ modem' = [modem EXCEPT !.net = n, !.unread = reported]
        /\ modem.radio /\ modem.state = "up" /\ UNCHANGED dead
    BY <1>4 DEF NetChange, Up
  <2>2. reported \in BOOLEAN /\ n \in 0..5
    BY ConstantsOK
  <2>3. reported => "creg" \in modem.reports
    BY DEF ModemInv
  <2> HIDE DEF reported
  <2>4. modem' \in Modems
    BY <1>0, <2>1, <2>2, Fields, Zenon
  <2>5. Like(modem', modem.state, modem.reports, modem.radio, n, reported)
    BY <1>0, <2>1, Values, Zenon
  <2>6. modem'.unread => "creg" \in modem'.reports
    BY <2>3, <2>5, Zenon DEF Like
  <2>7. modem'.state = modem.state /\ (~modem'.radio => modem'.net = 0)
    BY <2>1, <2>5, Zenon DEF Like
  <2> QED BY <1>0, <1>6, <2>1, <2>4, <2>6, <2>7 DEF ModemInv
<1>5. CASE Vanish
  <2>1. dead' = TRUE /\ (modem' \in PowerOn \/ UNCHANGED modem)
    BY <1>5 DEF Vanish
  <2> QED BY <1>0, <2>1, NewModem DEF ModemInv
<1> QED BY <1>1, <1>2, <1>3, <1>4, <1>5 DEF World, Modem, Stall, Boot, Appear

LEMMA StepModem ==
  ASSUME ModemInv, LineInv, [Next]_vars
  PROVE  ModemInv'
<1>1. CASE Idle
  BY <1>1, SameModem DEF Idle, vars, line
<1> QED BY <1>1, LoopModem, TurnsModem, WorldModem DEF Next, Idle

-----------------------------------------------------------------------------
(* What a step leaves of the modem.                                        *)

LEMMA QuestionsLeave ==
  ASSUME ModemInv, Questions \/ Probe \/ Reprobe
  PROVE  /\ modem'.state = modem.state /\ modem'.net = modem.net
         /\ pc = "quiet" \/ modem'.reports = modem.reports
BY QuestionsHarmless, EffectFacts DEF Like, Harmless

\* Either the report is on and the thread goes on, or it stays within the
\* refusals the modem may give.
LEMMA ReportingLeaves ==
  ASSUME ModemInv, ~late, ~late', NEW r \in Reports, NEW next, EnableReport(r, next)
  PROVE  /\ modem'.state = modem.state /\ modem'.net = modem.net
         /\ modem.reports \subseteq modem'.reports
         /\ \/ pc' = next /\ r \in modem'.reports
            \/ pc' = pc \/ pc' = "aborted"
            \/ pc' = next /\ tries < MaxRefusals /\ ~(tries + 1 < 6)
<1> DEFINE change == [modem EXCEPT !.reports = @ \union {r}]
<1>0. modem \in Modems
  BY DEF ModemInv
<1>1. \/ Answers(change) /\ pc' = next
      \/ tries < MaxRefusals /\ Answers(modem) /\ Retry(6, next)
      \/ Silent(modem) /\ pc' = "aborted"
  BY DEF EnableReport
<1>2. modem.reports \union {r} \in SUBSET Reports
  BY <1>0, Values
<1>3. change \in Modems
  BY <1>0, <1>2, Fields
<1>4. Like(change, modem.state, modem.reports \union {r}, modem.radio, modem.net, modem.unread)
  BY <1>0, Values
<1> HIDE DEF change
<1>5. CASE Answers(change) /\ pc' = next
  <2>1. modem' = [change EXCEPT !.unread = FALSE]
    BY <1>5, InTime
  <2>2. Like(modem', change.state, change.reports, change.radio, change.net, FALSE)
    BY <1>3, <2>1, Values
  <2> QED BY <1>4, <1>5, <2>2 DEF Like
<1>6. CASE tries < MaxRefusals /\ Answers(modem) /\ Retry(6, next)
  <2>1. modem' = [modem EXCEPT !.unread = FALSE]
    BY <1>6, InTime
  <2>2. Like(modem', modem.state, modem.reports, modem.radio, modem.net, FALSE)
    BY <1>0, <2>1, Values
  <2> QED BY <1>6, <2>2 DEF Like, Retry
<1>7. CASE Silent(modem) /\ pc' = "aborted"
  BY <1>7, InTime
<1> QED BY <1>1, <1>5, <1>6, <1>7

-----------------------------------------------------------------------------
(* The GPS of the module.                                                  *)

LEMMA AbilityKept ==
  ASSUME AbilityInv, Usual, UNCHANGED <<module, customised>>,
         \/ pc' = pc /\ UNCHANGED found /\ (Up' => Up)
         \/ pc' \notin (Asking \ {"custom"}) \union {"exited"}
         \/ pc \in Asking \ {"custom", "pin"} /\ pc' \in Asking \ {"custom", "pin"}
  PROVE  AbilityInv'
BY DEF AbilityInv, GpsKnown, Asking

LEMMA QuestionsAbility ==
  ASSUME AbilityInv, ModemInv, Usual, Usual', Questions, UNCHANGED module
  PROVE  AbilityInv'
<1> USE DEF Goto
<1>0. ~late /\ ~late'
  BY DEF Usual, Regular
<1>1. CASE CheckCustomization
  <2>1. /\ pc = "custom" /\ pc' = "pin"
        /\ customised' = Ability \/ Silent(modem)
    BY <1>0, <1>1 DEF CheckCustomization
  <2>2. module = "none" \/ "gps" \in Ability
    BY ConstantsOK DEF Ability, ModemInv
  <2>3. Silent(modem) => ~Up'
    BY <1>0, InTime DEF Up
  <2>4. UNCHANGED module
    OBVIOUS
  <2>5. Up' => GpsKnown'
    BY <2>1, <2>2, <2>3, <2>4 DEF GpsKnown
  <2> QED BY <2>1, <2>5 DEF AbilityInv, Asking
<1>2. CASE CheckPin
  <2>1. /\ pc = "pin" /\ customised' = customised
        /\ \/ /\ pc' = "quiet"
              /\ Up \/ \E sim : Answers([modem EXCEPT !.sim = sim])
           \/ pc' = "aborted"
    BY <1>2 DEF CheckPin, belief
  <2>2. pc' = "aborted" \/ (pc' = "quiet" /\ GpsKnown)
    <3>1. CASE \E sim : Answers([modem EXCEPT !.sim = sim])
      <4>1. Up
        BY <1>0, <3>1, InTime
      <4> QED BY <2>1, <4>1 DEF AbilityInv
    <3>2. ASSUME Up PROVE GpsKnown
      BY <2>1, <3>2 DEF AbilityInv
    <3> QED BY <2>1, <3>1, <3>2
  <2> QED BY <2>1, <2>2 DEF AbilityInv, GpsKnown, Asking
<1>3. CASE Quiet \/ PinReady \/ CheckRadio \/ CheckRegistration
  <2>1. /\ pc \in Asking \ {"custom", "pin"} /\ pc' \in Asking \ {"custom", "pin"}
        /\ customised' = customised
    BY <1>3 DEF Quiet, PinReady, CheckRadio, CheckRegistration, Retry, belief, Asking
  <2> QED BY <2>1, AbilityKept
<1> QED BY <1>1, <1>2, <1>3 DEF Questions

LEMMA LoopAbility ==
  ASSUME AbilityInv, ModemInv, Usual, Usual', Loop
  PROVE  AbilityInv'
<1> USE DEF Goto
<1>0. UNCHANGED module
  BY Parts DEF Elsewhere
<1>1. CASE Create
  <2>1. /\ pc' \in {"open", "exited"} /\ found' = present /\ customised' = customised
        /\ pc' = "exited" => present # Devices
    BY <1>1 DEF Create, Search, belief
  <2> QED BY <2>1 DEF AbilityInv, Asking
<1>2. CASE Reset \/ WakeUpSearch \/ Rescan \/ SearchAgain \/ SearchEnds
  BY <1>0, <1>2, AbilityKept
     DEF Reset, WakeUpSearch, Rescan, SearchAgain, SearchEnds, belief, Asking
<1>3. CASE FirstOpen \/ Reopen \/ OpenNmea
  BY <1>0, <1>3, AbilityKept DEF FirstOpen, Reopen, OpenCtrl, OpenNmea, belief, Asking
<1>4. CASE Probe
  BY <1>0, <1>4, AbilityKept DEF Probe, belief, Asking
<1>5. CASE Reprobe
  <2>1. pc' \in {"custom", "reprobe", "aborted"} /\ customised' = customised
    BY <1>5 DEF Reprobe, Retry, belief
  <2> QED BY <1>0, <2>1, AbilityKept DEF Asking
<1>6. CASE Reporting
  <2>1. /\ pc \in Asking \ {"custom", "pin"}
        /\ pc' \in (Asking \ {"custom", "pin"}) \union {"aborted"}
        /\ customised' = customised
    BY <1>6 DEF Reporting, EnableReport, Retry, Asking
  <2> QED BY <1>0, <2>1, AbilityKept DEF Asking
<1>7. CASE Decide
  <2>1. /\ pc = "decide" /\ customised' = customised
        /\ pc' = IF "gps" \in customised THEN "nmea" ELSE "exited"
    BY <1>7 DEF Decide, belief
  <2>2. GpsKnown
    BY <2>1 DEF AbilityInv, Asking
  <2> QED BY <1>0, <2>1, <2>2 DEF AbilityInv, GpsKnown
<1> QED BY <1>0, <1>1, <1>2, <1>3, <1>4, <1>5, <1>6, <1>7, Parts, QuestionsAbility
        DEF Finding, Recovery

LEMMA WorldAbility ==
  ASSUME AbilityInv, ModemInv, Usual, Usual', World
  PROVE  AbilityInv'
<1>0. UNCHANGED <<pc, module, customised, found>> /\ ~dead /\ ~dead'
  BY DEF World, belief, Usual
<1>1. CASE pc = "pin"
  <2>1. modem.state # "booting" /\ modem \in Modems
    BY <1>0, <1>1 DEF ModemInv, Asking
  <2>2. modem'.state \in {modem.state, "stalled"}
    <3>1. CASE SimSettles
      BY <2>1, <3>1, Values DEF SimSettles, Like
    <3>2. ASSUME NEW n \in Nets, NetChange(n)
          PROVE  modem'.state = modem.state
      BY <2>1, <3>2, Values DEF NetChange, Like
    <3>3. CASE Stall
      BY <2>1, <3>3, Values DEF Stall, Like
    <3>4. ~Vanish
      BY <1>0 DEF Vanish
    <3> QED BY <2>1, <3>1, <3>2, <3>3, <3>4 DEF World, Modem, Boot, Appear
  <2> QED BY <1>0, <2>2, AbilityKept DEF Up
<1>2. CASE pc # "pin"
  BY <1>0, <1>2 DEF AbilityInv, GpsKnown
<1> QED BY <1>1, <1>2

LEMMA StepAbility ==
  ASSUME AbilityInv, ModemInv, LineInv, [Next]_vars
  PROVE  AbilityInv'
<1>1. CASE Usual /\ Usual'
  <2>1. CASE Turns
    <3>1. UNCHANGED <<module, customised>> /\ pc' \in {"turn", "asleep", "waking"}
      BY <2>1 DEF Turns, Power, ReadReport, BeginWakeUp, Sleep, LoseDevice, Goto, belief
    <3> QED BY <1>1, <3>1, AbilityKept DEF Asking
  <2>2. CASE Idle
    BY <1>1, <2>2, AbilityKept DEF Idle, vars, belief, Up, line
  <2> QED BY <1>1, <2>1, <2>2, LoopAbility, WorldAbility DEF Next, Idle
<1>2. CASE Usual' /\ pc' \in {"rescan", "asleep", "waking"}
  BY <1>2 DEF AbilityInv, Asking
<1>3. CASE ~Usual'
  BY <1>3 DEF AbilityInv
<1> QED BY <1>1, <1>2, <1>3, UsualBefore

-----------------------------------------------------------------------------
(* Types, and the properties that ask nothing of the modem.                *)

LEMMA InitInv ==
  ASSUME Init
  PROVE  Inv
<1>1. PlaceInv
  BY DEF Init, PlaceInv, Places, Opening
<1>2. DescriptorInv
  BY DEF Init, DescriptorInv, WatchesItsDevices, Opening, Holding, Asking, Numbers, Devices
<1>3. SavedInv
  BY DEF Init, SavedInv, Saved, Asking, Recovering
<1>4. ModemInv
  <2>1. /\ module \in Modules /\ card \in Cards /\ pc = "create"
    BY DEF Init
  <2>2. PICK m \in PowerOn, s \in {"up", "booting"} : modem = [m EXCEPT !.state = s]
    BY DEF Init
  <2>3. PICK r \in BOOLEAN : m = [state |-> "booting", reports |-> {}, radio |-> r,
                                  net |-> 0, sim |-> card, unread |-> FALSE]
    BY <2>2 DEF PowerOn
  <2>4. card \in Sims /\ "booting" \in States /\ {} \in SUBSET Reports /\ 0 \in 0..5
        /\ FALSE \in BOOLEAN /\ s \in States
    BY <2>1 DEF Sims, States
  <2>5. m \in Modems
    BY <2>3, <2>4, Zenon DEF Modems
  <2>6. modem \in Modems /\ Like(modem, s, m.reports, m.radio, m.net, m.unread)
    BY <2>2, <2>4, <2>5, Fields, Values
  <2>7. m.net = 0 /\ m.unread = FALSE
    BY <2>3
  <2>8. late = FALSE
    BY DEF Init
  <2> QED BY <2>1, <2>6, <2>7, <2>8 DEF Like, ModemInv, Asking
<1>5. AbilityInv
  BY DEF Init, AbilityInv, Asking
<1>6. LineInv
  <2>1. MaxRounds \in Nat /\ rounds = 0 /\ fileFd = NoFile /\ dead = FALSE /\ late = FALSE
        /\ crossed = FALSE
    BY ConstantsOK DEF Init
  <2>2. rounds \in 0..MaxRounds /\ fileFd \in Numbers \union {NoFile}
    BY <2>1
  <2>3. dead \in BOOLEAN /\ late \in BOOLEAN /\ crossed \in BOOLEAN /\ ~dead
    BY <2>1, Zenon
  <2> QED BY <2>2, <2>3 DEF LineInv
<1> QED BY <1>1, <1>2, <1>3, <1>4, <1>5, <1>6, InitPlain DEF Inv

LEMMA InvCorrect == Spec => []Inv
<1>1. Inv /\ [Next]_vars => Inv'
  BY StepPlace, StepLine, StepPlain, StepDescriptors, StepSaved, StepModem, StepAbility DEF Inv
<1> QED BY <1>1, InitInv, PTL DEF Spec

\* The types; and gps_enabled is put back to what the loop had, through a
\* recovery within a wake-up (pm_wake_up, recover_stalled_ctrl_device).
THEOREM TypeCorrect == Spec => []TypeOK
<1>1. Inv => TypeOK
  <2> SUFFICES ASSUME Inv PROVE TypeOK
    OBVIOUS
  <2> USE DEF Inv
  <2>1. saved \in Seq({"off", "on", "waking"}) /\ Len(saved) <= 2
        /\ gpsEnabled \in {"off", "on", "waking", "recovering"}
    <3>1. \/ Saved \/ SavedTwice
          \/ saved = <<>> /\ gpsEnabled \in {"off", "on"}
      BY DEF PlaceInv, SavedInv, Places, Opening, Holding, Recovering
    <3>2. saved \in {<<>>, <<"off">>, <<"on">>, <<"off", "waking">>, <<"on", "waking">>}
      BY <3>1, Zenon DEF Saved, SavedTwice
    <3>3. gpsEnabled \in {"off", "on", "waking", "recovering"}
      BY <3>1 DEF Saved, SavedTwice
    <3>4. \A a, b \in {"off", "on", "waking"} :
            /\ <<a>> \in Seq({"off", "on", "waking"}) /\ Len(<<a>>) = 1
            /\ <<a, b>> \in Seq({"off", "on", "waking"}) /\ Len(<<a, b>>) = 2
      OBVIOUS
    <3>5. <<>> \in Seq({"off", "on", "waking"}) /\ Len(<<>>) = 0
      OBVIOUS
    <3>6. \A s \in {<<>>, <<"off">>, <<"on">>, <<"off", "waking">>, <<"on", "waking">>} :
            s \in Seq({"off", "on", "waking"}) /\ Len(s) \in {0, 1, 2}
      BY <3>4, <3>5, Zenon
    <3>7. \A n \in {0, 1, 2} : n <= 2
      OBVIOUS
    <3> QED BY <3>2, <3>3, <3>6, <3>7, Zenon
  <2>2. pc = "turn" => gpsEnabled \in {"off", "on"} /\ saved = <<>>
    BY DEF SavedInv
  <2>3. pc \in Reports \union Ended \union
       {"create", "asleep", "waking", "open", "probe", "reset", "rescan",
        "searching", "reopen", "reprobe", "custom", "pin", "quiet", "pin ready",
        "radio", "registration", "decide", "nmea", "turn"}
    BY DEF PlaceInv, Places, Opening, Holding, Asking, Reports, Ended
  <2>4. modem \in [state : {"up", "booting", "stalled"}, reports : SUBSET Reports,
                radio : BOOLEAN, net : 0..5, sim : Cards \union {"busy", "ready"},
                unread : BOOLEAN]
    BY DEF ModemInv, Modems, States, Sims
  <2>5. /\ rounds \in 0..MaxRounds /\ fileFd \in Numbers \union {NoFile}
        /\ dead \in BOOLEAN /\ late \in BOOLEAN /\ crossed \in BOOLEAN
    BY DEF LineInv
  <2>6. /\ tries \in 0..5 /\ found \subseteq Devices /\ present \subseteq Devices
        /\ registration \in 0..6 /\ unsolicited \in BOOLEAN
        /\ customised \subseteq {"gps", "supl"}
    BY DEF PlainInv
  <2>7. /\ nmeaFd \in Numbers /\ ctrlFd \in Numbers /\ fdsread \subseteq Numbers
        /\ owner \in [Numbers -> {"free", "stdin", "file"} \union Devices]
    BY DEF DescriptorInv
  <2> QED BY <2>1, <2>2, <2>3, <2>4, <2>5, <2>6, <2>7, Zenon DEF TypeOK
<1> QED BY <1>1, InvCorrect, PTL

\* A loop that waits in pselect watches the devices it holds: no descriptor of
\* before a suspension or recovery is left in fdsread, and no number is shared
\* with the settings file, though the recovery closes some it no longer holds;
\* unless the D-Bus thread has closed one of the devices instead of its file.
THEOREM DevicesAreWatched == Spec => []WatchesItsDevices
<1>1. Inv => WatchesItsDevices
  BY DEF Inv, DescriptorInv
<1> QED BY <1>1, InvCorrect, PTL

\* The daemon ends without a GPS or devices only when there are none, wherever
\* the modem stalled while it was asked (modem_check_gps_customization), if the
\* answers it gave came in time and the devices stayed open.
THEOREM ExitIsJustified == Spec => []ExitsOnlyWithoutGps
<1>1. Inv => ExitsOnlyWithoutGps
  <2>1. "exited" \notin Commanding
    BY DEF Commanding, Reports
  <2> QED BY <2>1 DEF Inv, LineInv, AbilityInv, ExitsOnlyWithoutGps, Usual
<1> QED BY <1>1, InvCorrect, PTL

-----------------------------------------------------------------------------
(* The reports, with a modem that gives in.                                *)

\* Where the first, and the second report is on.
AfterStat == (Asking \ {"custom", "pin", "quiet", "stat"}) \union {"turn"}
AfterCfun == AfterStat \ {"cfun"}
AfterCreg == {"radio", "registration", "decide", "nmea", "turn"}

LEMMA ReportsKept ==
  ASSUME ReportsHeld,
         \/ /\ modem.reports \subseteq modem'.reports
            /\ pc' \in AfterStat => pc \in AfterStat
            /\ pc' \in AfterCfun => pc \in AfterCfun
         \/ pc' \notin AfterStat
  PROVE  ReportsHeld'
BY DEF ReportsHeld, AfterStat, AfterCfun

\* The sixth refusal, which is not looked at, does not come.
LEMMA ReportsTurnedOn ==
  ASSUME Compliant, PlainInv, ModemInv, ~late, ~late', NEW r \in Reports, NEW next, EnableReport(r, next)
  PROVE  /\ modem.reports \subseteq modem'.reports
         /\ \/ pc' = next /\ r \in modem'.reports
            \/ pc' = pc \/ pc' = "aborted"
<1>1. MaxRefusals \in Nat /\ MaxRefusals <= 5 /\ tries \in 0..5
  BY ConstantsOK DEF Compliant, PlainInv
<1>2. ~(tries < MaxRefusals /\ ~(tries + 1 < 6))
  BY <1>1
<1> QED BY <1>2, ReportingLeaves

LEMMA LoopReports ==
  ASSUME Compliant, PlainInv, ModemInv, ReportsHeld, Usual, Usual', Loop
  PROVE  ReportsHeld'
<1> USE DEF Goto, AfterStat, AfterCfun, Asking
<1>0. ~late /\ ~late'
  BY DEF Usual, Regular
<1>1. CASE Reset
  BY <1>1, ReportsKept DEF Reset
<1>2. CASE Finding
  BY <1>2, ReportsKept DEF Finding, Create, WakeUpSearch, FirstOpen, Reopen, OpenCtrl, OpenNmea,
     line
<1>3. CASE Rescan \/ SearchAgain \/ SearchEnds
  BY <1>3, ReportsKept DEF Rescan, SearchAgain, SearchEnds, line
<1>4. CASE Probe \/ Reprobe
  BY <1>4, ReportsKept DEF Probe, Reprobe, Retry
<1>5. CASE EnableReport("stat", "cfun")
  <2>1. pc = "stat" /\ pc' \in {"stat", "cfun", "aborted"}
    BY <1>5 DEF EnableReport, Retry
  <2>2. pc' = "cfun" => "stat" \in modem'.reports
    BY <1>5, <2>1, <1>0, ReportsTurnedOn DEF Reports
  <2> QED BY <2>1, <2>2 DEF ReportsHeld
<1>6. CASE EnableReport("cfun", "pin ready")
  <2>1. pc = "cfun" /\ "stat" \in modem.reports
    BY <1>6 DEF EnableReport, ReportsHeld
  <2> QED BY <1>6, <2>1, <1>0, ReportsTurnedOn DEF ReportsHeld, Reports
<1>7. CASE EnableReport("creg", "radio")
  <2>1. pc = "creg"
    BY <1>7 DEF EnableReport
  <2> QED BY <1>7, <2>1, <1>0, ReportsTurnedOn, ReportsKept DEF Reports
<1>8. CASE Questions
  <2>1. pc = "quiet" \/ modem'.reports = modem.reports
    BY <1>8, QuestionsLeave
  <2>2. CASE pc = "quiet" \/ pc = "custom" \/ pc = "pin"
    BY <1>8, <2>2, ReportsKept DEF Questions, CheckCustomization, CheckPin, Quiet, PinReady,
       CheckRadio, CheckRegistration
  <2>3. CASE PinReady \/ CheckRadio \/ CheckRegistration
    BY <2>1, <2>3, ReportsKept DEF PinReady, CheckRadio, CheckRegistration, Retry
  <2> QED BY <1>8, <2>2, <2>3 DEF Questions, CheckCustomization, CheckPin, Quiet
<1>9. CASE Decide
  BY <1>9, ReportsKept DEF Decide, line
<1> QED BY <1>1, <1>2, <1>3, <1>4, <1>5, <1>6, <1>7, <1>8, <1>9, Parts
        DEF Recovery, Reporting

\* What happens beside the thread takes no report from it.
LEMMA WorldLeaves ==
  ASSUME ModemInv, Usual, Usual', World
  PROVE  /\ UNCHANGED <<pc, registration>> /\ modem'.reports = modem.reports
         /\ pc \in Asking \union {"turn"} /\ Up' => Up
         /\ \/ modem'.net = modem.net /\ modem'.unread = modem.unread
            \/ "creg" \in modem.reports => modem'.unread
<1>0. modem \in Modems /\ UNCHANGED <<pc, registration>> /\ ~Vanish /\ ~dead
  BY DEF World, ModemInv, belief, Vanish, Usual
<1>1. CASE UNCHANGED modem
  BY <1>0, <1>1 DEF Up
<1>2. CASE Stall \/ Boot
  <2>1. ASSUME NEW s, modem' = [modem EXCEPT !.state = s]
        PROVE  /\ modem'.state = s /\ modem'.reports = modem.reports
               /\ modem'.net = modem.net /\ modem'.unread = modem.unread
    <3>1. Like([modem EXCEPT !.state = s], s, modem.reports, modem.radio, modem.net,
               modem.unread)
      BY <1>0, Values
    <3> QED BY <2>1, <3>1 DEF Like
  <2>2. CASE Stall
    BY <1>0, <2>1, <2>2 DEF Stall, Up
  <2>3. CASE Boot
    <3>1. modem' = [modem EXCEPT !.state = "up"] /\ modem.state = "booting"
      BY <2>3 DEF Boot
    <3>2. pc \notin Asking \union {"turn"}
      BY <1>0, <3>1 DEF ModemInv
    <3> QED BY <1>0, <2>1, <3>1, <3>2
  <2> QED BY <1>2, <2>2, <2>3
<1>3. CASE SimSettles
  <2>1. Like(modem', modem.state, modem.reports, modem.radio, modem.net, modem.unread)
    BY <1>0, <1>3, Values DEF SimSettles
  <2> QED BY <1>0, <2>1 DEF Like, Up
<1>4. ASSUME NEW n \in Nets, NetChange(n)
      PROVE  /\ modem'.reports = modem.reports /\ modem'.state = modem.state
             /\ "creg" \in modem.reports => modem'.unread
  <2> DEFINE reported == modem.unread \/ "creg" \in modem.reports
  <2>1. modem' = [modem EXCEPT !.net = n, !.unread = reported]
    BY <1>4 DEF NetChange
  <2>2. "creg" \in modem.reports => reported
    OBVIOUS
  <2> HIDE DEF reported
  <2>3. Like(modem', modem.state, modem.reports, modem.radio, n, reported)
    BY <1>0, <2>1, Values, Zenon
  <2> QED BY <2>2, <2>3, Zenon DEF Like
<1> QED BY <1>0, <1>1, <1>2, <1>3, <1>4 DEF World, Modem, Appear, Up

LEMMA ReadLeaves ==
  ASSUME ModemInv, ReadReport
  PROVE  Like(modem', modem.state, modem.reports, modem.radio, modem.net, FALSE)
BY Values DEF ReadReport, ModemInv

LEMMA TurnsReports ==
  ASSUME ModemInv, ReportsHeld, Turns
  PROVE  ReportsHeld'
<1> USE DEF Goto, AfterStat, AfterCfun, Asking
<1>1. CASE Power
  <2>1. pc = "turn" /\ pc' = "turn" /\ UNCHANGED modem
    BY <1>1 DEF Power, line
  <2> QED BY <2>1, ReportsKept
<1>2. CASE ReadReport
  <2>1. pc = "turn" /\ pc' = "turn" /\ modem'.reports = modem.reports
    BY <1>2, ReadLeaves DEF ReadReport, Like
  <2> QED BY <2>1, ReportsKept
<1>3. CASE BeginWakeUp \/ Sleep \/ LoseDevice
  <2>1. pc' \in {"asleep", "waking"}
    BY <1>3 DEF BeginWakeUp, Sleep, LoseDevice
  <2> QED BY <2>1, ReportsKept
<1> QED BY <1>1, <1>2, <1>3 DEF Turns

LEMMA StepReports ==
  ASSUME Compliant, LineInv, PlainInv, ModemInv, ReportsInv, [Next]_vars
  PROVE  ReportsInv'
<1>1. CASE Usual /\ Usual'
  <2>0. ReportsHeld
    BY <1>1 DEF ReportsInv
  <2>1. CASE Turns
    <3>1. ReportsHeld'
      BY <2>0, <2>1, TurnsReports
    <3> QED BY <3>1 DEF ReportsInv
  <2>2. CASE World
    <3>1. ReportsHeld'
      BY <1>1, <2>0, <2>2, WorldLeaves, ReportsKept
    <3> QED BY <3>1 DEF ReportsInv
  <2>3. CASE Idle
    <3>1. ReportsHeld'
      BY <2>0, <2>3, ReportsKept DEF Idle, vars, line
    <3> QED BY <3>1 DEF ReportsInv
  <2>4. CASE Loop
    <3>1. ReportsHeld'
      BY <1>1, <2>0, <2>4, LoopReports
    <3> QED BY <3>1 DEF ReportsInv
  <2> QED BY <2>1, <2>2, <2>3, <2>4 DEF Next, Idle
<1>2. CASE pc' \in {"rescan", "asleep", "waking"}
  BY <1>2 DEF ReportsInv, ReportsHeld, Asking
<1>3. CASE ~Usual'
  BY <1>3 DEF ReportsInv
<1> QED BY <1>1, <1>2, <1>3, UsualBefore

\* The loop knows the GPS by reports only.  When it waits they are on in the
\* modem, through every reset, suspension and loss, and five refusals of each.
THEOREM ReportsAreTurnedOn ==
  ASSUME Compliant
  PROVE  Spec => []ReportsAreOn
<1>0. Init => ReportsInv
  BY DEF Init, ReportsInv, ReportsHeld, Asking
<1>1. Init => Inv /\ ReportsInv
  BY <1>0, InitInv
<1>2. Inv /\ ReportsInv /\ [Next]_vars => Inv' /\ ReportsInv'
  BY StepPlace, StepLine, StepPlain, StepDescriptors, StepSaved, StepModem, StepAbility, StepReports
     DEF Inv
<1>3. Inv /\ ReportsInv => ReportsAreOn
  <2>1. "turn" \notin Commanding
    BY DEF Commanding, Reports
  <2> QED BY <2>1 DEF Inv, LineInv, ReportsInv, ReportsHeld, ReportsAreOn, Usual
<1> QED BY <1>1, <1>2, <1>3, PTL DEF Spec

-----------------------------------------------------------------------------
(* The registration, with a modem that also answers what it is asked.      *)

LEMMA LoopRegistration ==
  ASSUME Answering, PlainInv, ModemInv, RegistrationHeld, Usual, Usual', Loop
  PROVE  RegistrationHeld'
<1> USE DEF Goto, AfterCreg
<1>0. ~late /\ ~late'
  BY DEF Usual, Regular
<1>1. CASE Reset
  BY <1>1 DEF Reset, RegistrationHeld
<1>2. CASE Create \/ WakeUpSearch \/ FirstOpen \/ Reopen
  BY <1>2 DEF Create, WakeUpSearch, FirstOpen, Reopen, OpenCtrl, RegistrationHeld
<1>3. CASE Recovery
  BY <1>3 DEF Recovery, Probe, Rescan, SearchAgain, SearchEnds, Reprobe, Retry, RegistrationHeld
<1>4. CASE EnableReport("stat", "cfun") \/ EnableReport("cfun", "pin ready")
  BY <1>4 DEF EnableReport, Retry, RegistrationHeld
<1>5. CASE EnableReport("creg", "radio")
  <2>1. pc = "creg"
    BY <1>5 DEF EnableReport
  <2>2. pc' = "radio" => "creg" \in modem'.reports
    BY <1>5, <2>1, <1>0, ReportsTurnedOn DEF Answering, Reports
  <2>3. pc' \in {"radio", "creg", "aborted"}
    BY <1>5 DEF EnableReport, Retry
  <2> QED BY <2>2, <2>3 DEF RegistrationHeld
<1>6. CASE CheckCustomization \/ CheckPin \/ Quiet
  BY <1>6 DEF CheckCustomization, CheckPin, Quiet, RegistrationHeld
<1>7. CASE PinReady
  BY <1>7 DEF PinReady, PinNotReady, Retry, RegistrationHeld
<1>8. CASE CheckRadio
  <2>1. /\ pc = "radio" /\ pc' \in {"registration", "decide"} /\ registration' = registration
        /\ pc' = "decide" => ~modem.radio \/ Silent(modem)
    BY <1>0, <1>8 DEF CheckRadio, Answering, belief
  <2>4. Silent(modem) => ~Up /\ UNCHANGED modem
    BY <1>0, InTime
  <2>2. modem'.reports = modem.reports /\ modem'.net = modem.net
    BY <1>8, <2>1, QuestionsLeave DEF Questions
  <2>3. ~modem.radio => modem'.net \notin Registered
    BY <2>2 DEF ModemInv, Registered
  <2> QED BY <2>1, <2>2, <2>3, <2>4 DEF RegistrationHeld, Waits, Up
<1>9. CASE CheckRegistration
  <2>1. /\ pc = "registration" /\ pc' = "decide"
        /\ \/ registration' = Checked(modem.net)
           \/ Silent(modem) /\ UNCHANGED registration
    BY <1>0, <1>9 DEF CheckRegistration, Answering
  <2>6. Silent(modem) => ~Up /\ UNCHANGED modem
    BY <1>0, InTime
  <2>2. modem'.reports = modem.reports /\ modem'.net = modem.net
    BY <1>9, <2>1, QuestionsLeave DEF Questions
  <2>3. "creg" \in modem.reports \/ registration = REGISTRATION_NOT_POSSIBLE
    BY <2>1 DEF RegistrationHeld
  <2>4. CASE registration' = Checked(modem.net)
    BY <2>1, <2>2, <2>3, <2>4
       DEF Checked, RegistrationHeld, Waits, Registered, Unregistered, REGISTRATION_NOT_POSSIBLE
  <2>5. CASE ~Up /\ UNCHANGED <<modem, registration>>
    BY <2>1, <2>3, <2>5 DEF RegistrationHeld, Waits, Up
  <2> QED BY <2>1, <2>4, <2>5, <2>6
<1>10. CASE Decide \/ OpenNmea
  <2>1. /\ UNCHANGED <<modem, registration>> /\ pc \in {"decide", "nmea"}
        /\ pc' \in {"exited", "nmea", "turn", "aborted"}
    BY <1>10 DEF Decide, OpenNmea, belief, line
  <2> QED BY <2>1 DEF RegistrationHeld, Waits, Up
<1> QED BY <1>1, <1>2, <1>3, <1>4, <1>5, <1>6, <1>7, <1>8, <1>9, <1>10, Parts
        DEF Finding, Reporting, Questions

LEMMA TurnsRegistration ==
  ASSUME ModemInv, RegistrationHeld, Turns
  PROVE  RegistrationHeld'
<1> USE DEF Goto
<1>1. CASE Power
  BY <1>1 DEF Power, RegistrationHeld, Waits, Up, belief, line
<1>2. CASE ReadReport
  <2>1. /\ pc = "turn" /\ modem.unread /\ registration' = modem.net
        /\ modem.unread => "creg" \in modem.reports
    BY <1>2 DEF ReadReport, ModemInv
  <2>2. modem'.reports = modem.reports /\ modem'.net = modem.net
    BY <1>2, ReadLeaves DEF Like
  <2> QED BY <2>1, <2>2 DEF RegistrationHeld, Waits, Registered, Unregistered
<1>3. CASE BeginWakeUp \/ Sleep \/ LoseDevice
  BY <1>3 DEF BeginWakeUp, Sleep, LoseDevice, RegistrationHeld
<1> QED BY <1>1, <1>2, <1>3 DEF Turns

LEMMA WorldRegistration ==
  ASSUME ModemInv, RegistrationHeld, Usual, Usual', World
  PROVE  RegistrationHeld'
<1>1. /\ UNCHANGED <<pc, registration>> /\ modem'.reports = modem.reports
      /\ pc \in Asking \union {"turn"} /\ Up' => Up
      /\ \/ modem'.net = modem.net /\ modem'.unread = modem.unread
         \/ "creg" \in modem.reports => modem'.unread
  BY WorldLeaves
<1>2. \/ "creg" \in modem.reports \/ pc \notin AfterCreg
      \/ registration = REGISTRATION_NOT_POSSIBLE
  BY DEF RegistrationHeld, AfterCreg
<1>3. CASE pc \notin AfterCreg
  BY <1>1, <1>3 DEF RegistrationHeld, AfterCreg
<1>4. CASE registration = REGISTRATION_NOT_POSSIBLE
  BY <1>1, <1>4 DEF RegistrationHeld, Waits, Unregistered, REGISTRATION_NOT_POSSIBLE
<1>5. CASE "creg" \in modem.reports /\ pc \in AfterCreg
  <2>1. Waits' => Waits
    BY <1>1, <1>5 DEF Waits, AfterCreg, Asking
  <2> QED BY <1>1, <1>5, <2>1 DEF RegistrationHeld
<1> QED BY <1>2, <1>3, <1>4, <1>5

LEMMA StepRegistration ==
  ASSUME Answering, LineInv, PlainInv, ModemInv, RegistrationInv, [Next]_vars
  PROVE  RegistrationInv'
<1>1. CASE Usual /\ Usual'
  <2>0. RegistrationHeld
    BY <1>1 DEF RegistrationInv
  <2>1. RegistrationHeld'
    <3>1. CASE Idle
      BY <2>0, <3>1 DEF Idle, vars, RegistrationHeld, Waits, Up, belief, line
    <3> QED BY <1>1, <2>0, <3>1, LoopRegistration, TurnsRegistration, WorldRegistration
            DEF Next, Idle
  <2> QED BY <2>1 DEF RegistrationInv
<1>2. CASE pc' \in {"rescan", "asleep", "waking"}
  BY <1>2 DEF RegistrationInv, RegistrationHeld
<1>3. CASE ~Usual'
  BY <1>3 DEF RegistrationInv
<1> QED BY <1>1, <1>2, <1>3, UsualBefore

\* A loop that waits for a network in SUPL mode is told of it, though
\* init_mbm_modem drops the reports that come with its answers: what it has not
\* been told it has asked for, or it knows that there is no card to wait for.
THEOREM LoopIsTold ==
  ASSUME Answering
  PROVE  Spec => []WaitIsToldOf
<1>0. Init => RegistrationInv
  BY DEF Init, RegistrationInv, RegistrationHeld
<1>1. Init => Inv /\ RegistrationInv
  BY <1>0, InitInv
<1>2. Inv /\ RegistrationInv /\ [Next]_vars => Inv' /\ RegistrationInv'
  BY StepPlace, StepLine, StepPlain, StepDescriptors, StepSaved, StepModem, StepAbility,
     StepRegistration DEF Inv
<1>3. Inv /\ RegistrationInv => WaitIsToldOf
  <2>1. "turn" \notin Commanding
    BY DEF Commanding, Reports
  <2> QED BY <2>1 DEF Inv, LineInv, RegistrationInv, RegistrationHeld, WaitIsToldOf, Waits, Usual
<1> QED BY <1>1, <1>2, <1>3, PTL DEF Spec
=============================================================================
