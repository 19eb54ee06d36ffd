-------------------------- MODULE GpsControlProofs --------------------------
(***************************************************************************)
(* Theorems about GpsControl, for any number of client ports, any networks *)
(* and any bounds.  Type correctness comes first; the theorems after it    *)
(* each name the invariant they are proved from.                           *)
(***************************************************************************)
EXTENDS GpsControl, TLAPS

USE DEF LoopTypes, OptionTypes, PrivTypes, ModemTypes, StreamTypes

-----------------------------------------------------------------------------
(* Typing: of the variables a step leaves alone, of the parser's operators *)
(* and of the handler's result.                                            *)

LEMMA OptionsKept ==
  ASSUME OptionTypes, UNCHANGED options
  PROVE  OptionTypes'
BY DEF options

LEMMA PrivKept ==
  ASSUME PrivTypes, UNCHANGED priv
  PROVE  PrivTypes'
BY DEF priv

LEMMA ModemKept ==
  ASSUME ModemTypes, UNCHANGED modem
  PROVE  ModemTypes'
BY DEF modem

LEMMA LoopKept ==
  ASSUME LoopTypes, UNCHANGED loopVars
  PROVE  LoopTypes'
BY DEF loopVars

\* The types of the whole, put together from those of its parts.
LEMMA TypeParts ==
  ASSUME LoopTypes, OptionTypes, PrivTypes, ModemTypes, StreamTypes,
         port \in [Clients -> {"idle", "opening", "openhup", "attached", "hup"}],
         events \in Nat
  PROVE  TypeOK
BY DEF TypeOK

LEMMA ChangeType ==
  ASSUME NEW m \in ModemModes
  PROVE  Change(m) \in Seq(Statuses)
<1>1. Status(m, 0) \in Statuses
  BY DEF Status, Statuses
<1> QED BY <1>1 DEF Change

LEMMA EndsOfSequence ==
  ASSUME NEW S, NEW q \in Seq(S), q # <<>>
  PROVE  Head(q) \in S /\ q[Len(q)] \in S
<1>1. Len(q) \in Nat \ {0} /\ Head(q) = q[1]
  OBVIOUS
<1> QED BY <1>1

LEMMA ParsedTypes ==
  ASSUME TypeOK, NEW n \in GpsState, NEW q \in Seq(Statuses)
  PROVE  /\ ParsedNew(n, q) \in GpsState
         /\ ParsedCurrent(q) \in GpsState
         /\ ParsedRegistration \in 0..6
<1>1. q # <<>> => Head(q) \in Statuses /\ q[Len(q)] \in Statuses
  BY EndsOfSequence
<1>2. cfunQ # <<>> => Head(cfunQ) \in 0..1
  BY EndsOfSequence DEF TypeOK
<1>3. cregQ # <<>> => Head(cregQ) \in 0..5
  BY EndsOfSequence, ConstantsOK DEF TypeOK
<1>4. \A x \in Statuses : x.mode \in Modes /\ x.supl \in 0..1
  BY DEF Statuses, ModemModes, Modes
<1>5. ParsedNew(n, q) \in GpsState
  BY <1>1, <1>2, <1>4 DEF ParsedNew, GpsState
<1>6. ParsedCurrent(q) \in GpsState
  <2>1. Len(q) > 1 => q # <<>>
    OBVIOUS
  <2>2. Len(q) > 1 => Head(q).mode \in Modes /\ Head(q).supl \in 0..1
    BY <2>1, <1>1, <1>4
  <2> QED BY <2>2 DEF ParsedCurrent, TypeOK, GpsState
<1>7. ParsedRegistration \in 0..6
  BY <1>3 DEF ParsedRegistration, TypeOK
<1> QED BY <1>5, <1>6, <1>7

LEMMA HandledType ==
  ASSUME TypeOK
  PROVE  Handled \in GpsState /\ ModeWanted \in ModemModes /\ UserDisabled \in BOOLEAN
BY ConstantsOK DEF TypeOK, Handled, ModeWanted, UserDisabled, ShotDone, GpsState,
   ModemModes, Modes

-----------------------------------------------------------------------------
(* Type correctness.                                                       *)

LEMMA ParseType ==
  ASSUME TypeOK, NEW n \in GpsState, NEW q \in Seq(Statuses), Parse(n, q)
  PROVE  new' \in GpsState /\ current' \in GpsState /\ registration' \in 0..6
BY ParsedTypes DEF Parse

LEMMA StreamReadType ==
  ASSUME StreamRead
  PROVE  /\ statQ' \in Seq(Statuses) /\ cfunQ' \in Seq(0..1)
         /\ cregQ' \in Seq(Networks)
BY DEF StreamRead

LEMMA DiscardType ==
  ASSUME TypeOK, Discard
  PROVE  /\ statQ' \in Seq(Statuses) /\ cfunQ' \in Seq(0..1)
         /\ cregQ' \in Seq(Networks) /\ dropped' \in BOOLEAN
<1>1. dropped' \in BOOLEAN
  BY Zenon DEF Discard, Discarded, TypeOK
<1> QED BY <1>1, StreamReadType DEF Discard

LEMMA NoCallType ==
  NoCall \in [mode : ModemModes, interval : Intervals,
              ret : {"select", "opened", "clients", "states", "top"}]
BY DEF NoCall, ModemModes, Intervals

LEMMA EnabledType ==
  ASSUME TypeOK, NEW m \in {STAND_ALONE_MODE, SUPL_MODE}, Enabled(m),
         UNCHANGED <<ready, saved, options, port, events>>
  PROVE  TypeOK'
<1>1. m \in ModemModes
  BY DEF ModemModes
<1>2. [new EXCEPT !.mode = m] \in GpsState
  BY <1>1 DEF ModemModes, GpsState, Modes, TypeOK
<1> DEFINE n == [new EXCEPT !.mode = m]
<1> HIDE DEF n
<1>3. /\ statQ \in Seq(Statuses) /\ Change(m) \in Seq(Statuses)
      /\ statQ \o Change(m) \in Seq(Statuses) /\ <<>> \in Seq(Statuses)
  <2>1. statQ \in Seq(Statuses)
    BY DEF TypeOK
  <2>2. Change(m) \in Seq(Statuses)
    BY <1>1, ChangeType
  <2> QED BY <2>1, <2>2
<1>4. /\ new' \in GpsState /\ current' \in GpsState /\ registration' \in 0..6
      /\ statQ' \in Seq(Statuses)
  <2>1. CASE Parse(n, statQ \o Change(m)) /\ statQ' = <<>>
    BY <1>2, <1>3, <2>1, ParseType DEF n
  <2>2. CASE Parse(n, statQ) /\ statQ' = Change(m)
    BY <1>2, <1>3, <2>2, ParseType DEF n
  <2> QED BY <2>1, <2>2 DEF Enabled, n
<1>5. cfunQ' \in Seq(0..1) /\ cregQ' \in Seq(Networks)
  BY DEF Enabled
<1>6. modemMode' \in ModemModes /\ gpsEnabled' \in Modes /\ modemSupl' \in 0..1
  BY <1>1 DEF Enabled, ModemModes, Modes
<1>7. pc' \in PCs /\ call' = NoCall /\ modemShot' \in BOOLEAN
  BY DEF Enabled, Return, TypeOK, PCs
<1>8. UNCHANGED <<waitForSleep, conns, suplFailed, modemWdis, network, cregOn,
                  lost>> /\ portUndefined' = FALSE
      /\ foreign' = FALSE /\ dropped' = FALSE
  BY DEF Enabled
<1>9. call' \in [mode : ModemModes, interval : Intervals,
                 ret : {"select", "opened", "clients", "states", "top"}]
  BY <1>7, NoCallType
<1> QED
  BY <1>4, <1>5, <1>6, <1>7, <1>8, <1>9 DEF TypeOK, options

LEMMA FallsBackType ==
  ASSUME TypeOK, Discard, UNCHANGED <<ready, saved, options, port, events>>,
         UNCHANGED <<priv, modem>>,
         \/ pc' = "ctl" /\ call' = [call EXCEPT !.mode = STAND_ALONE_MODE]
         \/ Return
  PROVE  TypeOK'
<1>1. /\ statQ' \in Seq(Statuses) /\ cfunQ' \in Seq(0..1)
      /\ cregQ' \in Seq(Networks) /\ dropped' \in BOOLEAN
  BY DiscardType
<1>2. /\ call' \in [mode : ModemModes, interval : Intervals,
                    ret : {"select", "opened", "clients", "states", "top"}]
      /\ pc' \in PCs
  <2>1. CASE pc' = "ctl" /\ call' = [call EXCEPT !.mode = STAND_ALONE_MODE]
    BY <2>1 DEF TypeOK, PCs, ModemModes
  <2>2. CASE Return
    BY <2>2, NoCallType DEF Return, TypeOK, PCs
  <2> QED BY <2>1, <2>2
<1> QED BY <1>1, <1>2 DEF TypeOK, options, priv, modem

LEMMA TurnOffType ==
  ASSUME TypeOK, TurnOff
  PROVE  /\ new' \in GpsState /\ gpsEnabled' \in Modes
         /\ modemMode' \in ModemModes
         /\ statQ' \in Seq(Statuses) /\ cfunQ' \in Seq(0..1)
         /\ cregQ' \in Seq(Networks)
         /\ foreign' \in BOOLEAN /\ dropped' \in BOOLEAN
<1>1. OFF \in ModemModes /\ OFF \in Modes
  BY DEF ModemModes, Modes
<1>2. Change(OFF) \in Seq(Statuses) /\ <<>> \in Seq(Statuses)
  BY <1>1, ChangeType
<1>3. statQ' \in {<<>>, Change(OFF)}
  BY DEF TurnOff
<1>4. statQ' \in Seq(Statuses)
  BY <1>2, <1>3
<1>5. new' \in GpsState
  BY <1>1 DEF TurnOff, TypeOK, GpsState
<1>6. foreign' \in BOOLEAN /\ dropped' \in BOOLEAN
  BY Zenon DEF TurnOff, Discarded, TypeOK
<1> QED BY <1>1, <1>4, <1>5, <1>6 DEF TurnOff, TypeOK

LEMMA TurnsOffType ==
  ASSUME TypeOK, TurnOff, Return,
         UNCHANGED <<ready, saved, options, waitForSleep, registration, cregOn,
                     port, events>>
  PROVE  TypeOK'
<1>1. /\ new' \in GpsState /\ gpsEnabled' \in Modes
      /\ modemMode' \in ModemModes
      /\ statQ' \in Seq(Statuses) /\ cfunQ' \in Seq(0..1)
      /\ cregQ' \in Seq(Networks)
      /\ foreign' \in BOOLEAN /\ dropped' \in BOOLEAN
  BY TurnOffType
<1>2. /\ pc' \in PCs
      /\ call' \in [mode : ModemModes, interval : Intervals,
                   ret : {"select", "opened", "clients", "states", "top"}]
  BY NoCallType DEF Return, TypeOK, PCs
<1>3. UNCHANGED <<current, suplFailed, portUndefined, conns, modemSupl,
                  modemShot, modemWdis, network, lost>>
  BY DEF TurnOff
<1> QED BY <1>1, <1>2, <1>3 DEF TypeOK, options

LEMMA CommandType ==
  ASSUME TypeOK, Command
  PROVE  TypeOK'
<1>1. CASE SetupSupl
  <2>1. /\ statQ' \in Seq(Statuses) /\ cfunQ' \in Seq(0..1)
        /\ cregQ' \in Seq(Networks) /\ dropped' \in BOOLEAN
    BY <1>1, DiscardType DEF SetupSupl, TypeOK, stream
  <2>2. /\ pc' \in PCs
        /\ call' \in [mode : ModemModes, interval : Intervals,
                     ret : {"select", "opened", "clients", "states", "top"}]
    BY <1>1 DEF SetupSupl, TypeOK, PCs, ModemModes
  <2>3. UNCHANGED <<ready, saved, options, priv, port, modem, events>>
    BY <1>1 DEF SetupSupl
  <2> QED BY <2>1, <2>2, <2>3 DEF TypeOK, options, priv, modem
<1>2. CASE EnableSupl
  <2>1. UNCHANGED <<ready, saved, options, port, events>>
    BY <1>2 DEF EnableSupl
  <2>2. CASE Enabled(SUPL_MODE)
    BY <2>1, <2>2, EnabledType
  <2>3. CASE /\ Discard /\ UNCHANGED <<priv, modem>>
             /\ pc' = "ctl" /\ call' = [call EXCEPT !.mode = STAND_ALONE_MODE]
    BY <2>1, <2>3, FallsBackType
  <2> QED BY <1>2, <2>2, <2>3 DEF EnableSupl
<1>3. CASE EnableStandAlone
  <2>1. UNCHANGED <<ready, saved, options, port, events>>
    BY <1>3 DEF EnableStandAlone
  <2>2. CASE Enabled(STAND_ALONE_MODE)
    BY <2>1, <2>2, EnabledType
  <2>3. CASE Discard /\ Return /\ UNCHANGED <<priv, modem>>
    BY <2>1, <2>3, FallsBackType
  <2> QED BY <1>3, <2>2, <2>3 DEF EnableStandAlone
<1>4. CASE EnableOff
  <2>1. TurnOff /\ Return
        /\ UNCHANGED <<ready, saved, options, waitForSleep, registration,
                       cregOn, port, events>>
    BY <1>4 DEF EnableOff
  <2> QED BY <2>1, TurnsOffType
<1>5. CASE DisableGps
  <2>1. CASE UNCHANGED <<priv, modem, stream>>
    BY <1>5, <2>1, NoCallType DEF DisableGps, Return, TypeOK, PCs, options,
       priv, modem, stream
  <2>2. CASE TurnOff /\ UNCHANGED <<waitForSleep, registration, cregOn>>
    <3>1. Return /\ UNCHANGED <<ready, saved, options, port, events>>
      BY <1>5 DEF DisableGps
    <3> QED BY <2>2, <3>1, TurnsOffType
  <2> QED BY <1>5, <2>1, <2>2 DEF DisableGps
<1> QED BY <1>1, <1>2, <1>3, <1>4, <1>5 DEF Command

LEMMA CallEnableType ==
  ASSUME TypeOK, NEW m \in ModemModes, NEW i \in Intervals,
         NEW ret \in {"select", "opened"}, CallEnable(m, i, ret)
  PROVE  /\ pc' \in {"setup", "ctl", "exit"}
         /\ call' \in [mode : ModemModes, interval : Intervals,
                      ret : {"select", "opened", "clients", "states", "top"}]
BY NoCallType DEF CallEnable

LEMMA HandleStatesType ==
  ASSUME TypeOK, HandleStates
  PROVE  TypeOK'
<1>1. Handled \in GpsState /\ ModeWanted \in ModemModes /\ UserDisabled \in BOOLEAN
  BY HandledType
<1>2. current' \in GpsState /\ new' \in GpsState /\ userDisabled' \in BOOLEAN
  BY <1>1 DEF HandleStates
<1>3. gpsEnabled' \in Modes
  BY DEF HandleStates, TypeOK, Modes
<1>4. suplFailed' \in BOOLEAN
  BY DEF HandleStates, TypeOK
<1>5. /\ pc' \in PCs
      /\ call' \in [mode : ModemModes, interval : Intervals,
                   ret : {"select", "opened", "clients", "states", "top"}]
  <2> DEFINE i == IF singleShot THEN 0 ELSE interval
  <2>1. i \in Intervals
    BY DEF TypeOK, Intervals
  <2>2. CASE CallEnable(ModeWanted, i, "select")
    <3> HIDE DEF i
    <3> QED BY <1>1, <2>1, <2>2, CallEnableType DEF PCs
  <2>3. CASE pc' \in {"disable", "select"} /\ call' = NoCall
    BY <2>3, NoCallType DEF PCs
  <2> QED BY <2>2, <2>3 DEF HandleStates
<1>6. UNCHANGED <<ready, saved, nmeaMode, singleShot, suspended, interval,
                  installCert, waitForSleep, registration, conns,
                  portUndefined, port, modem, stream, events>>
  BY DEF HandleStates
<1> QED BY <1>2, <1>3, <1>4, <1>5, <1>6 DEF TypeOK, modem, stream

LEMMA InstallCertificateType ==
  ASSUME TypeOK, InstallCertificate
  PROVE  TypeOK'
<1>1. /\ statQ' \in Seq(Statuses) /\ cfunQ' \in Seq(0..1)
      /\ cregQ' \in Seq(Networks) /\ dropped' \in BOOLEAN
  BY DiscardType DEF InstallCertificate, TypeOK, stream
<1>2. /\ pc' = "handle" /\ installCert' = FALSE
      /\ UNCHANGED <<call, ready, saved, nmeaMode, singleShot, userDisabled,
                     suspended, interval, priv, port, modem, events>>
  BY DEF InstallCertificate
<1>3. PrivTypes'
  BY <1>2, PrivKept DEF TypeOK
<1>4. ModemTypes'
  BY <1>2, ModemKept DEF TypeOK
<1>5. LoopTypes'
  BY <1>2 DEF TypeOK, PCs
<1>6. OptionTypes'
  BY <1>2 DEF TypeOK
<1>7. UNCHANGED <<port, events>>
  BY <1>2
<1> QED BY <1>1, <1>3, <1>4, <1>5, <1>6, <1>7 DEF TypeOK

LEMMA BeginWakeUpType ==
  ASSUME TypeOK, NEW ret \in {"states", "top"}, BeginWakeUp(ret),
         waitForSleep' \in BOOLEAN,
         ready' \in [opens : SUBSET Clients, hups : SUBSET Clients, ctrl : BOOLEAN],
         statQ' \in Seq(Statuses), cfunQ' \in Seq(0..1), cregQ' \in Seq(Networks),
         dropped' \in BOOLEAN
  PROVE  TypeOK'
<1>1. saved' \in Modes /\ gpsEnabled' \in Modes /\ pc' \in PCs
  BY DEF BeginWakeUp, TypeOK, Modes, PCs
<1>2. call' \in [mode : ModemModes, interval : Intervals,
                 ret : {"select", "opened", "clients", "states", "top"}]
  BY DEF BeginWakeUp, NoCall, ModemModes, Intervals
<1>3. UNCHANGED <<options, registration, conns, portUndefined, suplFailed,
                  current, new, port, modem, events>>
  BY DEF BeginWakeUp
<1> QED BY <1>1, <1>2, <1>3 DEF TypeOK, options, modem

LEMMA SuspendType ==
  ASSUME TypeOK, PrepareForSleep \/ Resume \/ FinishWakeUp \/ WakeUpFails
  PROVE  TypeOK'
<1>1. CASE PrepareForSleep
  <2>1. new' \in GpsState /\ gpsEnabled' \in Modes /\ modemMode' \in ModemModes
    BY <1>1 DEF PrepareForSleep, TypeOK, GpsState, Modes, ModemModes
  <2>2. /\ statQ' \in Seq(Statuses) /\ cfunQ' \in Seq(0..1)
        /\ cregQ' \in Seq(Networks)
    BY <1>1 DEF PrepareForSleep
  <2>3. /\ waitForSleep' \in BOOLEAN /\ registration' \in 0..6
        /\ cregOn' \in BOOLEAN /\ foreign' \in BOOLEAN /\ dropped' \in BOOLEAN
    <3>1. waitForSleep' \in BOOLEAN /\ cregOn' \in BOOLEAN
      BY <1>1, Zenon DEF PrepareForSleep
    <3>2. registration' = 0
      BY <1>1 DEF PrepareForSleep
    <3>3. foreign' \in BOOLEAN /\ dropped' \in BOOLEAN
      BY <1>1, Zenon DEF PrepareForSleep, Discarded, TypeOK
    <3> QED BY <3>1, <3>2, <3>3
  <2>4. UNCHANGED <<pc, call, ready, saved, options, conns, portUndefined,
                    suplFailed, current, modemSupl, modemShot, modemWdis,
                    network, lost, port, events>>
    BY <1>1 DEF PrepareForSleep, loopVars
  <2> QED BY <2>1, <2>2, <2>3, <2>4 DEF TypeOK, options
<1>2. CASE Resume
  <2>1. BeginWakeUp("states") /\ waitForSleep' = FALSE /\ UNCHANGED <<ready, stream>>
    BY <1>2 DEF Resume
  <2> QED BY <2>1, BeginWakeUpType DEF TypeOK, stream
<1>3. CASE FinishWakeUp
  <2>1. registration' \in 0..6
    BY <1>3, ConstantsOK DEF FinishWakeUp, RegistrationAfterInit, TypeOK,
       REGISTRATION_NOT_POSSIBLE
  <2>2. pc' \in PCs /\ saved' \in Modes /\ gpsEnabled' \in Modes
    BY <1>3 DEF FinishWakeUp, Return, TypeOK, PCs, Modes
  <2>3. call' \in [mode : ModemModes, interval : Intervals,
                   ret : {"select", "opened", "clients", "states", "top"}]
    BY <1>3, NoCallType DEF FinishWakeUp, Return
  <2>4. cregOn' \in BOOLEAN /\ lost' \in BOOLEAN /\ portUndefined' \in BOOLEAN
    BY <1>3 DEF FinishWakeUp
  <2>5. UNCHANGED <<ready, options, waitForSleep, conns, suplFailed, current,
                    new, port, modemMode, modemSupl, modemShot, modemWdis,
                    network, foreign, stream, events>>
    BY <1>3 DEF FinishWakeUp
  <2> QED BY <2>1, <2>2, <2>3, <2>4, <2>5 DEF TypeOK, options, stream
<1>4. CASE WakeUpFails
  BY <1>4 DEF WakeUpFails, TypeOK, PCs, options, priv, modem, stream
<1> QED BY <1>1, <1>2, <1>3, <1>4

LEMMA TurnType ==
  ASSUME TypeOK, Select \/ FirstOpen \/ NotifierDone
                   \/ NoControl \/ ReadControl \/ ControlLost
  PROVE  TypeOK'
<1>1. CASE Select
  BY <1>1 DEF Select, Opening, HungUp, Unread, TypeOK, PCs, options, priv,
     modem, stream
<1>2. CASE FirstOpen
  <2>1. nmeaMode \in ModemModes /\ interval \in Intervals
    BY ConstantsOK DEF TypeOK
  <2> QED BY <1>2, <2>1, CallEnableType DEF FirstOpen, TypeOK, PCs, options, priv,
          modem, stream
<1>3. CASE NotifierDone
  BY <1>3 DEF NotifierDone, TypeOK, PCs, options, priv, modem, stream
<1>4. CASE NoControl
  BY <1>4 DEF NoControl, Nothing, TypeOK, PCs, options, priv, modem, stream
<1>5. CASE ReadControl
  <2>1. /\ statQ' \in Seq(Statuses) /\ cfunQ' \in Seq(0..1)
        /\ cregQ' \in Seq(Networks)
    BY <1>5, StreamReadType DEF ReadControl
  <2>2. new \in GpsState /\ statQ \in Seq(Statuses)
    BY DEF TypeOK
  <2>3. new' \in GpsState /\ current' \in GpsState /\ registration' \in 0..6
    BY <1>5, <2>2, ParseType DEF ReadControl
  <2>4. ready' = Nothing /\ Nothing \in [opens : SUBSET Clients,
                                         hups : SUBSET Clients, ctrl : BOOLEAN]
    BY <1>5 DEF ReadControl, Nothing
  <2> QED BY <1>5, <2>1, <2>3, <2>4 DEF ReadControl, TypeOK, PCs, options, modem
<1>6. CASE ControlLost
  <2>1. /\ statQ' \in Seq(Statuses) /\ cfunQ' \in Seq(0..1)
        /\ cregQ' \in Seq(Networks) /\ dropped' \in BOOLEAN
    BY <1>6, DiscardType DEF ControlLost
  <2>2. BeginWakeUp("top") /\ ready' = Nothing /\ UNCHANGED waitForSleep
    BY <1>6 DEF ControlLost
  <2> QED BY <2>1, <2>2, BeginWakeUpType DEF Nothing, TypeOK
<1> QED BY <1>1, <1>2, <1>3, <1>4, <1>5, <1>6

LEMMA ClientSwitchesType ==
  ASSUME TypeOK, NEW m \in ModemModes, NEW shot \in BOOLEAN, ClientSwitches(m, shot)
  PROVE  /\ new' \in GpsState /\ current' \in GpsState /\ registration' \in 0..6
         /\ StreamTypes' /\ ModemTypes'
<1>0. /\ new \in GpsState /\ statQ \in Seq(Statuses)
      /\ dropped \in BOOLEAN /\ foreign \in BOOLEAN
  BY DEF TypeOK
<1>1. Change(m) \in Seq(Statuses)
  BY ChangeType
<1>2. statQ \o Change(m) \in Seq(Statuses) /\ <<>> \in Seq(Statuses)
  BY <1>0, <1>1
<1>3. /\ new' \in GpsState /\ current' \in GpsState /\ registration' \in 0..6
      /\ statQ' \in Seq(Statuses)
  <2>1. CASE Parse(new, statQ \o Change(m)) /\ statQ' = <<>>
    <3> DEFINE q == statQ \o Change(m)
    <3>1. q \in Seq(Statuses) /\ Parse(new, q)
      BY <1>2, <2>1
    <3> HIDE DEF q
    <3> QED BY <1>0, <1>2, <2>1, <3>1, ParseType
  <2>2. CASE Parse(new, statQ) /\ statQ' = Change(m)
    BY <1>0, <1>1, <2>2, ParseType
  <2> QED BY <2>1, <2>2 DEF ClientSwitches
<1>4. foreign' \in BOOLEAN /\ dropped' \in BOOLEAN
  BY Zenon DEF ClientSwitches
<1> QED BY <1>3, <1>4 DEF ClientSwitches, TypeOK

LEMMA ClientType ==
  ASSUME TypeOK, NEW c \in Clients,
         \/ CountOpen(c) \/ ClientGone(c) \/ ClientOpens(c) \/ ClientCloses(c)
         \/ ClientCommand(c)
  PROVE  TypeOK'
<1>1. CASE CountOpen(c)
  <2>1. /\ conns' \in Nat /\ pc' \in PCs
        /\ port' \in [Clients -> {"idle", "opening", "openhup", "attached", "hup"}]
    BY <1>1 DEF CountOpen, TypeOK, PCs
  <2>2. ready' \in [opens : SUBSET Clients, hups : SUBSET Clients, ctrl : BOOLEAN]
    BY <1>1 DEF CountOpen, TypeOK
  <2>3. UNCHANGED <<call, saved, options, waitForSleep, registration,
                    portUndefined, suplFailed, gpsEnabled, current, new, modem,
                    stream, events>>
    BY <1>1 DEF CountOpen
  <2> QED BY <2>1, <2>2, <2>3 DEF TypeOK, options, modem, stream
<1>2. CASE ClientGone(c)
  <2>1. /\ conns' \in Nat /\ pc' \in PCs
        /\ port' \in [Clients -> {"idle", "opening", "openhup", "attached", "hup"}]
    BY <1>2 DEF ClientGone, TypeOK, PCs
  <2>2. ready' \in [opens : SUBSET Clients, hups : SUBSET Clients, ctrl : BOOLEAN]
    BY <1>2 DEF ClientGone, TypeOK
  <2>3. call' \in [mode : ModemModes, interval : Intervals,
                   ret : {"select", "opened", "clients", "states", "top"}]
    BY <1>2 DEF ClientGone, NoCall, TypeOK, ModemModes, Intervals
  <2>4. UNCHANGED <<saved, options, waitForSleep, registration, portUndefined,
                    suplFailed, gpsEnabled, current, new, modem, stream, events>>
    BY <1>2 DEF ClientGone
  <2> QED BY <2>1, <2>2, <2>3, <2>4 DEF TypeOK, options, modem, stream
<1>3. CASE ClientOpens(c)
  BY <1>3 DEF ClientOpens, Event, TypeOK, loopVars, options, priv, modem, stream
<1>4. CASE ClientCloses(c)
  BY <1>4 DEF ClientCloses, Event, TypeOK, loopVars, options, priv, modem, stream
<1>5. CASE ClientCommand(c)
  <2>1. /\ new' \in GpsState /\ current' \in GpsState /\ registration' \in 0..6
        /\ StreamTypes' /\ ModemTypes'
    <3>1. CASE Parse(new, statQ) /\ StreamRead /\ UNCHANGED <<modem, dropped>>
      BY <3>1, StreamReadType, ParseType, ModemKept DEF TypeOK
    <3>2. CASE \E m \in ModemModes, shot \in BOOLEAN : ClientSwitches(m, shot)
      <4>1. PICK m \in ModemModes, shot \in BOOLEAN : ClientSwitches(m, shot)
        BY <3>2
      <4> HIDE DEF ModemTypes, StreamTypes
      <4> QED BY <4>1, ClientSwitchesType
    <3> QED BY <1>5, <3>1, <3>2 DEF ClientCommand
  <2>2. events' = events + 1 /\ UNCHANGED <<loopVars, options, waitForSleep,
          conns, portUndefined, suplFailed, gpsEnabled, port>>
    BY <1>5 DEF ClientCommand
  <2>3. LoopTypes' /\ OptionTypes' /\ PrivTypes'
    BY <2>1, <2>2, LoopKept, OptionsKept DEF TypeOK
  <2>4. /\ port' \in [Clients -> {"idle", "opening", "openhup", "attached", "hup"}]
        /\ events' \in Nat
    BY <2>2 DEF TypeOK
  <2> HIDE DEF LoopTypes, OptionTypes, PrivTypes, ModemTypes, StreamTypes
  <2> QED BY <2>1, <2>3, <2>4 DEF TypeOK
<1> QED BY <1>1, <1>2, <1>3, <1>4, <1>5

LEMMA DBusType ==
  ASSUME TypeOK, DBus
  PROVE  TypeOK'
<1>1. ASSUME NEW m \in PrefModes, SetPrefGpsMode(m)
      PROVE  TypeOK'
  BY <1>1 DEF SetPrefGpsMode, Event, TypeOK, loopVars, priv, modem, stream
<1>2. ASSUME NEW b \in BOOLEAN, SetSingleShot(b)
      PROVE  TypeOK'
  BY <1>2 DEF SetSingleShot, Event, TypeOK, loopVars, priv, modem, stream
<1>3. ASSUME NEW b \in BOOLEAN, SetGpsEnabled(b)
      PROVE  TypeOK'
  BY <1>3 DEF SetGpsEnabled, Event, TypeOK, loopVars, priv, modem, stream
<1>4. ASSUME NEW b \in BOOLEAN, SetSuspend(b)
      PROVE  TypeOK'
  BY <1>4 DEF SetSuspend, Event, TypeOK, loopVars, priv, modem, stream
<1>5. ASSUME NEW i \in Intervals, SetFixInterval(i)
      PROVE  TypeOK'
  BY <1>5 DEF SetFixInterval, Event, TypeOK, loopVars, priv, modem, stream
<1>6. CASE SuplInstallCertificate
  BY <1>6 DEF SuplInstallCertificate, Event, TypeOK, loopVars, priv, modem, stream
<1> QED BY <1>1, <1>2, <1>3, <1>4, <1>5, <1>6 DEF DBus

LEMMA ReportType ==
  ASSUME TypeOK, NEW m \in ModemModes, NEW s \in 0..1, Report(Status(m, s))
  PROVE  statQ' \in Seq(Statuses) /\ dropped' = FALSE
<1>1. Status(m, s) \in Statuses
  BY DEF Status, Statuses
<1> QED BY <1>1 DEF Report, TypeOK

LEMMA ModemType ==
  ASSUME TypeOK, \/ SuplStops \/ ShotFixed \/ StatusChanges \/ SwitchTurns
                 \/ DeviceLost \/ \E n \in Networks : NetworkChanges(n)
  PROVE  TypeOK'
<1>1. OFF \in ModemModes /\ 0 \in 0..1 /\ 1 \in 0..1
  BY DEF ModemModes
<1>2. ASSUME NEW s \in 0..1, StopsItself(s)
      PROVE  TypeOK'
  <2>1. statQ' \in Seq(Statuses) /\ dropped' \in BOOLEAN
    <3>1. CASE Report(Status(OFF, s))
      BY <1>1, <3>1, ReportType
    <3>2. CASE statQ' = statQ /\ dropped' = TRUE
      BY <3>2 DEF TypeOK
    <3>3. Report(Status(OFF, s)) \/ (statQ' = statQ /\ dropped' = TRUE)
      BY <1>2 DEF StopsItself
    <3> QED BY <3>1, <3>2, <3>3
  <2>2. /\ events' = events + 1 /\ modemMode' = OFF /\ modemSupl' = s
        /\ foreign' = FALSE
        /\ UNCHANGED <<loopVars, options, priv, port, modemShot, modemWdis,
                       network, cregOn, lost, cfunQ, cregQ>>
    BY <1>2 DEF StopsItself, Event
  <2>3. LoopTypes' /\ OptionTypes' /\ PrivTypes'
    BY <2>2, LoopKept, OptionsKept, PrivKept DEF TypeOK
  <2>4. ModemTypes' /\ StreamTypes'
    BY <1>1, <2>1, <2>2 DEF TypeOK
  <2>5. /\ port' \in [Clients -> {"idle", "opening", "openhup", "attached", "hup"}]
        /\ events' \in Nat
    BY <2>2 DEF TypeOK
  <2> HIDE DEF LoopTypes, OptionTypes, PrivTypes, ModemTypes, StreamTypes
  <2> QED BY <2>3, <2>4, <2>5 DEF TypeOK
<1>3. CASE SuplStops \/ ShotFixed
  BY <1>1, <1>2, <1>3 DEF SuplStops, ShotFixed, TypeOK
<1>4. CASE StatusChanges
  <2>1. modemMode \in ModemModes /\ modemSupl \in 0..1
    BY DEF TypeOK
  <2>2. statQ' \in Seq(Statuses) /\ dropped' = FALSE
    BY <1>4, <2>1, ReportType DEF StatusChanges
  <2>3. /\ events' = events + 1
        /\ UNCHANGED <<loopVars, options, priv, port, modem, cfunQ, cregQ>>
    BY <1>4 DEF StatusChanges, Event
  <2>4. LoopTypes' /\ OptionTypes' /\ PrivTypes'
    BY <2>3, LoopKept, OptionsKept, PrivKept DEF TypeOK
  <2>5. ModemTypes' /\ StreamTypes'
    BY <1>1, <2>2, <2>3, ModemKept DEF TypeOK
  <2>6. /\ port' \in [Clients -> {"idle", "opening", "openhup", "attached", "hup"}]
        /\ events' \in Nat
    BY <2>3 DEF TypeOK
  <2> HIDE DEF LoopTypes, OptionTypes, PrivTypes, ModemTypes, StreamTypes
  <2> QED BY <2>4, <2>5, <2>6 DEF TypeOK
<1>5. CASE SwitchTurns
  <2>1. modemWdis' \in 0..1
    BY <1>5 DEF SwitchTurns, TypeOK
  <2>2. cfunQ' \in Seq(0..1)
    BY <1>5, <2>1 DEF SwitchTurns, TypeOK
  <2> QED BY <1>5, <2>1, <2>2 DEF SwitchTurns, Event, TypeOK, loopVars, options, priv
<1>6. CASE DeviceLost
  <2>1. /\ events' = events + 1 /\ modemMode' = OFF
        /\ lost' = TRUE /\ foreign' = FALSE
        /\ UNCHANGED <<loopVars, options, priv, port, modemSupl, modemShot,
                       modemWdis, network, cregOn, stream>>
    BY <1>6 DEF DeviceLost, Event
  <2>2. LoopTypes' /\ OptionTypes' /\ PrivTypes'
    BY <2>1, LoopKept, OptionsKept, PrivKept DEF TypeOK
  <2>3. ModemTypes' /\ StreamTypes'
    BY <1>1, <2>1 DEF TypeOK, stream
  <2>4. /\ port' \in [Clients -> {"idle", "opening", "openhup", "attached", "hup"}]
        /\ events' \in Nat
    BY <2>1 DEF TypeOK
  <2> HIDE DEF LoopTypes, OptionTypes, PrivTypes, ModemTypes, StreamTypes
  <2> QED BY <2>2, <2>3, <2>4 DEF TypeOK
<1>7. ASSUME NEW n \in Networks, NetworkChanges(n)
      PROVE  TypeOK'
  <2>1. cregQ' \in Seq(Networks)
    <3>1. cregQ \in Seq(Networks)
      BY DEF TypeOK
    <3>2. cregQ' = Append(cregQ, n) \/ cregQ' = cregQ
      BY <1>7 DEF NetworkChanges
    <3> QED BY <1>7, <3>1, <3>2
  <2> QED BY <1>7, <2>1 DEF NetworkChanges, Event, TypeOK, loopVars, options, priv
<1> QED BY <1>3, <1>4, <1>5, <1>6, <1>7

LEMMA InitType ==
  ASSUME Init
  PROVE  TypeOK
<1>1. registration \in 0..6
  BY ConstantsOK DEF Init, RegistrationAfterInit, REGISTRATION_NOT_POSSIBLE
<1>2. current \in GpsState /\ new \in GpsState /\ gpsEnabled \in Modes
      /\ saved \in Modes /\ modemMode \in ModemModes
  BY DEF Init, GpsState, Modes, ModemModes
<1>3. /\ call \in [mode : ModemModes, interval : Intervals,
                  ret : {"select", "opened", "clients", "states", "top"}]
      /\ ready \in [opens : SUBSET Clients, hups : SUBSET Clients, ctrl : BOOLEAN]
  BY NoCallType DEF Init, Nothing
<1>4. port \in [Clients -> {"idle", "opening", "openhup", "attached", "hup"}]
  BY DEF Init
<1>5. statQ \in Seq(Statuses) /\ cfunQ \in Seq(0..1) /\ cregQ \in Seq(Networks)
  BY DEF Init
<1>6. /\ singleShot \in BOOLEAN /\ userDisabled \in BOOLEAN
      /\ suspended \in BOOLEAN /\ waitForSleep \in BOOLEAN
      /\ portUndefined \in BOOLEAN /\ suplFailed \in BOOLEAN
      /\ modemShot \in BOOLEAN /\ cregOn \in BOOLEAN /\ lost \in BOOLEAN
      /\ installCert \in BOOLEAN /\ foreign \in BOOLEAN /\ dropped \in BOOLEAN
  BY DEF Init
<1>7. /\ pc \in PCs /\ nmeaMode \in PrefModes /\ network \in Networks
      /\ conns \in Nat /\ events \in Nat
      /\ modemSupl \in 0..1 /\ modemWdis \in 0..1 /\ interval \in Intervals
  BY DEF Init, PCs, Intervals
<1> QED
  BY <1>1, <1>2, <1>3, <1>4, <1>5, <1>6, <1>7 DEF TypeOK

LEMMA NextType ==
  ASSUME TypeOK, [Next]_vars
  PROVE  TypeOK'
<1>1. CASE Loop
  BY <1>1, CommandType, InstallCertificateType, HandleStatesType, SuspendType,
     TurnType, ClientType DEF Loop
<1>2. CASE DBus
  BY <1>2, DBusType
<1>3. CASE World
  BY <1>3, ClientType, ModemType DEF World
<1>4. CASE UNCHANGED vars
  BY <1>4 DEF vars, loopVars, options, priv, modem, stream, TypeOK
<1> QED BY <1>1, <1>2, <1>3, <1>4 DEF Next

\* Every variable keeps its type: in particular no turn of the loop, and no
\* unsolicited response it reads, takes a mode or the registration state out
\* of the values the code switches on (modem_check_and_handle_gps_states).
THEOREM TypeCorrect == Spec => []TypeOK
<1>1. Init => TypeOK
  BY InitType
<1>2. TypeOK /\ [Next]_vars => TypeOK'
  BY NextType
<1> QED BY <1>1, <1>2, PTL DEF Spec

-----------------------------------------------------------------------------
(* Without a counted client the loop takes the GPS to be off.              *)

\* What makes NoClientsNoGps inductive: where the loop stands decides what
\* gps_enabled may be.  In the middle of modem_enable_gps it may be anything,
\* but only the first client's open calls that without a client counted, and
\* counts one next; modem_disable_gps makes it OFF; a wake-up restores it.
QuietInv ==
  conns = 0 =>
    /\ pc \in {"top", "states", "handle", "select", "notifier", "clients"}
         => gpsEnabled = OFF
    /\ pc \in {"setup", "suplctl", "ctl"} => call.ret = "opened"
    /\ pc = "waking" => saved = OFF

LEMMA QuietStep ==
  ASSUME TypeOK, QuietInv, [Next]_vars
  PROVE  QuietInv'
<1> USE DEF QuietInv
<1>1. CASE SetupSupl
  BY <1>1 DEF SetupSupl, priv, TypeOK
<1>2. ASSUME NEW m \in {STAND_ALONE_MODE, SUPL_MODE}, Enabled(m),
             pc \in {"suplctl", "ctl"}, saved' = saved
      PROVE  QuietInv'
  BY <1>2 DEF Enabled, Return
<1>3. CASE EnableSupl
  BY <1>2, <1>3 DEF EnableSupl, priv, TypeOK
<1>4. CASE EnableStandAlone
  BY <1>2, <1>4 DEF EnableStandAlone, Return, priv
<1>5. CASE EnableOff
  BY <1>5 DEF EnableOff, TurnOff, Return
<1>6. CASE DisableGps
  <2>1. gpsEnabled' = OFF /\ conns' = conns /\ pc' = call.ret
    BY <1>6 DEF DisableGps, TurnOff, Return, priv
  <2>2. call.ret \notin {"setup", "suplctl", "ctl", "waking"}
    BY DEF TypeOK
  <2> QED BY <2>1, <2>2
<1>7. CASE HandleStates
  <2>1. ASSUME conns = 0
        PROVE  ~Wanted /\ gpsEnabled = OFF
    BY <1>7, <2>1 DEF HandleStates, AtHandler, Wanted
  <2>2. ASSUME conns = 0, Handled.mode = OFF
        PROVE  ~WaitsForRegistration
    BY <2>2 DEF Handled, OFF, SUPL_WAITING_FOR_REGISTRATION, TypeOK, GpsState
  <2>3. conns' = conns
    BY <1>7 DEF HandleStates
  <2>4. ASSUME conns = 0
        PROVE  pc' = "disable" \/ (pc' = "select" /\ Handled.mode = OFF)
    BY <1>7, <2>1, <2>4 DEF HandleStates
  <2>5. ASSUME conns = 0, pc' = "select", Handled.mode = OFF
        PROVE  gpsEnabled' = OFF
    BY <1>7, <2>1, <2>2, <2>5 DEF HandleStates
  <2> QED BY <2>3, <2>4, <2>5
<1>7a. CASE InstallCertificate
  BY <1>7a DEF InstallCertificate, AtHandler, priv
<1>8. CASE PrepareForSleep
  BY <1>8 DEF PrepareForSleep, loopVars
<1>9. CASE Resume \/ ControlLost
  BY <1>9 DEF Resume, ControlLost, BeginWakeUp
<1>10. CASE FinishWakeUp
  <2>1. call.ret \notin {"setup", "suplctl", "ctl", "waking"}
    BY DEF TypeOK
  <2> QED BY <1>10, <2>1 DEF FinishWakeUp, Return
<1>11. CASE WakeUpFails
  BY <1>11 DEF WakeUpFails, priv
<1>12. CASE Select \/ NotifierDone \/ NoControl \/ ReadControl
  BY <1>12 DEF Select, NotifierDone, NoControl, ReadControl, priv
<1>13. CASE FirstOpen
  BY <1>13 DEF FirstOpen, CallEnable, priv
<1>14. ASSUME NEW c \in Clients, CountOpen(c)
       PROVE  QuietInv'
  BY <1>14 DEF CountOpen, TypeOK
<1>15. ASSUME NEW c \in Clients, ClientGone(c)
       PROVE  QuietInv'
  BY <1>15 DEF ClientGone, TypeOK
<1>16. CASE DBus
  BY <1>16 DEF DBus, SetPrefGpsMode, SetSingleShot, SetGpsEnabled, SetSuspend,
     SetFixInterval, SuplInstallCertificate, loopVars, priv
<1>17. CASE World
  BY <1>17 DEF World, ClientOpens, ClientCloses, ClientCommand, SuplStops,
     ShotFixed, StopsItself, StatusChanges, SwitchTurns, DeviceLost,
     NetworkChanges, loopVars, priv
<1>18. CASE UNCHANGED vars
  BY <1>18 DEF vars, loopVars, priv
<1> QED
  BY <1>1, <1>3, <1>4, <1>5, <1>6, <1>7, <1>7a, <1>8, <1>9, <1>10, <1>11,
     <1>12, <1>13, <1>14, <1>15, <1>16, <1>17, <1>18 DEF Next, Loop, Command

\* Whenever main_loop waits and counts no client, gps_enabled is OFF, with any
\* number of clients, with ERROR answers, suspends and losses of the device.
THEOREM NoClientsOff == Spec => []NoClientsNoGps
<1>1. Init => TypeOK /\ QuietInv
  BY InitType DEF Init, QuietInv
<1>2. TypeOK /\ QuietInv /\ [Next]_vars => TypeOK' /\ QuietInv'
  BY NextType, QuietStep
<1>3. TypeOK /\ QuietInv => NoClientsNoGps
  BY DEF QuietInv, NoClientsNoGps
<1> QED BY <1>1, <1>2, <1>3, PTL DEF Spec

-----------------------------------------------------------------------------
(* What gps_enabled says of the modem, when no command is refused and the  *)
(* single-shot mode is not used.                                           *)

Obliging == Replies = {"OK"} /\ "shot" \notin Env

\* What makes OffMeansOff and NmeaPortDefined inductive: the single-shot flag
\* stays down, and a modem that is about to be initialised again, after a
\* suspend or because it was lost, is off already, or on by a client's command.
PowerInv ==
  /\ ~singleShot
  /\ OffMeansOff
  /\ NmeaPortDefined
  /\ waitForSleep => pc = "top" /\ (modemMode = OFF \/ foreign)
  /\ pc = "waking" => modemMode = OFF \/ foreign
  /\ lost => modemMode = OFF

LEMMA PowerStep ==
  ASSUME Obliging, TypeOK, PowerInv, [Next]_vars
  PROVE  PowerInv'
<1> USE DEF PowerInv, OffMeansOff, NmeaPortDefined, Obliging
<1>0. Modes = {OFF, STAND_ALONE_MODE, SUPL_MODE, GPS_WAKING_UP,
               SUPL_WAITING_FOR_REGISTRATION}
      /\ STAND_ALONE_MODE # OFF /\ SUPL_MODE # OFF /\ GPS_WAKING_UP # OFF
      /\ SUPL_WAITING_FOR_REGISTRATION # OFF
  BY DEF Modes, OFF, STAND_ALONE_MODE, SUPL_MODE, GPS_WAKING_UP,
     SUPL_WAITING_FOR_REGISTRATION
<1>a. call.ret # "waking"
  BY DEF TypeOK
<1>1. CASE SetupSupl
  BY <1>1 DEF SetupSupl, priv, modem, options
<1>2. ASSUME NEW m \in {STAND_ALONE_MODE, SUPL_MODE}, Enabled(m),
             pc \in {"suplctl", "ctl"}, ~lost, UNCHANGED options
      PROVE  PowerInv'
  BY <1>0, <1>a, <1>2 DEF Enabled, Return, options
<1>3. CASE EnableSupl
  BY <1>2, <1>3 DEF EnableSupl
<1>4. CASE EnableStandAlone
  BY <1>2, <1>4 DEF EnableStandAlone
<1>5. ASSUME TurnOff, ~waitForSleep, UNCHANGED <<options, waitForSleep>>, pc' # "waking"
      PROVE  PowerInv'
  BY <1>5 DEF TurnOff, options
<1>6. CASE EnableOff
  BY <1>a, <1>5, <1>6 DEF EnableOff, Return
<1>7. CASE DisableGps
  <2>1. CASE UNCHANGED <<priv, modem, stream>>
    BY <1>7, <1>a, <2>1 DEF DisableGps, Return, priv, modem, options
  <2>2. CASE TurnOff /\ UNCHANGED <<waitForSleep, registration, cregOn>>
    BY <1>7, <1>a, <1>5, <2>2 DEF DisableGps, Return
  <2> QED BY <1>7, <2>1, <2>2 DEF DisableGps
<1>8. CASE HandleStates
  <2>1. gpsEnabled' \in {SUPL_WAITING_FOR_REGISTRATION, gpsEnabled}
    BY <1>8 DEF HandleStates, ShotDone
  <2>2. pc' # "waking" /\ ~waitForSleep' /\ ~singleShot'
        /\ UNCHANGED <<modem, portUndefined>>
    <3>1. pc \in {"handle", "states", "top"} /\ (pc = "top" => ~waitForSleep)
      BY <1>8 DEF HandleStates, AtHandler
    <3>2. pc' # "waking"
      BY <1>8 DEF HandleStates, CallEnable
    <3>3. UNCHANGED <<waitForSleep, singleShot, modem, portUndefined>>
      BY <1>8 DEF HandleStates
    <3> QED BY <3>1, <3>2, <3>3
  <2> QED BY <1>0, <2>1, <2>2 DEF modem
<1>8a. CASE InstallCertificate
  BY <1>8a DEF InstallCertificate, AtHandler, priv, modem
<1>9. CASE PrepareForSleep
  BY <1>9 DEF PrepareForSleep, loopVars, options
<1>10. CASE Resume \/ ControlLost
  BY <1>0, <1>10 DEF Resume, ControlLost, BeginWakeUp, options, modem
<1>11. CASE FinishWakeUp
  BY <1>a, <1>11 DEF FinishWakeUp, Return, options
<1>12. CASE WakeUpFails
  BY <1>12 DEF WakeUpFails, options, priv, modem
<1>13. CASE Select \/ NotifierDone \/ NoControl \/ ReadControl
  BY <1>13 DEF Select, NotifierDone, NoControl, ReadControl, options, priv, modem
<1>14. CASE FirstOpen
  BY <1>14 DEF FirstOpen, CallEnable, options, priv, modem
<1>15. ASSUME NEW c \in Clients, CountOpen(c) \/ ClientGone(c)
       PROVE  PowerInv'
  BY <1>15 DEF CountOpen, ClientGone, options, modem
<1>16. CASE DBus
  BY <1>16 DEF DBus, SetPrefGpsMode, SetSingleShot, SetGpsEnabled, SetSuspend,
     SetFixInterval, SuplInstallCertificate, loopVars, priv, modem
<1>17. CASE World
  <2>1. ASSUME NEW c \in Clients, ClientCommand(c)
        PROVE  PowerInv'
    <3>1. pc = "clients" /\ ~lost
          /\ UNCHANGED <<pc, singleShot, waitForSleep, gpsEnabled, portUndefined>>
      BY <2>1 DEF ClientCommand, loopVars, options, ClientSwitches
    <3>2. /\ lost' = lost
          /\ modemMode' = OFF \/ foreign' \/ (modemMode # OFF /\ ~foreign)
                             \/ UNCHANGED <<modemMode, foreign>>
      BY <2>1 DEF ClientCommand, ClientSwitches, modem
    <3> QED BY <3>1, <3>2
  <2>2. CASE SuplStops \/ ShotFixed
    BY <2>2 DEF SuplStops, ShotFixed, StopsItself, loopVars, options, priv
  <2> QED BY <1>17, <2>1, <2>2 DEF World, ClientOpens, ClientCloses,
     StatusChanges, SwitchTurns, DeviceLost, NetworkChanges, Reporting, loopVars,
     options, priv, modem
<1>18. CASE UNCHANGED vars
  BY <1>18 DEF vars, loopVars, options, priv, modem
<1> QED
  BY <1>1, <1>3, <1>4, <1>6, <1>7, <1>8, <1>8a, <1>9, <1>10, <1>11, <1>12,
     <1>13, <1>14, <1>15, <1>16, <1>17, <1>18 DEF Next, Loop, Command

LEMMA PowerCorrect ==
  ASSUME Obliging
  PROVE  Spec => [](TypeOK /\ PowerInv)
<1>1. Init => TypeOK /\ PowerInv
  BY InitType DEF Init, PowerInv, OffMeansOff, NmeaPortDefined
<1>2. TypeOK /\ PowerInv /\ [Next]_vars => TypeOK' /\ PowerInv'
  BY NextType, PowerStep
<1> QED BY <1>1, <1>2, PTL DEF Spec

\* modem_disable_gps may trust gps_enabled: OFF means that the modem's GPS is
\* off, through enables, wake-ups and losses of the device, or that a client's
\* own AT*E2GPSCTL, which stores no gps_enabled, has switched it on.
THEOREM OffIsOff ==
  ASSUME Obliging
  PROVE  Spec => []OffMeansOff
<1>1. PowerInv => OffMeansOff
  BY DEF PowerInv
<1> QED BY <1>1, PowerCorrect, PTL

\* A GPS that the daemon has switched on never runs without its NMEA port
\* defined since the modem was last initialised (modem_set_gps_port).
THEOREM NmeaPortIsDefined ==
  ASSUME Obliging
  PROVE  Spec => []NmeaPortDefined
<1>1. PowerInv => NmeaPortDefined
  BY DEF PowerInv
<1> QED BY <1>1, PowerCorrect, PTL

\* With no client counted the modem's GPS itself is off when main_loop waits,
\* unless a client has switched it on by a command of its own: the daemon's
\* view and the modem's state, put together.
THEOREM NoClientsGpsOff ==
  ASSUME Obliging
  PROVE  Spec => []NoClientsModemOff
<1>1. OffMeansOff /\ NoClientsNoGps => NoClientsModemOff
  BY DEF OffMeansOff, NoClientsNoGps, NoClientsModemOff
<1> QED BY <1>1, OffIsOff, NoClientsOff, PTL
-----------------------------------------------------------------------------
(* What the daemon has been told, and has not read yet, of the modem's mode. *)

\* The mode the daemon takes the modem to be in once it has read all there is.
LastTold == IF statQ = <<>> THEN new.mode ELSE statQ[Len(statQ)].mode

\* A modem that is on is known to be on, or is reported to be, unless what it
\* reported was never parsed and it has said nothing since.
ToldInv ==
  modemMode # OFF /\ (statQ # <<>> \/ ~dropped) => LastTold # OFF

\* What the modem appends is what is then told last, and hides nothing.
LEMMA ReportTold ==
  ASSUME TypeOK, NEW m \in ModemModes, NEW s \in 0..1, Report(Status(m, s))
  PROVE  /\ statQ' # <<>> /\ LastTold' = m /\ dropped' = FALSE
         /\ \A i \in 1..Len(statQ) : i \in 1..Len(statQ') /\ statQ'[i] = statQ[i]
<1>1. Status(m, s) \in Statuses /\ Status(m, s).mode = m
  BY DEF Status, Statuses
<1>2. /\ statQ \in Seq(Statuses) /\ statQ' = Append(statQ, Status(m, s))
      /\ dropped' = FALSE
  BY DEF Report, TypeOK
<1>3. /\ Len(statQ) \in Nat /\ Len(statQ') = Len(statQ) + 1
      /\ statQ' # <<>> /\ statQ'[Len(statQ')] = Status(m, s)
  BY <1>1, <1>2
<1>4. \A i \in 1..Len(statQ) : i \in 1..Len(statQ') /\ statQ'[i] = statQ[i]
  BY <1>1, <1>2, <1>3
<1> QED BY <1>1, <1>2, <1>3, <1>4 DEF LastTold

\* Parsing all that is unread makes what was told last the new state's mode,
\* and leaves the w_disable that was last handled alone.
LEMMA ParseTold ==
  ASSUME TypeOK, NEW n \in GpsState, NEW q \in Seq(Statuses), Parse(n, q)
  PROVE  /\ new'.mode = IF q = <<>> THEN n.mode ELSE q[Len(q)].mode
         /\ current'.wdis = current.wdis
BY DEF Parse, ParsedNew, ParsedCurrent, TypeOK, GpsState

\* A command that takes the modem to mode m, its report parsed with the answer
\* or left unread, makes m what was told last; when it was m already nothing is
\* reported, and what was unread stays the last word.
LEMMA SwitchedTold ==
  ASSUME TypeOK, NEW m \in ModemModes, NEW n \in GpsState,
         \/ Parse(n, statQ \o Change(m)) /\ statQ' = <<>>
         \/ Parse(n, statQ) /\ statQ' = Change(m)
  PROVE  /\ current'.wdis = current.wdis
         /\ modemMode # m => LastTold' = m
         /\ modemMode = m => /\ statQ' = <<>>
                             /\ LastTold' = IF statQ = <<>> THEN n.mode
                                            ELSE statQ[Len(statQ)].mode
<1>3. statQ \in Seq(Statuses) /\ Change(m) \in Seq(Statuses)
  BY ChangeType DEF TypeOK
<1>4. CASE modemMode = m
  <2>1. Change(m) = <<>>
    BY <1>4 DEF Change
  <2>2. statQ \o Change(m) = statQ
    BY <1>3, <2>1
  <2>3. Parse(n, statQ) /\ statQ' = <<>>
    BY <2>1, <2>2
  <2> QED BY <1>3, <1>4, <2>3, ParseTold DEF LastTold
<1>5. CASE modemMode # m
  <2>1. Change(m) = <<Status(m, 0)>> /\ Status(m, 0).mode = m
        /\ Status(m, 0) \in Statuses
    BY <1>5 DEF Change, Status, Statuses
  <2>2. CASE Parse(n, statQ \o Change(m)) /\ statQ' = <<>>
    <3>1. ASSUME NEW q \in Seq(Statuses), NEW x \in Statuses
          PROVE  q \o <<x>> # <<>> /\ (q \o <<x>>)[Len(q \o <<x>>)] = x
                 /\ q \o <<x>> \in Seq(Statuses)
      OBVIOUS
    <3> DEFINE r == statQ \o Change(m)
    <3>2. r # <<>> /\ r[Len(r)].mode = m /\ r \in Seq(Statuses)
      BY <1>3, <2>1, <3>1
    <3> HIDE DEF r
    <3>3. Parse(n, r)
      BY <2>2 DEF r
    <3> QED BY <1>5, <2>2, <3>2, <3>3, ParseTold DEF LastTold
  <2>3. CASE Parse(n, statQ) /\ statQ' = Change(m)
    <3>1. current'.wdis = current.wdis
      BY <1>3, <2>3, ParseTold
    <3>2. statQ' = <<Status(m, 0)>>
      BY <2>1, <2>3
    <3>3. statQ' # <<>> /\ statQ'[Len(statQ')] = Status(m, 0)
      BY <3>2
    <3> QED BY <1>5, <2>1, <3>1, <3>3 DEF LastTold
  <2> QED BY <2>2, <2>3
<1> QED BY <1>4, <1>5

\* After a mode was enabled the modem is known, or reported, to be on.
LEMMA EnabledTold ==
  ASSUME TypeOK, ToldInv, NEW m \in {STAND_ALONE_MODE, SUPL_MODE}, Enabled(m)
  PROVE  /\ m # OFF /\ modemMode' = m /\ gpsEnabled' = m
         /\ ~dropped' /\ ~foreign'
         /\ LastTold' # OFF /\ current'.wdis = current.wdis
<1>1. /\ m # OFF /\ m \in ModemModes /\ modemMode' = m /\ gpsEnabled' = m
      /\ dropped' = FALSE /\ foreign' = FALSE
  BY DEF Enabled, OFF, STAND_ALONE_MODE, SUPL_MODE, ModemModes
<1> DEFINE n == [new EXCEPT !.mode = m]
<1>2. n \in GpsState /\ n.mode = m
  BY <1>1 DEF ModemModes, GpsState, Modes, TypeOK
<1>3. \/ Parse(n, statQ \o Change(m)) /\ statQ' = <<>>
      \/ Parse(n, statQ) /\ statQ' = Change(m)
  BY DEF Enabled
<1> HIDE DEF n
<1>4. /\ current'.wdis = current.wdis
      /\ modemMode # m => LastTold' = m
      /\ modemMode = m => LastTold' = IF statQ = <<>> THEN n.mode
                                      ELSE statQ[Len(statQ)].mode
  BY <1>1, <1>2, <1>3, SwitchedTold
<1>5. modemMode = m /\ statQ # <<>> => statQ[Len(statQ)].mode # OFF
  BY <1>1 DEF ToldInv, LastTold
<1> QED BY <1>1, <1>2, <1>4, <1>5

LEMMA ToldStep ==
  ASSUME Obliging, TypeOK, PowerInv, ToldInv, [Next]_vars
  PROVE  ToldInv'
<1>0. OFF \in ModemModes /\ 0 \in 0..1 /\ 1 \in 0..1
  BY DEF ModemModes
<1>b. SUPL_WAITING_FOR_REGISTRATION # OFF
  BY DEF OFF, SUPL_WAITING_FOR_REGISTRATION
<1>c. ASSUME UNCHANGED <<modemMode, statQ, new, dropped>>
      PROVE  ToldInv'
  BY <1>c DEF ToldInv, LastTold
<1>d. ASSUME modemMode' = OFF
      PROVE  ToldInv'
  BY <1>d DEF ToldInv
<1>e. ASSUME Parse(new, statQ), statQ' = <<>>, UNCHANGED <<modemMode, dropped>>
      PROVE  ToldInv'
  <2>1. new'.mode = LastTold
    BY <1>e, ParseTold DEF LastTold, TypeOK
  <2> QED BY <1>e, <2>1 DEF ToldInv, LastTold
<1>f. ASSUME Discard, UNCHANGED <<modemMode, new>>
      PROVE  ToldInv'
  <2>1. statQ' = <<>> /\ (dropped' <=> (dropped \/ statQ # <<>>))
    BY <1>f, Zenon DEF Discard, Discarded, StreamRead
  <2> QED BY <1>f, <2>1 DEF ToldInv, LastTold
<1>1. CASE SetupSupl
  <2>1. modemMode' = modemMode /\ new' = new /\ (UNCHANGED stream \/ Discard)
    BY <1>1 DEF SetupSupl, priv, modem
  <2> QED BY <1>c, <1>f, <2>1 DEF stream
<1>2. CASE EnableSupl \/ EnableStandAlone
  <2>1. PICK m \in {STAND_ALONE_MODE, SUPL_MODE} : Enabled(m)
    BY <1>2 DEF EnableSupl, EnableStandAlone, Obliging
  <2> QED BY <2>1, EnabledTold DEF ToldInv
<1>3. CASE EnableOff
  BY <1>3, <1>d DEF EnableOff, TurnOff, Obliging
<1>4. CASE DisableGps
  <2>1. CASE UNCHANGED <<priv, modem, stream>>
    BY <1>c, <2>1 DEF priv, modem, stream
  <2>2. CASE TurnOff
    BY <1>d, <2>2 DEF TurnOff, Obliging
  <2> QED BY <1>4, <2>1, <2>2 DEF DisableGps
<1>5. CASE HandleStates
  <2>1. new' = Handled /\ UNCHANGED <<modem, stream>>
    BY <1>5 DEF HandleStates
  <2>2. new.mode # OFF => Handled.mode # OFF
    BY <1>b DEF Handled, TypeOK, GpsState
  <2> QED BY <2>1, <2>2 DEF ToldInv, LastTold, modem, stream
<1>5a. CASE InstallCertificate
  BY <1>5a, <1>c, <1>f DEF InstallCertificate, priv, modem, stream
<1>6. CASE PrepareForSleep
  <2>1. CASE gpsEnabled = OFF
    <3>1. Discard /\ UNCHANGED <<modemMode, new>>
      BY <1>6, <2>1 DEF PrepareForSleep, Discard, StreamRead
    <3> QED BY <1>f, <3>1
  <2>2. CASE gpsEnabled # OFF
    <3>1. modemMode' = OFF /\ statQ' = <<>>
      BY <1>6, <2>2 DEF PrepareForSleep, Obliging
    <3> QED BY <1>d, <3>1
  <2> QED BY <2>1, <2>2
<1>7. CASE Resume
  BY <1>7, <1>c DEF Resume, BeginWakeUp, modem, stream
<1>8. CASE ControlLost
  BY <1>8, <1>f DEF ControlLost, BeginWakeUp, modem
<1>9. CASE FinishWakeUp
  BY <1>9, <1>c DEF FinishWakeUp, stream
<1>10. CASE WakeUpFails
  BY <1>10, <1>c DEF WakeUpFails, priv, modem, stream
<1>11. CASE Select \/ NotifierDone \/ NoControl \/ FirstOpen
  BY <1>11, <1>c DEF Select, NotifierDone, NoControl, FirstOpen, priv, modem, stream
<1>12. CASE ReadControl
  BY <1>12, <1>e DEF ReadControl, StreamRead, modem
<1>13. ASSUME NEW c \in Clients, CountOpen(c) \/ ClientGone(c)
       PROVE  ToldInv'
  BY <1>13, <1>c DEF CountOpen, ClientGone, modem, stream
<1>14. CASE DBus
  BY <1>14, <1>c DEF DBus, SetPrefGpsMode, SetSingleShot, SetGpsEnabled,
     SetSuspend, SetFixInterval, SuplInstallCertificate, loopVars, priv, modem,
     stream
<1>15. ASSUME NEW c \in Clients, ClientCommand(c)
       PROVE  ToldInv'
  <2>1. CASE Parse(new, statQ) /\ StreamRead /\ UNCHANGED <<modem, dropped>>
    BY <1>e, <2>1 DEF StreamRead, modem
  <2>2. CASE \E m \in ModemModes, shot \in BOOLEAN : ClientSwitches(m, shot)
    <3>1. PICK m \in ModemModes, shot \in BOOLEAN : ClientSwitches(m, shot)
      BY <2>2
    <3>2. new \in GpsState
      BY DEF TypeOK
    <3>3. /\ modemMode # m => LastTold' = m
          /\ modemMode = m => statQ' = <<>> /\ LastTold' = LastTold
      BY <3>1, <3>2, SwitchedTold DEF ClientSwitches, LastTold
    <3>4. modemMode' = m /\ (dropped' <=> (dropped /\ modemMode = m))
      BY <3>1, Zenon DEF ClientSwitches
    <3> QED BY <3>3, <3>4 DEF ToldInv
  <2> QED BY <1>15, <2>1, <2>2 DEF ClientCommand
<1>16. ASSUME NEW c \in Clients, ClientOpens(c) \/ ClientCloses(c)
       PROVE  ToldInv'
  BY <1>16, <1>c DEF ClientOpens, ClientCloses, loopVars, priv, modem, stream
<1>17. CASE SuplStops \/ ShotFixed
  BY <1>17, <1>d DEF SuplStops, ShotFixed, StopsItself
<1>17a. CASE DeviceLost
  BY <1>17a, <1>d DEF DeviceLost
<1>18. CASE StatusChanges
  <2>1. LastTold' = modemMode /\ UNCHANGED modem
    BY <1>18, ReportTold DEF StatusChanges, TypeOK
  <2> QED BY <2>1 DEF ToldInv, modem
<1>19. CASE SwitchTurns \/ \E n \in Networks : NetworkChanges(n)
  BY <1>19, <1>c DEF SwitchTurns, NetworkChanges, loopVars, priv
<1>20. CASE UNCHANGED vars
  BY <1>20, <1>c DEF vars, loopVars, priv, modem, stream
<1> QED
  BY <1>1, <1>2, <1>3, <1>4, <1>5, <1>5a, <1>6, <1>7, <1>8, <1>9, <1>10, <1>11,
     <1>12, <1>13, <1>14, <1>15, <1>16, <1>17, <1>17a, <1>18, <1>19, <1>20
     DEF Next, Loop, Command, DBus, World

-----------------------------------------------------------------------------
(* The hardware switch is obeyed.                                          *)

\* What makes WDisableIsObeyed inductive, besides ToldInv: the handler calls
\* modem_enable_gps only when w_disable is clear, and leaves that in
\* current_gps_state; after a wake-up the loop does not go straight to wait.
WDisableInv ==
  /\ WDisableIsObeyed
  /\ pc \in {"setup", "suplctl", "ctl"} /\ call.ret = "select" => current.wdis = 0
  /\ pc = "waking" => call.ret \in {"states", "top"}

LEMMA WDisableStep ==
  ASSUME Obliging, TypeOK, PowerInv, ToldInv, WDisableInv, [Next]_vars
  PROVE  WDisableInv'
<1> USE DEF WDisableInv
<1>0. OFF \in ModemModes /\ 0 \in 0..1 /\ 1 \in 0..1
  BY DEF ModemModes
<1>a. call.ret \notin {"setup", "suplctl", "ctl", "waking"}
  BY DEF TypeOK
<1>b. ASSUME pc' \notin {"select", "setup", "suplctl", "ctl", "waking"}
      PROVE  WDisableInv'
  BY <1>b DEF WDisableIsObeyed
<1>c. ASSUME modemMode' = OFF \/ foreign', pc' \notin {"setup", "suplctl", "ctl", "waking"}
      PROVE  WDisableInv'
  BY <1>c DEF WDisableIsObeyed
<1>d. ASSUME UNCHANGED <<pc, call, current, new>>,
             modemMode' = OFF \/ UNCHANGED <<modemMode, foreign, dropped>>,
             \A i \in 1..Len(statQ) : i \in 1..Len(statQ') /\ statQ'[i] = statQ[i]
      PROVE  WDisableInv'
  BY <1>d DEF WDisableIsObeyed
<1>1. CASE SetupSupl
  <2>1. /\ pc = "setup" /\ pc' \in {"suplctl", "ctl"} /\ call'.ret = call.ret
        /\ UNCHANGED <<current, new>>
    BY <1>1 DEF SetupSupl, priv, TypeOK
  <2> QED BY <2>1 DEF WDisableIsObeyed
<1>2. CASE EnableSupl \/ EnableStandAlone
  <2>1. PICK m \in {STAND_ALONE_MODE, SUPL_MODE} : Enabled(m)
    BY <1>2 DEF EnableSupl, EnableStandAlone, Obliging
  <2>2. pc \in {"suplctl", "ctl"} /\ pc' = call.ret /\ current'.wdis = current.wdis
    BY <1>2, <2>1, EnabledTold DEF EnableSupl, EnableStandAlone, Enabled, Return
  <2> QED BY <1>a, <2>2 DEF WDisableIsObeyed
<1>3. CASE EnableOff
  BY <1>3, <1>a, <1>c DEF EnableOff, TurnOff, Return, Obliging
<1>4. CASE DisableGps
  <2>1. pc' = call.ret
    BY <1>4 DEF DisableGps, Return
  <2>2. CASE gpsEnabled = OFF /\ UNCHANGED modem
    <3>1. modemMode' = OFF \/ foreign'
      BY <2>2 DEF PowerInv, OffMeansOff, modem
    <3> QED BY <1>a, <1>c, <2>1, <3>1
  <2>3. CASE TurnOff
    BY <1>a, <1>c, <2>1, <2>3 DEF TurnOff, Obliging
  <2> QED BY <1>4, <2>2, <2>3 DEF DisableGps
<1>5. CASE HandleStates
  <2>1. /\ current' = Handled /\ new' = Handled
        /\ UNCHANGED <<modem, stream>>
    BY <1>5 DEF HandleStates
  <2>2. Handled.wdis = new.wdis /\ new.wdis \in 0..1
    BY DEF Handled, TypeOK, GpsState
  <2>3. CASE Wanted
    <3>1. current'.wdis = 0 /\ new'.wdis = 0
      BY <2>1, <2>2, <2>3 DEF Wanted
    <3>2. pc' # "waking"
      BY <1>5 DEF HandleStates, CallEnable
    <3> QED BY <3>1, <3>2 DEF WDisableIsObeyed
  <2>4. CASE ~Wanted /\ pc' = "disable"
    BY <1>b, <2>4
  <2>5. CASE ~Wanted /\ pc' = "select"
    <3>1. Handled.mode = OFF
      BY <1>5, <2>5 DEF HandleStates
    <3>2. new.mode = OFF
      BY <3>1 DEF Handled, TypeOK, GpsState, OFF, SUPL_WAITING_FOR_REGISTRATION
    <3>3. modemMode = OFF \/ dropped \/ (statQ # <<>> /\ statQ[Len(statQ)].mode # OFF)
      BY <2>1, <3>2 DEF ToldInv, LastTold
    <3>4. ASSUME NEW q \in Seq(Statuses), q # <<>>
          PROVE  Len(q) \in 1..Len(q)
      BY <3>4
    <3>5. statQ # <<>> => Len(statQ) \in 1..Len(statQ)
      BY <3>4 DEF TypeOK
    <3> QED BY <2>1, <2>5, <3>3, <3>5 DEF WDisableIsObeyed, modem, stream
  <2> QED BY <1>5, <2>3, <2>4, <2>5 DEF HandleStates
<1>5a. CASE InstallCertificate
  BY <1>5a, <1>b DEF InstallCertificate
<1>6. CASE PrepareForSleep
  BY <1>6, <1>b DEF PrepareForSleep, loopVars
<1>7. CASE Resume \/ ControlLost
  BY <1>7 DEF Resume, ControlLost, BeginWakeUp, WDisableIsObeyed, NoCall
<1>8. CASE FinishWakeUp
  BY <1>8, <1>b DEF FinishWakeUp, Return
<1>9. CASE WakeUpFails
  BY <1>9, <1>b DEF WakeUpFails
<1>10. CASE Select \/ NotifierDone \/ NoControl \/ ReadControl
  BY <1>10, <1>b DEF Select, NotifierDone, NoControl, ReadControl
<1>11. CASE FirstOpen
  BY <1>11 DEF FirstOpen, CallEnable, WDisableIsObeyed
<1>12. ASSUME NEW c \in Clients, CountOpen(c) \/ ClientGone(c)
       PROVE  WDisableInv'
  BY <1>12, <1>b DEF CountOpen, ClientGone
<1>13. CASE DBus
  BY <1>13, <1>d DEF DBus, SetPrefGpsMode, SetSingleShot, SetGpsEnabled,
     SetSuspend, SetFixInterval, SuplInstallCertificate, loopVars, priv, modem,
     stream
<1>14. ASSUME NEW c \in Clients, ClientCommand(c)
       PROVE  WDisableInv'
  BY <1>14, <1>b DEF ClientCommand, loopVars
<1>15. ASSUME NEW c \in Clients, ClientOpens(c) \/ ClientCloses(c)
       PROVE  WDisableInv'
  BY <1>15, <1>d DEF ClientOpens, ClientCloses, loopVars, priv, modem, stream
<1>16. CASE SuplStops \/ ShotFixed
  <2>1. PICK r \in 0..1 : StopsItself(r)
    BY <1>0, <1>16 DEF SuplStops, ShotFixed, TypeOK
  <2>2. \A i \in 1..Len(statQ) : i \in 1..Len(statQ') /\ statQ'[i] = statQ[i]
    BY <1>0, <2>1, ReportTold DEF StopsItself
  <2>3. modemMode' = OFF /\ UNCHANGED <<loopVars, priv>>
    BY <2>1 DEF StopsItself
  <2> QED BY <1>d, <2>2, <2>3 DEF loopVars, priv
<1>17. CASE StatusChanges
  <2>1. /\ statQ' # <<>> /\ LastTold' = modemMode
        /\ UNCHANGED <<loopVars, priv, modem>> /\ statQ' \in Seq(Statuses)
    BY <1>17, ReportTold, ReportType DEF StatusChanges, TypeOK
  <2>2. ASSUME NEW q \in Seq(Statuses), q # <<>>
        PROVE  Len(q) \in 1..Len(q)
    BY <2>2
  <2>3. Len(statQ') \in 1..Len(statQ') /\ statQ'[Len(statQ')].mode = modemMode
    BY <2>1, <2>2 DEF LastTold
  <2> QED BY <2>1, <2>3 DEF WDisableIsObeyed, loopVars, priv, modem
<1>18. CASE SwitchTurns \/ DeviceLost \/ \E n \in Networks : NetworkChanges(n)
  BY <1>18, <1>d DEF SwitchTurns, DeviceLost, NetworkChanges, loopVars, priv, stream
<1>19. CASE UNCHANGED vars
  BY <1>19, <1>d DEF vars, loopVars, priv, modem, stream
<1> QED
  BY <1>1, <1>2, <1>3, <1>4, <1>5, <1>5a, <1>6, <1>7, <1>8, <1>9, <1>10, <1>11,
     <1>12, <1>13, <1>14, <1>15, <1>16, <1>17, <1>18, <1>19
     DEF Next, Loop, Command, DBus, World

LEMMA ToldCorrect ==
  ASSUME Obliging
  PROVE  Spec => [](TypeOK /\ PowerInv /\ ToldInv)
<1>1. Init => ToldInv
  BY DEF Init, ToldInv
<1>2. TypeOK /\ PowerInv /\ ToldInv /\ [Next]_vars => ToldInv'
  BY ToldStep
<1> QED BY <1>1, <1>2, PowerCorrect, PTL DEF Spec

\* Once the switch is known to be set, main_loop never waits beside a running
\* GPS that a client has not switched on itself, unless a report that makes the
\* loop disable it is unread or was discarded: with wake-ups, losses of the
\* device, clients' commands and reports at any point.
THEOREM WDisableObeyed ==
  ASSUME Obliging
  PROVE  Spec => []WDisableIsObeyed
<1>1. Init => WDisableInv
  BY DEF Init, WDisableInv, WDisableIsObeyed
<1>2. TypeOK /\ PowerInv /\ ToldInv /\ WDisableInv /\ [Next]_vars => WDisableInv'
  BY WDisableStep
<1>3. WDisableInv => WDisableIsObeyed
  BY DEF WDisableInv
<1> QED BY <1>1, <1>2, <1>3, ToldCorrect, PTL DEF Spec

-----------------------------------------------------------------------------
(* A modem that stops by itself does not stay unnoticed.                   *)

\* The device is not lost either: pm_wake_up restores what gps_enabled said
\* before the loss, and nothing tells the daemon that the modem has been reset.
Staying == Obliging /\ "lost" \notin Env

TakenToBeOn == gpsEnabled \in {STAND_ALONE_MODE, SUPL_MODE}

\* What makes StopNoticed inductive: that the modem is off is what was told
\* last, unless that was never parsed; and the only wake-ups are those from a
\* suspend, which restore OFF.
StoppedInv ==
  /\ ~lost
  /\ waitForSleep => gpsEnabled = OFF
  /\ pc = "waking" => saved = OFF
  /\ TakenToBeOn /\ modemMode = OFF /\ ~dropped => LastTold = OFF

LEMMA StoppedStep ==
  ASSUME Staying, TypeOK, PowerInv, ToldInv, StoppedInv, [Next]_vars
  PROVE  StoppedInv'
<1> USE DEF StoppedInv
<1>0. /\ TakenToBeOn
           => gpsEnabled \notin {OFF, GPS_WAKING_UP, SUPL_WAITING_FOR_REGISTRATION}
      /\ TakenToBeOn'
           => gpsEnabled' \notin {OFF, GPS_WAKING_UP, SUPL_WAITING_FOR_REGISTRATION}
      /\ gpsEnabled' = gpsEnabled => TakenToBeOn' = TakenToBeOn
      /\ OFF \in ModemModes /\ 0 \in 0..1 /\ 1 \in 0..1
  BY DEF TakenToBeOn, OFF, STAND_ALONE_MODE, SUPL_MODE, GPS_WAKING_UP,
     SUPL_WAITING_FOR_REGISTRATION, ModemModes
<1>a. Obliging /\ call.ret \notin {"suplctl", "ctl", "waking"}
  BY DEF Staying, TypeOK
<1>b. ASSUME ~lost', gpsEnabled' = OFF, pc' # "waking"
      PROVE  StoppedInv'
  BY <1>0, <1>b
<1>c. ASSUME UNCHANGED <<lost, waitForSleep, gpsEnabled, modemMode, statQ, new,
                         dropped>>,
             pc' # "waking" \/ UNCHANGED <<pc, saved>>
      PROVE  StoppedInv'
  BY <1>0, <1>c DEF LastTold
<1>d. ASSUME ~lost', UNCHANGED <<waitForSleep, gpsEnabled, pc, saved>>,
             dropped' \/ LastTold' = OFF
      PROVE  StoppedInv'
  BY <1>d
<1>e. ASSUME Parse(new, statQ), statQ' = <<>>,
             UNCHANGED <<lost, waitForSleep, gpsEnabled, modemMode, dropped>>,
             pc' # "waking"
      PROVE  StoppedInv'
  <2>1. new'.mode = LastTold
    BY <1>e, ParseTold DEF LastTold, TypeOK
  <2> QED BY <1>0, <1>e, <2>1 DEF LastTold
<1>f. ASSUME Discard, UNCHANGED <<lost, waitForSleep, gpsEnabled, modemMode, new>>,
             pc' # "waking"
      PROVE  StoppedInv'
  <2>1. statQ' = <<>> /\ (dropped' <=> (dropped \/ statQ # <<>>))
    BY <1>f, Zenon DEF Discard, Discarded, StreamRead
  <2> QED BY <1>0, <1>f, <2>1 DEF LastTold
<1>1. CASE SetupSupl
  <2>1. pc' # "waking" /\ UNCHANGED <<priv, modem>> /\ (UNCHANGED stream \/ Discard)
    BY <1>1 DEF SetupSupl
  <2> QED BY <1>c, <1>f, <2>1 DEF priv, modem, stream
<1>2. CASE EnableSupl \/ EnableStandAlone
  <2>1. PICK m \in {STAND_ALONE_MODE, SUPL_MODE} : Enabled(m)
    BY <1>2, <1>a DEF EnableSupl, EnableStandAlone, Obliging
  <2>2. modemMode' # OFF
    BY <2>1, EnabledTold
  <2>3. /\ UNCHANGED <<lost, waitForSleep>> /\ pc' = call.ret
        /\ pc \in {"suplctl", "ctl"}
    BY <1>2, <2>1 DEF Enabled, Return, EnableSupl, EnableStandAlone
  <2>4. ~waitForSleep
    BY <2>3 DEF PowerInv
  <2> QED BY <1>a, <2>2, <2>3, <2>4
<1>3. CASE EnableOff
  BY <1>3, <1>a, <1>b DEF EnableOff, TurnOff, Return
<1>4. CASE DisableGps
  BY <1>4, <1>a, <1>b DEF DisableGps, TurnOff, Return, priv, modem
<1>5. CASE HandleStates
  <2>1. /\ new' = Handled /\ pc' # "waking"
        /\ UNCHANGED <<modem, stream, waitForSleep>>
    BY <1>5 DEF HandleStates, CallEnable
  <2>1a. ~waitForSleep
    BY <1>5 DEF HandleStates, AtHandler, PowerInv
  <2>2. gpsEnabled' \in {SUPL_WAITING_FOR_REGISTRATION, OFF}
        \/ (gpsEnabled' = gpsEnabled /\ ~WaitsForRegistration)
    BY <1>5 DEF HandleStates
  <2>3. ~WaitsForRegistration => Handled.mode = new.mode
    BY DEF Handled, TypeOK, GpsState
  <2> QED BY <1>0, <2>1, <2>1a, <2>2, <2>3 DEF LastTold, modem, stream
<1>5a. CASE InstallCertificate
  BY <1>5a, <1>c, <1>f DEF InstallCertificate, priv, modem, stream
<1>6. CASE PrepareForSleep
  BY <1>6, <1>b DEF PrepareForSleep, loopVars
<1>7. CASE Resume
  BY <1>7, <1>0 DEF Resume, BeginWakeUp, modem
<1>8. CASE FinishWakeUp
  BY <1>8, <1>a, <1>b DEF FinishWakeUp, Return
<1>9. CASE WakeUpFails
  BY <1>9, <1>c DEF WakeUpFails, priv, modem, stream
<1>10. CASE Select \/ NotifierDone \/ NoControl \/ FirstOpen
  BY <1>10, <1>c DEF Select, NotifierDone, NoControl, FirstOpen, CallEnable,
     priv, modem, stream
<1>11. CASE ReadControl
  BY <1>11, <1>e DEF ReadControl, StreamRead, modem
<1>12. CASE ControlLost
  BY <1>12 DEF ControlLost
<1>13. ASSUME NEW c \in Clients, CountOpen(c) \/ ClientGone(c)
       PROVE  StoppedInv'
  BY <1>13, <1>c DEF CountOpen, ClientGone, modem, stream
<1>14. CASE DBus
  BY <1>14, <1>c DEF DBus, SetPrefGpsMode, SetSingleShot, SetGpsEnabled,
     SetSuspend, SetFixInterval, SuplInstallCertificate, loopVars, priv, modem,
     stream
<1>15. ASSUME NEW c \in Clients, ClientCommand(c)
       PROVE  StoppedInv'
  <2>1. /\ pc = "clients" /\ pc' # "waking"
        /\ UNCHANGED <<lost, waitForSleep, gpsEnabled, pc, saved>>
    BY <1>15 DEF ClientCommand, ClientSwitches, loopVars, modem
  <2>2. CASE Parse(new, statQ) /\ StreamRead /\ UNCHANGED <<modem, dropped>>
    BY <1>e, <2>1, <2>2 DEF StreamRead, modem
  <2>3. CASE \E m \in ModemModes, shot \in BOOLEAN : ClientSwitches(m, shot)
    <3>1. PICK m \in ModemModes, shot \in BOOLEAN : ClientSwitches(m, shot)
      BY <2>3
    <3>2. new \in GpsState
      BY DEF TypeOK
    <3>3. /\ modemMode # m => LastTold' = m
          /\ modemMode = m => LastTold' = LastTold
      BY <3>1, <3>2, SwitchedTold DEF ClientSwitches, LastTold
    <3>4. modemMode' = m /\ (dropped' <=> (dropped /\ modemMode = m))
      BY <3>1, Zenon DEF ClientSwitches
    <3> QED BY <1>0, <2>1, <3>3, <3>4
  <2> QED BY <1>15, <2>2, <2>3 DEF ClientCommand
<1>16. ASSUME NEW c \in Clients, ClientOpens(c) \/ ClientCloses(c)
       PROVE  StoppedInv'
  BY <1>16, <1>c DEF ClientOpens, ClientCloses, loopVars, priv, modem, stream
<1>17. CASE SuplStops \/ ShotFixed
  <2>1. PICK r \in 0..1 : StopsItself(r)
    BY <1>0, <1>17 DEF SuplStops, ShotFixed, TypeOK
  <2>2. dropped' \/ LastTold' = OFF
    BY <1>0, <2>1, ReportTold DEF StopsItself
  <2> QED BY <1>d, <2>1, <2>2 DEF StopsItself, loopVars, priv
<1>18. CASE StatusChanges
  <2>1. LastTold' = modemMode /\ UNCHANGED <<loopVars, priv, modem>>
    BY <1>18, ReportTold DEF StatusChanges, TypeOK
  <2> QED BY <1>0, <2>1 DEF loopVars, priv, modem
<1>19. CASE SwitchTurns \/ \E n \in Networks : NetworkChanges(n)
  BY <1>19, <1>c DEF SwitchTurns, NetworkChanges, loopVars, priv
<1>20. CASE DeviceLost
  BY <1>20 DEF DeviceLost, Staying
<1>21. CASE UNCHANGED vars
  BY <1>21, <1>c DEF vars, loopVars, priv, modem, stream
<1> QED
  BY <1>1, <1>2, <1>3, <1>4, <1>5, <1>5a, <1>6, <1>7, <1>8, <1>9, <1>10, <1>11, <1>12,
     <1>13, <1>14, <1>15, <1>16, <1>17, <1>18, <1>19, <1>20, <1>21
     DEF Next, Loop, Command, DBus, World

\* When main_loop waits and takes the GPS to be on, a modem that has stopped,
\* because SUPL failed say, has told so: the message is unread, or is parsed
\* and waits for the next turn's modem_check_and_handle_gps_states, unless the
\* answers of AT*E2CERT have swallowed it (supl_install_certificate).
THEOREM StopIsNoticed ==
  ASSUME Staying
  PROVE  Spec => []StopNoticed
<1>0. Obliging
  BY DEF Staying
<1>1. Init => StoppedInv
  BY DEF Init, StoppedInv, TakenToBeOn, OFF, STAND_ALONE_MODE, SUPL_MODE
<1>2. TypeOK /\ PowerInv /\ ToldInv /\ StoppedInv /\ [Next]_vars => StoppedInv'
  BY StoppedStep
<1>3. TypeOK /\ StoppedInv => StopNoticed
  <2>1. ASSUME NEW q \in Seq(Statuses), q # <<>>
        PROVE  Len(q) \in 1..Len(q)
    BY <2>1
  <2>2. TypeOK /\ statQ # <<>> => Len(statQ) \in 1..Len(statQ)
    BY <2>1 DEF TypeOK
  <2> QED BY <2>2 DEF StoppedInv, StopNoticed, TakenToBeOn, LastTold
<1> QED BY <1>0, <1>1, <1>2, <1>3, ToldCorrect, PTL DEF Spec

=============================================================================
