------------------------- MODULE SuplAccountProofs -------------------------
(***************************************************************************)
(* Theorems about SuplAccount, for any settings, accounts and refusals.    *)
(* Type correctness comes first, then the account, then the settings that  *)
(* the modem has for it.                                                   *)
(***************************************************************************)
EXTENDS SuplAccount, TLAPS

-----------------------------------------------------------------------------
(* Type correctness.                                                       *)

LEMMA ConstantFacts ==
  /\ NoAccount \notin Accounts /\ Empty \in Values
  /\ Unset \notin Values \union {Torn}
BY ConstantsOK DEF NoAccount

LEMMA RemoveType ==
  ASSUME TypeOK, NEW r \in {"idle", "clear"}, Remove(r)
  PROVE  pc' \in PCs /\ ret' \in {"idle", "clear"}
BY DEF Remove, PCs, Commands

LEMMA SetupType ==
  ASSUME TypeOK, BeginSetup \/ ClearChanged \/ Check \/ Verdict
                 \/ \E c \in {"clock", "ni", "certun"} : IgnoredCommand(c)
  PROVE  TypeOK'
<1>1. CASE BeginSetup
  <2>1. UNCHANGED <<changed, dbus, idx, done, modem>> /\ failed' = FALSE
    BY <1>1 DEF BeginSetup
  <2>2. pc' \in PCs /\ ret' \in {"idle", "clear"}
    BY <1>1, RemoveType DEF BeginSetup, PCs, TypeOK
  <2> QED BY <2>1, <2>2 DEF TypeOK, dbus, modem
<1>2. CASE ClearChanged
  BY <1>2 DEF ClearChanged, TypeOK, PCs, dbus, modem
<1>3. CASE Check
  BY <1>3 DEF Check, TypeOK, PCs, Commands, dbus, modem
<1>4. CASE Verdict
  <2>1. UNCHANGED <<changed, dbus, failed, idx, done, modem>>
    BY <1>4 DEF Verdict
  <2>2. pc' \in PCs /\ ret' \in {"idle", "clear"}
    BY <1>4, RemoveType DEF Verdict, PCs, TypeOK
  <2> QED BY <2>1, <2>2 DEF TypeOK, dbus, modem
<1>5. ASSUME NEW c \in {"clock", "ni", "certun"}, IgnoredCommand(c)
      PROVE  TypeOK'
  BY <1>5 DEF IgnoredCommand, After, TypeOK, PCs, Commands, dbus, modem
<1> QED BY <1>1, <1>2, <1>3, <1>4, <1>5

LEMMA AccountType ==
  ASSUME TypeOK, CreateAccount \/ BeginRemove \/ DisableNi \/ RemoveAccount
  PROVE  TypeOK'
<1>1. CASE CreateAccount
  <2>1. UNCHANGED <<changed, dbus, ret, failed, done, suplIdx>>
    BY <1>1 DEF CreateAccount
  <2>2. pc' \in PCs /\ idx' \in Accounts \union {NoAccount} /\ accounts' \subseteq Accounts
    BY <1>1 DEF CreateAccount, TypeOK, PCs, Commands, Fields
  <2>3. sent' \in [Fields -> Values \union {Torn, Unset}]
    BY <1>1 DEF CreateAccount, TypeOK
  <2> QED BY <2>1, <2>2, <2>3 DEF TypeOK, dbus
<1>2. CASE BeginRemove
  <2>1. UNCHANGED <<changed, dbus, failed, idx, done, modem>>
    BY <1>2 DEF BeginRemove
  <2>2. pc' \in PCs /\ ret' \in {"idle", "clear"}
    BY <1>2, RemoveType DEF BeginRemove
  <2> QED BY <2>1, <2>2 DEF TypeOK, dbus, modem
<1>3. CASE DisableNi
  BY <1>3 DEF DisableNi, TypeOK, PCs, Commands, dbus, modem
<1>4. CASE RemoveAccount
  BY <1>4 DEF RemoveAccount, TypeOK, PCs, dbus
<1> QED BY <1>1, <1>2, <1>3, <1>4

LEMMA SendType ==
  ASSUME TypeOK, NEW f \in Fields, Send(f)
  PROVE  TypeOK'
<1>1. sent' \in [Fields -> Values \union {Torn, Unset}] /\ failed' \in BOOLEAN
  BY DEF Send, SendOK, SendRefused, TypeOK
<1>2. suplIdx' \in Accounts \union {NoAccount}
  BY DEF Send, SendOK, SendRefused, TypeOK
<1>3. pc' \in PCs /\ done' \in BOOLEAN
  BY <1>1 DEF Send, TypeOK, PCs, Commands, Fields
<1>4. UNCHANGED <<changed, dbus, ret, idx, accounts>>
  BY DEF Send
<1> QED BY <1>1, <1>2, <1>3, <1>4 DEF TypeOK, dbus

LEMMA DBusType ==
  ASSUME TypeOK, DBus
  PROVE  TypeOK'
<1>1. ASSUME NEW f \in Fields, NEW v \in Values, BeginSet(f, v)
      PROVE  TypeOK'
  BY <1>1, ConstantsOK DEF BeginSet, Writing, TypeOK, loopVars, modem
<1>2. CASE EndCopy
  BY <1>2 DEF EndCopy, TypeOK, loopVars, modem
<1>3. CASE RaiseChanged
  BY <1>3, ConstantFacts DEF RaiseChanged, WriterIdle, Writing, Fields, TypeOK, loopVars, modem
<1> QED BY <1>1, <1>2, <1>3 DEF DBus

LEMMA NextType ==
  ASSUME TypeOK, [Next]_vars
  PROVE  TypeOK'
<1>1. CASE Loop
  BY <1>1, SetupType, AccountType, SendType DEF Loop
<1>2. CASE DBus
  BY <1>2, DBusType
<1>3. CASE UNCHANGED vars
  BY <1>3 DEF vars, loopVars, modem, TypeOK
<1> QED BY <1>1, <1>2, <1>3 DEF Next

LEMMA InitType ==
  ASSUME Init
  PROVE  TypeOK
BY ConstantFacts DEF Init, TypeOK, WriterIdle, Writing, PCs, Fields

\* The types, for any settings, accounts and refusals.
THEOREM TypeCorrect == Spec => []TypeOK
<1>1. Init => TypeOK
  BY InitType
<1>2. TypeOK /\ [Next]_vars => TypeOK'
  BY NextType
<1> QED BY <1>1, <1>2, PTL DEF Spec

-----------------------------------------------------------------------------
(* The account: where the loop stands decides whether the daemon has one.  *)

\* supl_setup_done and supl_account_idx are set and reset by different
\* commands: between two calls they agree, in the middle of one the account
\* comes first.  What the daemon has is in the modem and, once all of it is
\* set up, the one for SUPL.
AccountInv ==
  /\ pc \in {"clear", "clock", "account"} => idx = NoAccount
  /\ pc \in Fields \union {"ni", "certun", "verdict", "unni", "unaccount"}
       => idx # NoAccount
  /\ pc \in Fields => ~done
  /\ pc \in {"ni", "certun"} => done
  /\ pc \in {"idle", "check"} /\ idx # NoAccount => done
  /\ done => idx # NoAccount /\ suplIdx = idx
  /\ idx # NoAccount => idx \in accounts

LEMMA AccountStep ==
  ASSUME TypeOK, AccountInv, [Next]_vars
  PROVE  AccountInv'
<1> USE DEF AccountInv, Fields
<1>1. CASE BeginSetup
  BY <1>1 DEF BeginSetup, Remove, modem
<1>2. CASE ClearChanged
  BY <1>2 DEF ClearChanged, modem
<1>3. CASE Check
  BY <1>3 DEF Check, modem
<1>4. CASE CreateAccount
  BY <1>4, ConstantFacts DEF CreateAccount
<1>5. CASE Verdict
  BY <1>5 DEF Verdict, Remove, modem
<1>6. ASSUME NEW c \in {"clock", "ni", "certun"}, IgnoredCommand(c)
      PROVE  AccountInv'
  BY <1>6 DEF IgnoredCommand, After, modem
<1>7. ASSUME NEW f \in Fields, Send(f)
      PROVE  AccountInv'
  BY <1>7 DEF Send, SendOK, SendRefused
<1>8. CASE BeginRemove
  BY <1>8 DEF BeginRemove, Remove, modem
<1>9. CASE DisableNi
  BY <1>9 DEF DisableNi, modem
<1>10. CASE RemoveAccount
  BY <1>10 DEF RemoveAccount, TypeOK
<1>11. CASE DBus
  BY <1>11 DEF DBus, BeginSet, EndCopy, RaiseChanged, loopVars, modem
<1>12. CASE UNCHANGED vars
  BY <1>12 DEF vars, loopVars, modem
<1> QED
  BY <1>1, <1>2, <1>3, <1>4, <1>5, <1>6, <1>7, <1>8, <1>9, <1>10, <1>11, <1>12
     DEF Next, Loop

\* A removal that the modem carries out.
RemovalObeyed == "unaccount" \notin Refused

LEMMA NoLeakStep ==
  ASSUME RemovalObeyed, TypeOK, AccountInv, accounts \subseteq {idx}, [Next]_vars
  PROVE  accounts' \subseteq {idx'}
<1>1. CASE CreateAccount
  <2>1. idx = NoAccount /\ NoAccount \notin accounts
    BY <1>1, ConstantFacts DEF CreateAccount, AccountInv, TypeOK
  <2>2. accounts = {}
    BY <2>1
  <2> QED BY <1>1, <2>2 DEF CreateAccount
<1>2. CASE RemoveAccount
  BY <1>2 DEF RemoveAccount, RemovalObeyed
<1>3. ASSUME NEW f \in Fields, Send(f)
      PROVE  UNCHANGED <<accounts, idx>>
  BY <1>3 DEF Send
<1>4. CASE BeginSetup \/ ClearChanged \/ Check \/ Verdict \/ BeginRemove \/ DisableNi
            \/ (\E c \in {"clock", "ni", "certun"} : IgnoredCommand(c)) \/ DBus
  BY <1>4 DEF BeginSetup, ClearChanged, Check, Verdict, BeginRemove, DisableNi,
     IgnoredCommand, DBus, BeginSet, EndCopy, RaiseChanged, loopVars, modem
<1>5. CASE UNCHANGED vars
  BY <1>5 DEF vars, loopVars, modem
<1> QED BY <1>1, <1>2, <1>3, <1>4, <1>5 DEF Next, Loop

\* Whichever other commands of setup_supl are refused, a half set up account is
\* removed again: no call leaves one behind (mbm_supl.c: setup_supl, the end).
THEOREM NoAccountLeaked ==
  ASSUME RemovalObeyed
  PROVE  Spec => []NoAccountLeaks
<1> DEFINE Inv == TypeOK /\ AccountInv /\ accounts \subseteq {idx}
<1>1. Init => Inv
  BY InitType DEF Init, AccountInv, Fields
<1>2. Inv /\ [Next]_vars => Inv'
  BY NextType, AccountStep, NoLeakStep
<1>3. Inv => NoAccountLeaks
  BY DEF NoAccountLeaks
<1> QED BY <1>1, <1>2, <1>3, PTL DEF Spec

-----------------------------------------------------------------------------
(* The settings: what the modem has for the account.                       *)

\* The settings that this setup has sent, if none was refused.
SentFields ==
  IF done THEN Fields
  ELSE IF failed THEN {}
  ELSE CASE pc = "login" -> {"apn"}
         [] pc = "server" -> {"apn", "login"}
         [] OTHER -> {}

\* Each of them is sent, and it is what the option is now, or the flag that
\* makes the loop send it again is up, or the thread that will raise the flag
\* is still at that option.
SettingsInv ==
  \A f \in SentFields :
    /\ sent[f] # Unset
    /\ \/ sent[f] = setting[f]
       \/ changed
       \/ writer.state # "idle" /\ writer.field = f

LEMMA SettingsStep ==
  ASSUME TypeOK, AccountInv, SettingsInv, [Next]_vars
  PROVE  SettingsInv'
<1> USE DEF SettingsInv, AccountInv, SentFields
<1>0. \A f \in Fields : setting[f] # Unset
  BY ConstantFacts DEF TypeOK
<1>1. CASE BeginSetup
  BY <1>1 DEF BeginSetup, Remove, modem, dbus, Fields
<1>2. CASE ClearChanged
  BY <1>2 DEF ClearChanged, modem, dbus
<1>3. CASE Check
  BY <1>3 DEF Check, modem, dbus
<1>4. CASE CreateAccount
  BY <1>4 DEF CreateAccount, dbus
<1>5. CASE Verdict
  BY <1>5 DEF Verdict, Remove, modem, dbus
<1>6. ASSUME NEW c \in {"clock", "ni", "certun"}, IgnoredCommand(c)
      PROVE  SettingsInv'
  BY <1>6 DEF IgnoredCommand, After, modem, dbus
<1>7. ASSUME NEW f \in Fields, Send(f)
      PROVE  SettingsInv'
  BY <1>0, <1>7 DEF Send, SendOK, SendRefused, Fields, TypeOK, dbus
<1>8. CASE BeginRemove
  BY <1>8 DEF BeginRemove, Remove, modem, dbus
<1>9. CASE DisableNi
  BY <1>9 DEF DisableNi, modem, dbus
<1>10. CASE RemoveAccount
  BY <1>10 DEF RemoveAccount, TypeOK, dbus
<1>11. ASSUME NEW f \in Fields, NEW v \in Values, BeginSet(f, v)
       PROVE  SettingsInv'
  BY <1>11 DEF BeginSet, Writing, TypeOK, loopVars, modem, Fields
<1>12. CASE EndCopy
  BY <1>12 DEF EndCopy, TypeOK, loopVars, modem, Fields
<1>13. CASE RaiseChanged
  BY <1>13 DEF RaiseChanged, loopVars, modem
<1>14. CASE UNCHANGED vars
  BY <1>14 DEF vars, loopVars, modem
<1> QED
  BY <1>1, <1>2, <1>3, <1>4, <1>5, <1>6, <1>7, <1>8, <1>9, <1>10, <1>11, <1>12,
     <1>13, <1>14 DEF Next, Loop, DBus

LEMMA SettingsCorrect == Spec => [](TypeOK /\ AccountInv /\ SettingsInv)
<1>1. Init => TypeOK /\ AccountInv /\ SettingsInv
  BY InitType DEF Init, AccountInv, SettingsInv, SentFields, Fields
<1>2. TypeOK /\ AccountInv /\ SettingsInv /\ [Next]_vars
        => TypeOK' /\ AccountInv' /\ SettingsInv'
  BY NextType, AccountStep, SettingsStep
<1> QED BY <1>1, <1>2, PTL DEF Spec

\* The two stores of a setter and the two reads of setup_supl, in any order,
\* lose no change: mbm_supl_settings_changed is cleared before the first
\* setting is read.
THEOREM NoSettingIsLost == Spec => []NoSettingLost
<1>1. TypeOK /\ AccountInv /\ SettingsInv => NoSettingLost
  <2> SUFFICES ASSUME TypeOK, AccountInv, SettingsInv, done, ~changed,
                      writer.state = "idle"
               PROVE  sent = setting /\ suplIdx = idx /\ idx \in accounts
    BY DEF NoSettingLost
  <2>1. \A f \in Fields : sent[f] = setting[f]
    BY DEF SettingsInv, SentFields
  <2> QED BY <2>1 DEF AccountInv, TypeOK
<1> QED BY <1>1, SettingsCorrect, PTL

\* An account that supl_setup_done stands for has every setting and is the one
\* the modem uses, whichever commands were refused on the way.
THEOREM DoneAccountIsComplete == Spec => []DoneIsComplete
<1>1. TypeOK /\ AccountInv /\ SettingsInv => DoneIsComplete
  BY DEF DoneIsComplete, AccountInv, SettingsInv, SentFields
<1> QED BY <1>1, SettingsCorrect, PTL

=============================================================================
