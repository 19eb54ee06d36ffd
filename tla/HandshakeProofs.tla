-------------------------- MODULE HandshakeProofs --------------------------
(***************************************************************************)
(* Theorems about the two requests that the D-Bus thread leaves to the     *)
(* loop thread by stores that no lock orders: SetSuspend, of which         *)
(* SuspendHandshake is the model, and SuplInstallCertificate, of which     *)
(* CertInstall is.  They hold for any number of calls and any manner of    *)
(* callers.  For SetSuspend one inductive invariant, in four parts, gives  *)
(* all of them.                                                            *)
(***************************************************************************)
EXTENDS SuspendHandshake, CertInstall, TLAPS

\* Where the loop stands says whether it is to wake up and has its devices.
DevicesInv ==
  /\ pc \in {"preparing", "turn", "waking"} => ~waitForSleep
  /\ pc = "reply" => waitForSleep
  /\ pc \in {"preparing", "turn"} => devices = "open"
  /\ pc \in {"reply", "waking"} => devices = "closed"
  /\ pc = "top" => devices = IF waitForSleep THEN "closed" ELSE "open"

\* The last call is what suspended says; the call being stored is the last one
\* and has no answer, and the slot holds an earlier one.
CallsInv ==
  /\ \A c \in Calls : c > made => ~arg[c] /\ replies[c] = 0
  /\ suspended <=> made > 0 /\ arg[made]
  /\ context <= made
  /\ storing # NoContext => storing = made /\ context < made /\ replies[made] = 0

\* What the slot holds when it is used has not been answered, or the second store
\* of the call is still to come: the loop goes to sleep again only after a
\* wake-up, and so after another call of SetSuspend.
Fresh == context # NoContext /\ replies[context] = 0
FreshInv ==
  pc \in {"preparing", "reply"} \/ (suspended /\ ~waitForSleep)
  => storing # NoContext \/ Fresh

\* Whoever was answered last sleeps.
AsleepInv ==
  made > 0 /\ arg[made] /\ Answered(made) => waitForSleep /\ pc \in {"top", "reply"}

IInv == TypeOK /\ DevicesInv /\ CallsInv /\ FreshInv /\ AsleepInv /\ AnsweredOnce

-----------------------------------------------------------------------------
LEMMA InitInv ==
  ASSUME Init
  PROVE  IInv
<1>1. TypeOK
  <2>1. arg \in [Calls -> BOOLEAN]
    BY Zenon DEF Init
  <2>2. replies \in [Calls -> Nat]
    BY DEF Init
  <2>3. suspended \in BOOLEAN /\ waitForSleep \in BOOLEAN /\ overtook \in BOOLEAN
    BY Zenon DEF Init
  <2> QED BY <2>1, <2>2, <2>3, ConstantsOK DEF Init, TypeOK, NoContext
<1>2. CallsInv
  BY DEF Init, CallsInv, Calls, NoContext
<1>3. DevicesInv /\ FreshInv /\ AsleepInv
  BY DEF Init, DevicesInv, FreshInv, AsleepInv
<1>4. AnsweredOnce
  BY DEF Init, AnsweredOnce
<1> QED BY <1>1, <1>2, <1>3, <1>4 DEF IInv

\* A new call.
LEMMA CallStep ==
  ASSUME IInv, Suspend \/ ResumeCall
  PROVE  IInv'
<1> USE DEF IInv, Calls, NoContext
<1>0. /\ made < MaxCalls /\ made' = made + 1 /\ storing = 0 /\ made' \in Calls
      /\ UNCHANGED <<manner, context, loop>>
  BY ConstantsOK DEF Suspend, ResumeCall, MayCall, TypeOK
<1>1. TypeOK'
  <2>1. arg' \in [Calls -> BOOLEAN]
    BY <1>0, Zenon DEF Suspend, ResumeCall, TypeOK
  <2>2. suspended' \in BOOLEAN
    BY Zenon DEF Suspend, ResumeCall
  <2>3. replies' \in [Calls -> Nat] /\ storing' \in 0..MaxCalls
    BY <1>0 DEF Suspend, ResumeCall, TypeOK
  <2> QED BY <1>0, <2>1, <2>2, <2>3, ConstantsOK DEF TypeOK, loop
<1>2. DevicesInv'
  BY <1>0 DEF DevicesInv, loop
<1>3. CASE Suspend
  <2>1. /\ suspended' /\ storing' = made' /\ UNCHANGED replies
        /\ arg' = [arg EXCEPT ![made'] = TRUE]
    BY <1>3 DEF Suspend
  <2>2. CallsInv'
    BY <1>0, <2>1 DEF CallsInv, TypeOK
  <2>3. FreshInv'
    BY <1>0, <2>1 DEF FreshInv, Fresh, loop, TypeOK
  <2>4. AsleepInv' /\ AnsweredOnce'
    BY <1>0, <2>1 DEF AsleepInv, Answered, AnsweredOnce, CallsInv, TypeOK, loop
  <2> QED BY <1>1, <1>2, <2>2, <2>3, <2>4
<1>4. CASE ResumeCall
  <2>1. /\ ~suspended' /\ UNCHANGED <<arg, storing>>
        /\ replies' = [replies EXCEPT ![made'] = @ + 1]
    BY <1>4 DEF ResumeCall
  <2>2. CallsInv'
    BY <1>0, <2>1 DEF CallsInv, TypeOK
  <2>3. FreshInv'
    BY <1>0, <2>1 DEF FreshInv, Fresh, CallsInv, loop, TypeOK
  <2>4. AsleepInv' /\ AnsweredOnce'
    BY <1>0, <2>1 DEF AsleepInv, Answered, AnsweredOnce, CallsInv, TypeOK, loop
  <2> QED BY <1>1, <1>2, <2>2, <2>3, <2>4
<1> QED BY <1>3, <1>4

LEMMA StoreStep ==
  ASSUME IInv, StoreContext
  PROVE  IInv'
<1> USE DEF IInv, Calls, NoContext
<1>1. /\ storing # 0 /\ context' = storing /\ storing' = 0
      /\ UNCHANGED <<manner, suspended, loop, made, arg, replies>>
  BY DEF StoreContext
<1>2. TypeOK' /\ DevicesInv' /\ AsleepInv' /\ AnsweredOnce'
  BY <1>1, ConstantsOK DEF TypeOK, DevicesInv, AsleepInv, Answered, AnsweredOnce, loop
<1>3. CallsInv'
  BY <1>1 DEF CallsInv, TypeOK
<1>4. Fresh'
  BY <1>1 DEF CallsInv, Fresh, TypeOK
<1>5. FreshInv'
  BY <1>1, <1>4 DEF FreshInv
<1> QED BY <1>2, <1>3, <1>5

\* The one step of the loop that answers: what is in the slot is fresh, unless
\* the second store of a call is still to come.
LEMMA ReplyStep ==
  ASSUME IInv, Reply
  PROVE  IInv'
<1> USE DEF IInv, Calls, NoContext
<1>1. /\ waitForSleep /\ devices = "closed" /\ pc' \in {"top", "crashed"}
      /\ UNCHANGED <<manner, suspended, context, waitForSleep, devices, storing, made, arg>>
      /\ storing = 0 => context # 0 /\ replies[context] = 0
  BY DEF Reply, AnswerIn, FreshInv, Fresh, DevicesInv
<1>2. overtook' \in BOOLEAN /\ (overtook' <=> overtook \/ storing # 0)
  <2>1. overtook' = (overtook \/ storing # 0)
    BY DEF Reply, AnswerIn
  <2> QED BY <2>1, Zenon
<1>3. CASE pc' = "top" /\ context # 0 /\ replies' = [replies EXCEPT ![context] = @ + 1]
  <2>1. /\ context \in Calls /\ replies' \in [Calls -> Nat]
        /\ \A c \in Calls : replies'[c] = IF c = context THEN replies[c] + 1 ELSE replies[c]
    BY <1>3 DEF TypeOK
  <2>2. TypeOK' /\ DevicesInv' /\ AsleepInv'
    BY <1>1, <1>2, <1>3, <2>1 DEF TypeOK, DevicesInv, AsleepInv
  <2>3. CallsInv'
    BY <1>1, <2>1 DEF CallsInv, TypeOK
  <2>4. AnsweredOnce'
    BY <1>1, <1>2, <1>3, <2>1 DEF AnsweredOnce, TypeOK
  <2>5. FreshInv'
    BY <1>1, <1>3 DEF FreshInv
  <2> QED BY <2>2, <2>3, <2>4, <2>5
<1>4. CASE /\ context # 0 => Answered(context)
           /\ pc' = "crashed" /\ UNCHANGED replies
  <2>1. storing # 0
    BY <1>1, <1>4 DEF Answered, TypeOK
  <2>2. TypeOK' /\ DevicesInv' /\ CallsInv' /\ AnsweredOnce' /\ FreshInv'
    BY <1>1, <1>2, <1>4, <2>1 DEF TypeOK, DevicesInv, CallsInv, AnsweredOnce, FreshInv, Fresh
  <2>3. AsleepInv'
    BY <1>1, <1>4, <2>1, ConstantsOK DEF AsleepInv, Answered, CallsInv, TypeOK
  <2> QED BY <2>2, <2>3
<1> QED
  <2>1. \/ pc' = "top" /\ context # 0 /\ replies' = [replies EXCEPT ![context] = @ + 1]
        \/ (context # 0 => Answered(context)) /\ pc' = "crashed" /\ UNCHANGED replies
    BY DEF Reply, AnswerIn
  <2> QED BY <1>3, <1>4, <2>1

LEMMA LoopStep ==
  ASSUME IInv, \/ Spin \/ PrepareForSleep \/ CloseDevices
               \/ BeginWakeUp \/ FinishWakeUp \/ Turn \/ EndTurn
  PROVE  IInv'
<1> USE DEF IInv
<1>1. UNCHANGED <<manner, suspended, context, storing, made, arg, replies, overtook>>
  BY DEF Spin, PrepareForSleep, CloseDevices, BeginWakeUp, FinishWakeUp, Turn, EndTurn, vars, loop
<1>2. CallsInv' /\ AnsweredOnce'
  <2>1. pc # "crashed" => pc' # "crashed"
    BY DEF Spin, PrepareForSleep, CloseDevices, BeginWakeUp, FinishWakeUp, Turn, EndTurn,
       vars, loop
  <2> QED BY <1>1, <2>1 DEF CallsInv, AnsweredOnce
<1>3. TypeOK' /\ DevicesInv'
  <2>1. CASE Spin
    BY <2>1 DEF Spin, vars, loop, TypeOK, DevicesInv
  <2>2. CASE PrepareForSleep \/ Turn \/ EndTurn
    BY <1>1, <2>2 DEF PrepareForSleep, Turn, EndTurn, TypeOK, DevicesInv
  <2>3. CASE CloseDevices
    BY <1>1, <2>3 DEF CloseDevices, TypeOK, DevicesInv
  <2>4. CASE BeginWakeUp
    BY <1>1, <2>4 DEF BeginWakeUp, TypeOK, DevicesInv
  <2>5. CASE FinishWakeUp
    BY <1>1, <2>5 DEF FinishWakeUp, TypeOK, DevicesInv
  <2> QED BY <2>1, <2>2, <2>3, <2>4, <2>5
<1>4. Fresh' <=> Fresh
  BY <1>1 DEF Fresh
<1>5. FreshInv'
  BY <1>1, <1>4 DEF Spin, PrepareForSleep, CloseDevices, BeginWakeUp, FinishWakeUp, Turn, EndTurn,
     vars, loop, DevicesInv, FreshInv
<1>6. AsleepInv'
  <2> SUFFICES ASSUME made > 0, arg[made], Answered(made)
               PROVE  waitForSleep' /\ pc' \in {"top", "reply"}
    BY <1>1 DEF AsleepInv, Answered
  <2>1. suspended /\ waitForSleep /\ pc \in {"top", "reply"}
    BY DEF AsleepInv, CallsInv
  <2>2. CASE Spin
    BY <2>1, <2>2 DEF Spin, vars, loop
  <2>3. CASE PrepareForSleep \/ Turn \/ BeginWakeUp
    BY <2>1, <2>3 DEF PrepareForSleep, Turn, BeginWakeUp
  <2>4. CASE CloseDevices \/ FinishWakeUp \/ EndTurn
    BY <2>1, <2>4 DEF CloseDevices, FinishWakeUp, EndTurn
  <2> QED BY <2>2, <2>3, <2>4
<1> QED BY <1>2, <1>3, <1>5, <1>6

LEMMA InvCorrect == Spec => []IInv
<1>1. IInv /\ [Next]_vars => IInv'
  <2>1. ASSUME IInv, UNCHANGED vars
        PROVE  IInv'
    BY <2>1 DEF vars, loop, IInv, TypeOK, DevicesInv, CallsInv, FreshInv, Fresh, AsleepInv,
       Answered, AnsweredOnce
  <2> QED BY <2>1, CallStep, StoreStep, ReplyStep, LoopStep DEF Next, Loop
<1> QED BY <1>1, InitInv, PTL DEF Spec

-----------------------------------------------------------------------------
\* The types, for callers of any manner.
THEOREM TypeCorrect == Spec => []TypeOK
<1>1. IInv => TypeOK
  BY DEF IInv
<1> QED BY <1>1, InvCorrect, PTL

\* pm_prepare_for_sleep and pm_wake_up alternate, and the turns of the loop that
\* use nmea_fd and ctrl_fd come between them, however suspended changes.
THEOREM DevicesAreOpen == Spec => []DevicesUsedOpen
<1>1. IInv => DevicesUsedOpen
  BY DEF IInv, DevicesInv, DevicesUsedOpen
<1> QED BY <1>1, InvCorrect, PTL

\* A caller told that the daemon is suspended can rely on it until the next
\* call, though two threads share suspended without a lock.
THEOREM AnswersAreTrue == Spec => []AnswerIsTrue
<1>1. IInv => AnswerIsTrue
  BY DEF IInv, DevicesInv, AsleepInv, AnswerIsTrue
<1> QED BY <1>1, InvCorrect, PTL

\* dbus_suspend_context, which is never reset, is used for two replies, or before
\* it is set, only by a loop that answers between the two stores of a call.
THEOREM NoSecondAnswer == Spec => []AnsweredOnce
<1>1. IInv => AnsweredOnce
  BY DEF IInv
<1> QED BY <1>1, InvCorrect, PTL

-----------------------------------------------------------------------------
(* The certificate to install: CertInstall, whose variables are its own.   *)

LEMMA CertInitType ==
  ASSUME CertInit
  PROVE  CertTypeOK
<1>1. flag \in BOOLEAN /\ clean \in BOOLEAN
  BY Zenon DEF CertInit
<1> QED BY <1>1, CertConstantsOK DEF CertInit, CertTypeOK, Files, NoFile

LEMMA CertNextType ==
  ASSUME CertTypeOK, [CertNext]_certVars
  PROVE  CertTypeOK'
<1> USE CertConstantsOK DEF CertTypeOK, Files, NoFile
<1>1. CASE Request
  <2>1. flag' \in BOOLEAN /\ clean' \in BOOLEAN
    BY <1>1, Zenon DEF Request, Unserved
  <2>2. requests' \in 0..MaxRequests
    BY <1>1 DEF Request
  <2> QED BY <1>1, <2>1, <2>2 DEF Request, certLoop
<1>2. CASE StoreRunning
  BY <1>2 DEF StoreRunning, certLoop
<1>3. CASE StorePath
  BY <1>3 DEF StorePath, certLoop
<1>4. CASE TestFlag
  <2>1. clean' \in BOOLEAN
    BY <1>4, Zenon DEF TestFlag
  <2> QED BY <1>4, <2>1 DEF TestFlag, certCall
<1>5. CASE Open
  BY <1>5 DEF Open, certCall
<1>6. CASE SendLength \/ SendData
  BY <1>6 DEF SendLength, SendData, certCall
<1>7. CASE Finish \/ ClearFlag
  BY <1>7 DEF Finish, ClearFlag, certCall
<1>8. CASE Idle \/ NextTurn \/ UNCHANGED certVars
  BY <1>8 DEF Idle, NextTurn, certVars, certCall, certLoop
<1> QED
  BY <1>1, <1>2, <1>3, <1>4, <1>5, <1>6, <1>7, <1>8
     DEF CertNext, CertLoop, Long, CertDBus

\* The types of the variables.
THEOREM CertTypeCorrect ==
  CertSpec => []CertTypeOK
<1>1. CertTypeOK /\ [CertNext]_certVars => CertTypeOK'
  BY CertNextType
<1>2. CertInit => CertTypeOK
  BY CertInitType
<1> QED BY <1>1, <1>2, PTL DEF CertSpec

-----------------------------------------------------------------------------
\* What a request is whose stores the loop did not see halfway: while it waits
\* or is served, the path is that of the last request and its status "running";
\* the file that was opened is that one, and a success comes after it is in the
\* modem.  A request is only begun when the one before has been cleared.
Serving == {"open", "length", "data", "success", "failed"}

CleanInv ==
  clean =>
    /\ place \notin {"top", "rest"} \/ ~flag => storesLeft = "idle"
    /\ storesLeft = "path" => status = "running"
    /\ (flag /\ place \in {"top", "rest"} /\ storesLeft = "idle") \/ place \in Serving
         => status = "running" /\ path = requests
    /\ place \in {"length", "data", "success"} => file = requests
    /\ place = "success" => installed = requests
    /\ status = "success" /\ storesLeft = "idle" => installed = requests

LEMMA CleanStep ==
  ASSUME CertTypeOK, CleanInv, [CertNext]_certVars
  PROVE  CleanInv'
<1> USE DEF CleanInv, Serving
<1>1. CASE Request
  BY <1>1 DEF Request, Unserved, certLoop
<1>2. CASE StoreRunning
  BY <1>2 DEF StoreRunning, certLoop
<1>3. CASE StorePath
  BY <1>3 DEF StorePath, certLoop
<1>4. CASE TestFlag
  BY <1>4 DEF TestFlag, certCall
<1>5. CASE Open
  BY <1>5 DEF Open, certCall
<1>6. CASE SendLength \/ SendData
  BY <1>6 DEF SendLength, SendData, certCall
<1>7. CASE Finish \/ ClearFlag
  BY <1>7 DEF Finish, ClearFlag, certCall
<1>8. CASE Idle \/ NextTurn \/ UNCHANGED certVars
  BY <1>8 DEF Idle, NextTurn, certVars, certCall, certLoop
<1> QED
  BY <1>1, <1>2, <1>3, <1>4, <1>5, <1>6, <1>7, <1>8
     DEF CertNext, CertLoop, Long, CertDBus

LEMMA CleanCorrect ==
  CertSpec => [](CertTypeOK /\ CleanInv)
<1>1. CertInit => CertTypeOK /\ CleanInv
  BY CertInitType DEF CertInit, CleanInv, Serving
<1>2. CertTypeOK /\ CleanInv /\ [CertNext]_certVars => CertTypeOK' /\ CleanInv'
  BY CertNextType, CleanStep
<1> QED BY <1>1, <1>2, PTL DEF CertSpec

\* install_supl_cert_status is true of the file the caller named, which goes
\* through three variables that no lock orders.
THEOREM StatusIsHonest ==
  CertSpec => []StatusIsTrue
<1>1. CleanInv => StatusIsTrue
  BY DEF CleanInv, StatusIsTrue
<1> QED BY <1>1, CleanCorrect, PTL

\* supl_install_certificate is not called again for a request that has ended.
THEOREM EachServedOnce ==
  CertSpec => ServedOnce
<1>1. CleanInv => [Open /\ clean => status = "running"]_certVars
  BY DEF CleanInv, Serving, Open
<1> QED BY <1>1, CleanCorrect, PTL DEF ServedOnce

=============================================================================
