------------------------------ MODULE AtSerial ------------------------------
(***************************************************************************)
(* The transport of AT commands, mbm_serial.c: serial_send_AT_cmd: a       *)
(* command is written to the control device and its answer is read, piece  *)
(* by piece, until it holds a final result or nothing comes for 5 seconds. *)
(*                                                                         *)
(* Two threads use it, one at a time: the loop thread, and the thread that *)
(* runs the signal handler.  The control device has no framing.  What the  *)
(* modem sends is one stream: echoes, answers in the order of the          *)
(* commands, however late, and unsolicited reports.  The loop also reads   *)
(* that stream itself, as control data.                                    *)
(***************************************************************************)
EXTENDS Naturals, Sequences

CONSTANTS Kinds,        \* of commands: "plain", "long", "prompt", "twins", "named"
          MaxCommands,  \* bound: commands in a behaviour
          MaxReports,   \* bound: unsolicited reports in a behaviour
          MaxResponse   \* MAX_RESPONSE, in parts of an answer

ASSUME ConstantsOK ==
  /\ Kinds \subseteq {"plain", "long", "prompt", "twins", "named"}
  /\ MaxCommands \in Nat /\ MaxReports \in Nat /\ MaxResponse \in Nat \ {0}

Threads == {"loop", "quit"}
Nobody == "nobody"
NULL == <<>>

VARIABLES
  pc,        \* [Threads -> "idle", "lock", "write", "poll", "spin"]
  holder,    \* who holds nmea_mutex
  now,       \* the command of each thread: its number, its kind, the blocks left
             \* to write, whether the modem did what it says, and whether nothing
             \* of an earlier command was to come when it was written
  response,  \* what the thread that holds the mutex has read so far
  result,    \* what the last call of each thread returned
  line,      \* what the modem has sent and nobody has read
  owed,      \* what the modem has still to send
  made,      \* commands so far, numbered from 1
  reports,   \* reports so far
  lost       \* the device is gone

modem == <<line, owed, reports, lost>>
vars == <<pc, holder, now, response, result, modem, made>>

\* Parts of an answer: an OK can fall into two reads.
Part(id, p) == [of |-> id, part |-> p]
Final(id, done) ==
  IF done THEN <<Part(id, "O"), Part(id, "K")>> ELSE <<Part(id, "ERROR")>>

\* "twins" are two commands that a client wrote in one go, "named" carries a
\* text that contains OK, which the modem echoes, "prompt" asks for data.
Answer(id, kind, done) ==
  CASE kind = "plain" -> Final(id, done)
    [] kind = "long" -> <<Part(id, "text")>> \o Final(id, done)
    [] kind = "prompt" -> IF done THEN <<Part(id, "> ")>> ELSE Final(id, FALSE)
    [] kind = "twins" -> Final(id, done) \o Final(id, TRUE)
    [] kind = "named" -> Final(id, TRUE) \o Final(id, done)

Blocks(kind) == IF kind = "long" THEN 2 ELSE 1

Command(id, kind, left) ==
  [id |-> id, kind |-> kind, left |-> left, done |-> FALSE, clean |-> FALSE]

Init ==
  /\ pc = [t \in Threads |-> "idle"] /\ holder = Nobody
  /\ now = [t \in Threads |-> Command(0, "plain", 0)]
  /\ response = NULL
  /\ result = [t \in Threads |-> NULL]
  /\ line = <<>> /\ owed = <<>>
  /\ made = 0 /\ reports = 0 /\ lost = FALSE

-----------------------------------------------------------------------------
\* strstr over what has been read: "OK", "> ", "ERROR".
SmallerOf(a, b) == IF a < b THEN a ELSE b
Shows(text, part) == \E i \in DOMAIN text : text[i].part = part

SaysOK(text) ==
  \E i \in 2..Len(text) : text[i - 1].part = "O" /\ text[i].part = "K"
Prompted(text) == Shows(text, "> ")
Complete(text) == SaysOK(text) \/ Prompted(text) \/ Shows(text, "ERROR")

-----------------------------------------------------------------------------
(* serial_send_AT_cmd, by either thread.                                   *)

Call(t, kind) ==
  /\ pc[t] = "idle" /\ made < MaxCommands
  /\ made' = made + 1 /\ pc' = [pc EXCEPT ![t] = "lock"]
  /\ now' = [now EXCEPT ![t] = Command(made + 1, kind, Blocks(kind))]
  /\ result' = [result EXCEPT ![t] = NULL]
  /\ UNCHANGED <<holder, response, modem>>

LockAnyway(t) ==   \* faulty: does not wait
  /\ pc[t] = "lock"
  /\ holder' = t /\ pc' = [pc EXCEPT ![t] = "write"] /\ response' = NULL
  /\ UNCHANGED <<now, result, modem, made>>

Lock(t) ==
  /\ pc[t] = "lock" /\ holder = Nobody
  /\ holder' = t /\ pc' = [pc EXCEPT ![t] = "write"] /\ response' = NULL
  /\ UNCHANGED <<now, result, modem, made>>

\* At most 256 bytes at a time.
WriteBlock(t) ==
  /\ pc[t] = "write" /\ ~lost /\ now[t].left > 1
  /\ now' = [now EXCEPT ![t].left = @ - 1]
  /\ UNCHANGED <<pc, holder, response, result, modem, made>>

\* With the last block the modem has the command, and does what it says or not.
WriteLast(t) ==
  /\ pc[t] = "write" /\ ~lost /\ now[t].left = 1
  /\ pc' = [pc EXCEPT ![t] = "poll"]
  /\ \E done \in BOOLEAN :
       /\ now' = [now EXCEPT ![t].left = 0, ![t].done = done,
                    ![t].clean = owed = <<>> /\ \A i \in DOMAIN line : line[i].of = 0]
       /\ owed' = owed \o Answer(now[t].id, now[t].kind, done)
  /\ UNCHANGED <<holder, response, result, line, reports, lost, made>>

\* A write returns -1, which is added to status: the loop never ends.
WriteFails(t) ==
  /\ pc[t] = "write" /\ lost
  /\ pc' = [pc EXCEPT ![t] = "spin"]
  /\ UNCHANGED <<holder, now, response, result, modem, made>>

ReturnLocked(t, text) ==   \* faulty: a silence leaves the mutex locked
  /\ result' = [result EXCEPT ![t] = text] /\ response' = NULL
  /\ pc' = [pc EXCEPT ![t] = "idle"]
  /\ holder' = IF text = NULL THEN holder ELSE Nobody

Return(t, text) ==
  /\ result' = [result EXCEPT ![t] = text] /\ response' = NULL
  /\ pc' = [pc EXCEPT ![t] = "idle"] /\ holder' = Nobody

\* A read takes what is there, and at most what the buffer holds.
ReadAll(t) ==   \* faulty: goes on behind the end of the buffer
  /\ pc[t] = "poll" /\ line # <<>>
  /\ line' = <<>>
  /\ LET text == response \o line IN
       IF Complete(text) THEN Return(t, text)
       ELSE response' = text /\ UNCHANGED <<pc, holder, result>>
  /\ UNCHANGED <<now, owed, reports, lost, made>>

Read(t) ==
  /\ pc[t] = "poll" /\ line # <<>>
  /\ LET n == SmallerOf(Len(line), MaxResponse - Len(response))
         text == response \o SubSeq(line, 1, n)
     IN /\ line' = SubSeq(line, n + 1, Len(line))
        /\ IF Complete(text) THEN Return(t, text)
           ELSE response' = text /\ UNCHANGED <<pc, holder, result>>
  /\ UNCHANGED <<now, owed, reports, lost, made>>

\* Nothing for 5 seconds: what has been read is the answer, or NULL.
TimeoutOK(t) ==   \* faulty: an unfinished answer counts as OK
  /\ pc[t] = "poll" /\ line = <<>> /\ ~lost
  /\ Return(t, IF response = NULL THEN NULL
               ELSE response \o Final(now[t].id, TRUE))
  /\ UNCHANGED <<now, modem, made>>

Timeout(t) ==
  /\ pc[t] = "poll" /\ line = <<>> /\ ~lost
  /\ Return(t, response)
  /\ UNCHANGED <<now, modem, made>>

\* poll fails when a signal handler has run.  While the first signal is handled
\* they are blocked in its thread, so that the loop thread takes the next one.
Interrupt ==
  /\ pc["loop"] = "poll" /\ pc["quit"] # "idle" /\ ~lost
  /\ Return("loop", NULL)
  /\ UNCHANGED <<now, modem, made>>

\* main_loop reads the control device between its commands, without the mutex.
ReadControl ==
  /\ pc["loop"] = "idle" /\ line # <<>>
  /\ line' = <<>>
  /\ UNCHANGED <<pc, holder, now, response, result, owed, reports, lost,
                 made>>

-----------------------------------------------------------------------------
(* The modem.                                                              *)

Send ==
  /\ owed # <<>> /\ line' = Append(line, Head(owed)) /\ owed' = Tail(owed)
  /\ UNCHANGED <<reports, lost>>

\* A report is a line of its own.
Report ==
  /\ reports < MaxReports /\ reports' = reports + 1
  /\ ~(owed # <<>> /\ Head(owed).part = "K")
  /\ line' = Append(line, Part(0, "report"))
  /\ UNCHANGED <<owed, lost>>

Lose == lost' = TRUE /\ line' = <<>> /\ owed' = <<>> /\ UNCHANGED reports

Modem ==
  /\ ~lost /\ (Send \/ Report \/ Lose)
  /\ UNCHANGED <<pc, holder, now, response, result, made>>

Step(t) == Lock(t) \/ WriteBlock(t) \/ WriteLast(t) \/ WriteFails(t) \/ Read(t)
           \/ Timeout(t)

Next == \/ \E t \in Threads : Step(t) \/ \E k \in Kinds : Call(t, k)
        \/ Interrupt \/ ReadControl \/ Modem

\* The threads run, and 5 seconds pass; the modem answers if and when it likes.
Spec ==
  /\ Init /\ [][Next]_vars
  /\ \A t \in Threads : WF_vars(Step(t))

-----------------------------------------------------------------------------
Parts == [of : 0..MaxCommands,
          part : {"text", "O", "K", "ERROR", "> ", "report"}]

\* The types; the mutex is held from its lock to the return.
TypeOK ==
  /\ pc \in [Threads -> {"idle", "lock", "write", "poll", "spin"}]
  /\ holder \in Threads \union {Nobody}
  /\ \A t \in Threads : pc[t] \in {"write", "poll", "spin"} <=> holder = t
  /\ now \in [Threads -> [id : 0..MaxCommands, kind : {"plain"} \union Kinds,
                         left : 0..2, done : BOOLEAN, clean : BOOLEAN]]
  /\ response \in Seq(Parts) /\ Len(response) <= MaxResponse
  /\ result \in [Threads -> Seq(Parts)]
  /\ line \in Seq(Parts) /\ owed \in Seq(Parts)
  /\ made \in 0..MaxCommands /\ reports \in 0..MaxReports /\ lost \in BOOLEAN

\* "Function that serializes command sending": whatever the other thread does,
\* a call that finds nothing of earlier commands on the line returns no part
\* of the answer to another command.
OwnAnswer ==
  \A t \in Threads : now[t].clean =>
    \A i \in DOMAIN result[t] : result[t][i].of \in {0, now[t].id}

\* And an OK or a prompt then means that the modem did what the command says,
\* though the answer came in pieces or with reports in it.  (Of several commands
\* in one call it can be the OK of any, and an echoed text can hold OK.)
OkIsTrue ==
  \A t \in Threads :
    /\ now[t].clean /\ now[t].kind \notin {"twins", "named"}
    /\ SaysOK(result[t]) \/ Prompted(result[t])
    => now[t].done

\* The answer has filled the buffer without a final result: a read of 0 bytes
\* repeats for ever.
Full == Len(response) = MaxResponse /\ line # <<>>

\* Every call returns, whatever the modem sends or does not send, unless the
\* device is lost or the buffer is full.
CallReturns ==
  \A t \in Threads : pc[t] = "lock" ~> pc[t] = "idle" \/ lost \/ Full
=============================================================================
