--------------------------- MODULE AtSerialProofs ---------------------------
(***************************************************************************)
(* Theorems about AtSerial, for any number of commands, reports and parts  *)
(* of an answer: its types with the mutex, and that a call that finds      *)
(* nothing of an earlier command on the line returns its own answer.       *)
(***************************************************************************)
EXTENDS AtSerial, SequenceTheorems, TLAPS

-----------------------------------------------------------------------------
\* What has been sent to the daemon, or is to be, and is not returned yet.
Stream == Range(response) \union Range(line) \union Range(owed)

\* The modem did not do what the command of t says, and what t has sent holds
\* no other command and no text.
Refused(t) == ~now[t].done /\ now[t].kind \notin {"twins", "named"}

\* The parts can be of the answer to t, or of reports.
Good(t, parts) ==
  now[t].clean => \A x \in parts : /\ x.of \in {0, now[t].id}
                                   /\ Refused(t) => x.part \notin {"O", "> "}

\* The call that holds the mutex cleared the line's buffer when it took it, and
\* has only its own answer and reports before it from then on.
AnswerInv ==
  /\ \A t \in Threads :
       /\ pc[t] # "idle" => now[t].id \in 1..made /\ result[t] = NULL
       /\ pc[t] \in {"lock", "write", "spin"} => ~now[t].clean
       /\ pc[t] = "write" => response = NULL
       /\ pc[t] = "poll" => Good(t, Stream)
       /\ Good(t, Range(result[t]))
  /\ \A x \in Range(line) \union Range(response) : x.of = 0 => x.part = "report"
  /\ \A x \in Range(owed) : x.of # 0

-----------------------------------------------------------------------------
(* Sequences of parts.                                                     *)

LEMMA RangeTail ==
  ASSUME NEW S, NEW s \in Seq(S), s # <<>>
  PROVE  /\ Head(s) \in Range(s) /\ Head(s) \in S
         /\ Tail(s) \in Seq(S) /\ Range(Tail(s)) \subseteq Range(s)
<1>1. s \in Seq(Range(s))
  BY SeqOfRange
<1>2. Tail(s) \in Seq(Range(s)) /\ Head(s) \in Range(s)
  BY <1>1, HeadTailProperties
<1>3. Range(Tail(s)) \in SUBSET Range(s)
  BY <1>2, RangeOfSeq
<1> QED BY <1>2, <1>3, HeadTailProperties

LEMMA RangeAppend ==
  ASSUME NEW S, NEW s \in Seq(S), NEW e \in S
  PROVE  Append(s, e) \in Seq(S) /\ Range(Append(s, e)) \subseteq Range(s) \union {e}
<1>1. s \in Seq(Range(s))
  BY SeqOfRange
<1>2. s \in Seq(Range(s) \union {e})
  BY <1>1, SeqMonotonic
<1>3. Append(s, e) \in Seq(Range(s) \union {e})
  BY <1>2, AppendProperties
<1> QED BY <1>3, AppendProperties, RangeOfSeq

LEMMA RangeSubSeq ==
  ASSUME NEW S, NEW s \in Seq(S), NEW m \in Nat \ {0}, NEW n \in 0..Len(s)
  PROVE  /\ SubSeq(s, m, n) \in Seq(S) /\ Range(SubSeq(s, m, n)) \subseteq Range(s)
         /\ Len(SubSeq(s, m, n)) = IF m <= n THEN n - m + 1 ELSE 0
<1>1. DOMAIN s = 1..Len(s) /\ Len(s) \in Nat
  BY LenProperties
<1>2. \A i \in m..n : s[i] \in Range(s) /\ s[i] \in S
  BY <1>1, ElementOfSeq DEF Range
<1>3. m \in Int /\ n \in Int
  BY <1>1
<1>4. SubSeq(s, m, n) \in Seq(S) /\ Len(SubSeq(s, m, n)) = IF m <= n THEN n - m + 1 ELSE 0
  BY <1>2, <1>3, SubSeqProperties
<1>5. SubSeq(s, m, n) \in Seq(Range(s))
  BY <1>2, <1>3, SubSeqProperties
<1> QED BY <1>4, <1>5, RangeOfSeq

LEMMA RangeConcat ==
  ASSUME NEW S, NEW s \in Seq(S), NEW t \in Seq(S)
  PROVE  s \o t \in Seq(S) /\ Range(s \o t) = Range(s) \union Range(t)
<1>1. s \o t \in Seq(S)
  BY ConcatProperties
<1>2. Range(s \o t) = Range(s) \union Range(t)
  BY RangeConcatenation
<1> QED BY <1>1, <1>2

LEMMA SeqFew ==
  ASSUME NEW S, NEW a \in S, NEW b \in S
  PROVE  <<a>> \in Seq(S) /\ <<a, b>> \in Seq(S)
OBVIOUS

LEMMA RangeFew ==
  /\ Range(<<>>) = {}
  /\ \A a : Range(<<a>>) = {a}
  /\ \A a, b : Range(<<a, b>>) = {a, b}
<1>1. Range(<<>>) = {}
  BY DEF Range
<1>2. ASSUME NEW a
      PROVE  Range(<<a>>) = {a}
  <2>1. DOMAIN <<a>> = {1} /\ <<a>>[1] = a
    OBVIOUS
  <2> QED BY <2>1 DEF Range
<1>3. ASSUME NEW a, NEW b
      PROVE  Range(<<a, b>>) = {a, b}
  <2>1. DOMAIN <<a, b>> = {1, 2} /\ <<a, b>>[1] = a /\ <<a, b>>[2] = b
    OBVIOUS
  <2> QED BY <2>1 DEF Range
<1> QED BY <1>1, <1>2, <1>3

\* A read takes what is there as far as the buffer holds it, and leaves the rest.
LEMMA ReadFacts ==
  ASSUME response \in Seq(Parts), Len(response) <= MaxResponse, line \in Seq(Parts),
         NEW n, n = SmallerOf(Len(line), MaxResponse - Len(response))
  PROVE  LET text == response \o SubSeq(line, 1, n)
             rest == SubSeq(line, n + 1, Len(line))
         IN /\ text \in Seq(Parts) /\ Len(text) <= MaxResponse /\ rest \in Seq(Parts)
            /\ Range(text) \subseteq Range(response) \union Range(line)
            /\ Range(rest) \subseteq Range(line)
<1> DEFINE taken == SubSeq(line, 1, n)
<1>1. Len(response) \in Nat /\ Len(line) \in Nat /\ MaxResponse \in Nat
  BY LenProperties, ConstantsOK
<1>2. n \in 0..Len(line) /\ n <= MaxResponse - Len(response)
  BY <1>1 DEF SmallerOf
<1>3. taken \in Seq(Parts) /\ Range(taken) \subseteq Range(line) /\ Len(taken) = n
  BY <1>1, <1>2, RangeSubSeq
<1>4. /\ SubSeq(line, n + 1, Len(line)) \in Seq(Parts)
      /\ Range(SubSeq(line, n + 1, Len(line))) \subseteq Range(line)
  BY <1>1, <1>2, n + 1 \in Nat \ {0}, Len(line) \in 0..Len(line), RangeSubSeq
<1>5. /\ response \o taken \in Seq(Parts)
      /\ Len(response \o taken) = Len(response) + n
      /\ Range(response \o taken) = Range(response) \union Range(taken)
  <2>1. response \o taken \in Seq(Parts) /\ Len(response \o taken) = Len(response) + n
    BY <1>3, ConcatProperties
  <2>2. Range(response \o taken) = Range(response) \union Range(taken)
    <3> HIDE DEF taken
    <3> QED BY <1>3, RangeConcat
  <2> QED BY <2>1, <2>2
<1> QED BY <1>1, <1>2, <1>3, <1>4, <1>5

LEMMA AnswerFacts ==
  ASSUME NEW id \in 0..MaxCommands, NEW kind, NEW done \in BOOLEAN,
         kind \in {"plain", "long", "prompt", "twins", "named"}
  PROVE  /\ Answer(id, kind, done) \in Seq(Parts)
         /\ \A x \in Range(Answer(id, kind, done)) : x.of = id
         /\ ~done /\ kind \notin {"twins", "named"} =>
              \A x \in Range(Answer(id, kind, done)) : x.part \notin {"O", "> "}
<1>1. \A p \in {"text", "O", "K", "ERROR", "> "} :
        Part(id, p) \in Parts /\ Part(id, p).of = id /\ Part(id, p).part = p
  BY DEF Part, Parts
<1>2. /\ Final(id, TRUE) = <<Part(id, "O"), Part(id, "K")>>
      /\ Final(id, FALSE) = <<Part(id, "ERROR")>>
  BY DEF Final
<1>3. \A d \in BOOLEAN : Final(id, d) \in Seq(Parts) /\ \A x \in Range(Final(id, d)) : x.of = id
  <2>1. Final(id, TRUE) \in Seq(Parts) /\ Final(id, FALSE) \in Seq(Parts)
    BY <1>1, <1>2, SeqFew
  <2>2. /\ Range(Final(id, TRUE)) = {Part(id, "O"), Part(id, "K")}
        /\ Range(Final(id, FALSE)) = {Part(id, "ERROR")}
    BY <1>2, RangeFew, Zenon
  <2> QED BY <1>1, <2>1, <2>2
<1>4. \A x \in Range(Final(id, FALSE)) : x.part = "ERROR"
  <2>1. Range(Final(id, FALSE)) = {Part(id, "ERROR")}
    BY <1>2, RangeFew, Zenon
  <2> QED BY <1>1, <2>1
<1>5. CASE kind = "plain"
  BY <1>3, <1>4, <1>5 DEF Answer
<1>6. CASE kind = "long"
  <2>1. /\ <<Part(id, "text")>> \in Seq(Parts)
        /\ Range(<<Part(id, "text")>>) = {Part(id, "text")}
    <3>1. <<Part(id, "text")>> \in Seq(Parts)
      BY <1>1, SeqFew
    <3> QED BY <3>1, RangeFew, Zenon
  <2>2. Answer(id, kind, done) = <<Part(id, "text")>> \o Final(id, done)
    BY <1>6 DEF Answer
  <2>3. /\ Answer(id, kind, done) \in Seq(Parts)
        /\ Range(Answer(id, kind, done)) = {Part(id, "text")} \union Range(Final(id, done))
    <3> DEFINE s == <<Part(id, "text")>>
    <3> DEFINE t == Final(id, done)
    <3>1. s \in Seq(Parts) /\ t \in Seq(Parts) /\ Answer(id, kind, done) = s \o t
      BY <1>3, <2>1, <2>2
    <3> HIDE DEF s, t
    <3>2. s \o t \in Seq(Parts) /\ Range(s \o t) = Range(s) \union Range(t)
      BY <3>1, RangeConcat
    <3> QED BY <2>1, <3>1, <3>2 DEF s, t
  <2> QED BY <1>1, <1>3, <1>4, <2>3
<1>7. CASE kind = "prompt"
  <2>1. /\ <<Part(id, "> ")>> \in Seq(Parts)
        /\ Range(<<Part(id, "> ")>>) = {Part(id, "> ")}
    <3>1. <<Part(id, "> ")>> \in Seq(Parts)
      BY <1>1, SeqFew
    <3> QED BY <3>1, RangeFew, Zenon
  <2>2. Answer(id, kind, done) = IF done THEN <<Part(id, "> ")>> ELSE Final(id, FALSE)
    BY <1>7 DEF Answer
  <2> QED BY <1>1, <1>3, <1>4, <2>1, <2>2
<1>8. CASE kind \in {"twins", "named"}
  <2>1. \/ Answer(id, kind, done) = Final(id, done) \o Final(id, TRUE)
        \/ Answer(id, kind, done) = Final(id, TRUE) \o Final(id, done)
    BY <1>8 DEF Answer
  <2>2. /\ Answer(id, kind, done) \in Seq(Parts)
        /\ Range(Answer(id, kind, done)) = Range(Final(id, done)) \union Range(Final(id, TRUE))
    <3> DEFINE s == Final(id, done)
    <3> DEFINE t == Final(id, TRUE)
    <3>1. s \in Seq(Parts) /\ t \in Seq(Parts)
      BY <1>3
    <3> HIDE DEF s, t
    <3>2. /\ s \o t \in Seq(Parts) /\ Range(s \o t) = Range(s) \union Range(t)
          /\ t \o s \in Seq(Parts) /\ Range(t \o s) = Range(s) \union Range(t)
      BY <3>1, RangeConcat
    <3> QED BY <2>1, <3>1, <3>2 DEF s, t
  <2> QED BY <1>3, <1>8, <2>2
<1> QED BY <1>5, <1>6, <1>7, <1>8

-----------------------------------------------------------------------------
(* Types and the mutex.                                                    *)

Commands == [id : 0..MaxCommands, kind : {"plain"} \union Kinds,
             left : 0..2, done : BOOLEAN, clean : BOOLEAN]

\* The threads, and the line.
ThreadType ==
  /\ pc \in [Threads -> {"idle", "lock", "write", "poll", "spin"}]
  /\ holder \in Threads \union {Nobody}
  /\ \A t \in Threads : pc[t] \in {"write", "poll", "spin"} <=> holder = t
  /\ result \in [Threads -> Seq(Parts)]

LineType ==
  /\ response \in Seq(Parts) /\ Len(response) <= MaxResponse
  /\ line \in Seq(Parts) /\ owed \in Seq(Parts)
  /\ made \in 0..MaxCommands /\ reports \in 0..MaxReports /\ lost \in BOOLEAN

NowType == now \in [Threads -> Commands]

LEMMA Types ==
  /\ TypeOK <=> ThreadType /\ NowType /\ LineType
  /\ TypeOK' <=> ThreadType' /\ NowType' /\ LineType'
BY Zenon DEF TypeOK, ThreadType, NowType, LineType, Commands

LEMMA EmptyFacts ==
  <<>> \in Seq(Parts) /\ Len(<<>>) = 0 /\ 0 <= MaxResponse /\ NULL = <<>>
BY ConstantsOK DEF NULL

\* A new command.
LEMMA NewCommand ==
  ASSUME NEW id \in 0..MaxCommands, NEW kind \in {"plain"} \union Kinds, NEW left \in 0..2
  PROVE  /\ Command(id, kind, left) \in Commands
         /\ Command(id, kind, left).id = id
         /\ ~Command(id, kind, left).clean
<1>1. FALSE \in BOOLEAN
  OBVIOUS
<1>2. Command(id, kind, left) \in Commands
  BY <1>1 DEF Command, Commands
<1>3. Command(id, kind, left).id = id
  BY DEF Command
<1>4. ~Command(id, kind, left).clean
  <2>1. Command(id, kind, left).clean = FALSE
    BY DEF Command
  <2> QED BY <2>1
<1> QED BY <1>2, <1>3, <1>4

LEMMA InitType ==
  ASSUME Init
  PROVE  TypeOK
<1>1. Command(0, "plain", 0) \in Commands
  BY ConstantsOK, NewCommand
<1>2. NowType
  BY <1>1 DEF Init, NowType
<1>3. ThreadType
  BY EmptyFacts DEF Init, ThreadType, Threads, Nobody
<1>4. lost \in BOOLEAN
  BY Zenon DEF Init
<1>5. LineType
  BY <1>4, EmptyFacts, ConstantsOK DEF Init, LineType
<1> QED BY <1>2, <1>3, <1>5, Types

LEMMA CallType ==
  ASSUME TypeOK, NEW t \in Threads, NEW kind \in Kinds, Call(t, kind)
  PROVE  TypeOK'
<1> USE Types
<1>1. made + 1 \in 0..MaxCommands /\ Blocks(kind) \in 0..2
  BY ConstantsOK DEF Call, LineType, Blocks
<1>2. Command(made + 1, kind, Blocks(kind)) \in Commands
  BY <1>1, NewCommand
<1>3. NowType'
  BY <1>2 DEF Call, NowType
<1>4. ThreadType'
  BY EmptyFacts DEF Call, ThreadType, Threads, Nobody
<1>5. LineType'
  BY <1>1 DEF Call, LineType, modem
<1> QED BY <1>3, <1>4, <1>5

LEMMA LockType ==
  ASSUME TypeOK, NEW t \in Threads, Lock(t)
  PROVE  TypeOK'
<1> USE Types
<1>1. NowType'
  BY DEF Lock, NowType
<1>2. ThreadType'
  BY DEF Lock, ThreadType, Threads, Nobody
<1>3. LineType'
  BY EmptyFacts DEF Lock, LineType, modem
<1> QED BY <1>1, <1>2, <1>3

LEMMA WriteBlockType ==
  ASSUME TypeOK, NEW t \in Threads, WriteBlock(t) \/ WriteFails(t)
  PROVE  TypeOK'
<1> USE Types
<1>1. NowType'
  <2>1. CASE WriteBlock(t)
    <3>1. now[t] \in Commands /\ now[t].left - 1 \in 0..2
      BY <2>1 DEF WriteBlock, NowType, Commands
    <3>2. [now[t] EXCEPT !.left = now[t].left - 1] \in Commands
      BY <3>1 DEF Commands
    <3>3. now' = [now EXCEPT ![t] = [now[t] EXCEPT !.left = now[t].left - 1]]
      BY <2>1 DEF WriteBlock, NowType
    <3> QED BY <3>2, <3>3 DEF NowType
  <2>2. CASE WriteFails(t)
    BY <2>2 DEF WriteFails, NowType
  <2> QED BY <2>1, <2>2
<1>2. ThreadType'
  BY DEF WriteBlock, WriteFails, ThreadType, Threads, Nobody
<1>3. LineType'
  BY DEF WriteBlock, WriteFails, LineType, modem
<1> QED BY <1>1, <1>2, <1>3

\* The modem has the command: what it answers follows what it still owes.
LEMMA WriteLastFacts ==
  ASSUME TypeOK, NEW t \in Threads, WriteLast(t)
  PROVE  \E done, clean \in BOOLEAN :
           /\ now' = [now EXCEPT ![t] = [now[t] EXCEPT !.left = 0, !.done = done, !.clean = clean]]
           /\ clean => owed = <<>> /\ \A i \in DOMAIN line : line[i].of = 0
           /\ owed' = owed \o Answer(now[t].id, now[t].kind, done)
           /\ Answer(now[t].id, now[t].kind, done) \in Seq(Parts)
           /\ Range(owed') =
                Range(owed) \union Range(Answer(now[t].id, now[t].kind, done))
           /\ owed' \in Seq(Parts)
           /\ \A x \in Range(Answer(now[t].id, now[t].kind, done)) :
                /\ x.of = now[t].id
                /\ ~done /\ now[t].kind \notin {"twins", "named"} => x.part \notin {"O", "> "}
<1> USE Types
<1> DEFINE clean == owed = <<>> /\ \A i \in DOMAIN line : line[i].of = 0
<1>1. PICK done \in BOOLEAN :
        /\ now' = [now EXCEPT ![t].left = 0, ![t].done = done, ![t].clean = clean]
        /\ owed' = owed \o Answer(now[t].id, now[t].kind, done)
  BY Zenon DEF WriteLast
<1>2. clean \in BOOLEAN
  BY Zenon
<1>3. now[t] \in Commands /\ now[t].id \in 0..MaxCommands
      /\ now[t].kind \in {"plain", "long", "prompt", "twins", "named"}
  BY ConstantsOK DEF NowType, Commands
<1> DEFINE answer == Answer(now[t].id, now[t].kind, done)
<1>4. /\ answer \in Seq(Parts)
      /\ \A x \in Range(answer) :
           /\ x.of = now[t].id
           /\ ~done /\ now[t].kind \notin {"twins", "named"} => x.part \notin {"O", "> "}
  BY <1>3, AnswerFacts
<1>5. owed \in Seq(Parts)
  BY DEF LineType
<1> HIDE DEF answer, clean
<1>6. owed \o answer \in Seq(Parts) /\ Range(owed \o answer) = Range(owed) \union Range(answer)
  BY <1>4, <1>5, RangeConcat
<1>7. now' = [now EXCEPT ![t] = [now[t] EXCEPT !.left = 0, !.done = done, !.clean = clean]]
  BY <1>1 DEF NowType
<1>8. clean => owed = <<>> /\ \A i \in DOMAIN line : line[i].of = 0
  BY DEF clean
<1>9. owed' = owed \o answer
  BY <1>1 DEF answer
<1> QED BY <1>2, <1>4, <1>6, <1>7, <1>8, <1>9 DEF answer

LEMMA FieldsChanged ==
  ASSUME NEW I, NEW K, NEW L, NEW D, NEW C,
         NEW r \in [id : I, kind : K, left : L, done : D, clean : C],
         NEW l \in L, NEW d \in D, NEW c \in C
  PROVE  [r EXCEPT !.left = l, !.done = d, !.clean = c]
           \in [id : I, kind : K, left : L, done : D, clean : C]
OBVIOUS

LEMMA WriteLastType ==
  ASSUME TypeOK, NEW t \in Threads, WriteLast(t)
  PROVE  TypeOK'
<1> USE Types
<1>1. PICK done \in BOOLEAN, clean \in BOOLEAN :
        /\ now' = [now EXCEPT ![t] = [now[t] EXCEPT !.left = 0, !.done = done, !.clean = clean]]
        /\ owed' \in Seq(Parts)
  BY WriteLastFacts
<1>2. NowType'
  <2>1. now[t] \in Commands
    BY DEF NowType
  <2>2. [now[t] EXCEPT !.left = 0, !.done = done, !.clean = clean] \in Commands
    BY <2>1, 0 \in 0..2, FieldsChanged, Zenon DEF Commands
  <2> QED BY <1>1, <2>2 DEF NowType
<1>3. ThreadType'
  BY DEF WriteLast, ThreadType, Threads, Nobody
<1>4. LineType'
  BY <1>1 DEF WriteLast, LineType
<1> QED BY <1>2, <1>3, <1>4

\* What a call returns, and that it leaves the mutex.
LEMMA ReturnType ==
  ASSUME TypeOK, NEW t \in Threads, NEW text \in Seq(Parts), Return(t, text),
         holder = t
  PROVE  ThreadType' /\ response' \in Seq(Parts) /\ Len(response') <= MaxResponse
<1> USE Types
<1>1. response' = <<>>
  BY DEF Return, NULL
<1>2. ThreadType'
  BY DEF Return, ThreadType, Threads, Nobody
<1> QED BY <1>1, <1>2, EmptyFacts

LEMMA ReadCases ==
  ASSUME TypeOK, NEW t \in Threads, Read(t)
  PROVE  \E text \in Seq(Parts) :
           /\ Range(text) \subseteq Range(response) \union Range(line)
           /\ Range(line') \subseteq Range(line) /\ line' \in Seq(Parts)
           /\ Len(text) <= MaxResponse
           /\ \/ Return(t, text)
              \/ response' = text /\ UNCHANGED <<pc, holder, result>>
<1> DEFINE n == SmallerOf(Len(line), MaxResponse - Len(response))
<1> DEFINE text == response \o SubSeq(line, 1, n)
<1> DEFINE rest == SubSeq(line, n + 1, Len(line))
<1>1. /\ line' = rest
      /\ IF Complete(text) THEN Return(t, text)
         ELSE response' = text /\ UNCHANGED <<pc, holder, result>>
  BY Zenon DEF Read
<1>2. /\ text \in Seq(Parts) /\ Len(text) <= MaxResponse /\ rest \in Seq(Parts)
      /\ Range(text) \subseteq Range(response) \union Range(line)
      /\ Range(rest) \subseteq Range(line)
  BY Types, ReadFacts DEF LineType
<1> HIDE DEF text, rest
<1>3. \/ Return(t, text)
      \/ response' = text /\ UNCHANGED <<pc, holder, result>>
  BY <1>1, Zenon
<1> QED BY <1>1, <1>2, <1>3

LEMMA ReadType ==
  ASSUME TypeOK, NEW t \in Threads, Read(t)
  PROVE  TypeOK'
<1> USE Types
<1>1. UNCHANGED <<now, owed, reports, lost, made>> /\ holder = t
  BY DEF Read, ThreadType
<1>2. PICK text \in Seq(Parts) :
        /\ line' \in Seq(Parts) /\ Len(text) <= MaxResponse
        /\ \/ Return(t, text)
           \/ response' = text /\ UNCHANGED <<pc, holder, result>>
  BY ReadCases
<1>3. ThreadType' /\ response' \in Seq(Parts) /\ Len(response') <= MaxResponse
  <2>1. CASE Return(t, text)
    BY <1>1, <2>1, ReturnType
  <2>2. CASE response' = text /\ UNCHANGED <<pc, holder, result>>
    BY <1>2, <2>2 DEF ThreadType
  <2> QED BY <1>2, <2>1, <2>2
<1>4. NowType' /\ LineType'
  BY <1>1, <1>2, <1>3 DEF NowType, LineType
<1> QED BY <1>3, <1>4

LEMMA GiveUpType ==
  ASSUME TypeOK, \/ \E t \in Threads : Timeout(t)
                 \/ Interrupt
  PROVE  TypeOK'
<1> USE Types
<1>1. PICK t \in Threads, text \in Seq(Parts) :
        /\ pc[t] = "poll" /\ Return(t, text) /\ UNCHANGED <<now, modem, made>>
  BY EmptyFacts DEF Timeout, Interrupt, LineType, Threads
<1>2. holder = t
  BY <1>1 DEF ThreadType
<1>3. ThreadType' /\ response' \in Seq(Parts) /\ Len(response') <= MaxResponse
  BY <1>1, <1>2, ReturnType
<1> QED BY <1>1, <1>3 DEF NowType, LineType, modem

LEMMA ModemFacts ==
  ASSUME TypeOK, Modem \/ ReadControl
  PROVE  /\ UNCHANGED <<pc, holder, now, response, result, made>>
         /\ line' \in Seq(Parts) /\ owed' \in Seq(Parts)
         /\ reports' \in 0..MaxReports /\ lost' \in BOOLEAN
         /\ Range(line') \union Range(owed') \subseteq
              Range(line) \union Range(owed) \union {Part(0, "report")}
         /\ Range(line') \subseteq Range(line) \union Range(owed) \union {Part(0, "report")}
         /\ Range(owed') \subseteq Range(owed)
<1> USE Types
<1>1. line \in Seq(Parts) /\ owed \in Seq(Parts) /\ reports \in 0..MaxReports
  BY DEF LineType
<1>2. lost \in BOOLEAN
  BY Zenon DEF LineType
<1>3. CASE Modem /\ Send
  <2>1. /\ owed # <<>> /\ line' = Append(line, Head(owed)) /\ owed' = Tail(owed)
        /\ UNCHANGED <<reports, lost, pc, holder, now, response, result, made>>
    BY <1>3 DEF Modem, Send
  <2>2. /\ Head(owed) \in Range(owed) /\ Head(owed) \in Parts
        /\ Tail(owed) \in Seq(Parts) /\ Range(Tail(owed)) \subseteq Range(owed)
    BY <1>1, <2>1, RangeTail
  <2>3. /\ Append(line, Head(owed)) \in Seq(Parts)
        /\ Range(Append(line, Head(owed))) \subseteq Range(line) \union {Head(owed)}
    BY <1>1, <2>2, RangeAppend
  <2> QED BY <1>1, <1>2, <2>1, <2>2, <2>3
<1>4. CASE Modem /\ Report
  <2>1. /\ line' = Append(line, Part(0, "report")) /\ reports' \in 0..MaxReports
        /\ UNCHANGED <<owed, lost, pc, holder, now, response, result, made>>
    BY <1>1, <1>4, ConstantsOK DEF Modem, Report
  <2>2. Part(0, "report") \in Parts
    BY ConstantsOK DEF Part, Parts
  <2>3. /\ Append(line, Part(0, "report")) \in Seq(Parts)
        /\ Range(Append(line, Part(0, "report"))) \subseteq Range(line) \union {Part(0, "report")}
    BY <1>1, <2>2, RangeAppend
  <2> QED BY <1>1, <1>2, <2>1, <2>3
<1>5. CASE Modem /\ Lose
  <2>1. /\ line' = <<>> /\ owed' = <<>>
        /\ UNCHANGED <<reports, pc, holder, now, response, result, made>>
    BY <1>5 DEF Modem, Lose
  <2>2. lost' \in BOOLEAN
    BY <1>5, Zenon DEF Lose
  <2> QED BY <1>1, <2>1, <2>2, EmptyFacts, RangeFew
<1>6. CASE ReadControl
  BY <1>1, <1>2, <1>6, EmptyFacts, RangeFew DEF ReadControl
<1> QED BY <1>3, <1>4, <1>5, <1>6 DEF Modem

LEMMA NextType ==
  ASSUME TypeOK, [Next]_vars
  PROVE  TypeOK'
<1>1. CASE UNCHANGED vars
  <2>1. UNCHANGED <<pc, holder, now, response, result, line, owed, reports, lost, made>>
    BY <1>1 DEF vars, modem
  <2> QED BY <2>1, Types DEF ThreadType, NowType, LineType
<1>2. CASE Modem \/ ReadControl
  BY <1>2, ModemFacts, Types DEF ThreadType, NowType, LineType
<1>3. CASE Next /\ ~(Modem \/ ReadControl)
  BY <1>3, CallType, LockType, WriteBlockType, WriteLastType, ReadType, GiveUpType
     DEF Next, Step
<1> QED BY <1>1, <1>2, <1>3

\* The types; and nmea_mutex is held from its lock to the return, by one thread.
THEOREM TypeCorrect == Spec => []TypeOK
BY InitType, NextType, PTL DEF Spec

-----------------------------------------------------------------------------
(* A call returns its own answer.                                          *)

LEMMA InitAnswer ==
  ASSUME Init
  PROVE  AnswerInv
<1>1. \A t \in Threads : ~now[t].clean
  BY NewCommand, ConstantsOK DEF Init
<1>2. Range(line) = {} /\ Range(owed) = {} /\ Range(response) = {}
  BY RangeFew DEF Init, NULL
<1> QED BY <1>1, <1>2 DEF Init, AnswerInv, Good

\* Fewer parts, or only reports more, of a call that stays the same.
LEMMA GoodKept ==
  ASSUME NEW t \in Threads, NEW S, NEW S1, now'[t] = now[t], Good(t, S),
         S1 \subseteq S \union {Part(0, "report")}
  PROVE  (now[t].clean => \A x \in S1 : /\ x.of \in {0, now[t].id}
                                        /\ Refused(t) => x.part \notin {"O", "> "})'
<1>1. Part(0, "report").of = 0 /\ Part(0, "report").part = "report"
  BY DEF Part
<1>2. Refused(t)' <=> Refused(t)
  BY Zenon DEF Refused
<1> QED BY <1>1, <1>2 DEF Good

LEMMA ModemStep ==
  ASSUME TypeOK, AnswerInv, Modem \/ ReadControl
  PROVE  AnswerInv'
<1>1. /\ UNCHANGED <<pc, holder, now, response, result, made>>
      /\ Range(line') \subseteq Range(line) \union Range(owed) \union {Part(0, "report")}
      /\ Range(owed') \subseteq Range(owed)
  BY ModemFacts
<1>2. Part(0, "report").of = 0 /\ Part(0, "report").part = "report"
  BY DEF Part
<1>3. Stream' \subseteq Stream \union {Part(0, "report")}
  BY <1>1 DEF Stream
<1>4. ASSUME NEW t \in Threads
      PROVE  /\ Good(t, Stream) => Good(t, Stream)'
             /\ Good(t, Range(result[t])) => Good(t, Range(result[t]))'
  <2>1. Good(t, Stream) => Good(t, Stream)'
    BY <1>1, <1>3, GoodKept DEF Good
  <2>2. Good(t, Range(result[t])) => Good(t, Range(result[t]))'
    BY <1>1, GoodKept DEF Good
  <2> QED BY <2>1, <2>2
<1> QED BY <1>1, <1>2, <1>4 DEF AnswerInv

LEMMA CallStep ==
  ASSUME TypeOK, AnswerInv, NEW t \in Threads, NEW kind \in Kinds, Call(t, kind)
  PROVE  AnswerInv'
<1>1. made + 1 \in 0..MaxCommands /\ Blocks(kind) \in 0..2 /\ made \in Nat
  BY ConstantsOK, Types DEF Call, LineType, Blocks
<1>2. /\ made' = made + 1 /\ pc' = [pc EXCEPT ![t] = "lock"]
      /\ now' = [now EXCEPT ![t] = Command(made + 1, kind, Blocks(kind))]
      /\ result' = [result EXCEPT ![t] = NULL]
      /\ UNCHANGED <<response, line, owed>>
  BY DEF Call, modem
<1>3. now'[t].id = made + 1 /\ ~now'[t].clean /\ result'[t] = NULL /\ pc'[t] = "lock"
  <2> DEFINE c == Command(made + 1, kind, Blocks(kind))
  <2>1. c.id = made + 1 /\ ~c.clean
    BY <1>1, NewCommand
  <2> HIDE DEF c
  <2>2. now' = [now EXCEPT ![t] = c]
    BY <1>2 DEF c
  <2>3. now'[t] = c /\ result'[t] = NULL /\ pc'[t] = "lock"
    BY <1>2, <2>2, Types DEF NowType, ThreadType
  <2> QED BY <2>1, <2>3
<1>4. \A u \in Threads \ {t} : now'[u] = now[u] /\ result'[u] = result[u] /\ pc'[u] = pc[u]
  BY <1>2, Types DEF NowType, ThreadType
<1>5. Stream' = Stream
  BY <1>2 DEF Stream
<1>6. ASSUME NEW u \in Threads \ {t}
      PROVE  /\ Good(u, Stream) => Good(u, Stream)'
             /\ Good(u, Range(result[u])) => Good(u, Range(result[u]))'
  <2>1. Good(u, Stream) => Good(u, Stream)'
    BY <1>4, <1>5, GoodKept DEF Good
  <2>2. Good(u, Range(result[u])) => Good(u, Range(result[u]))'
    BY <1>4, GoodKept DEF Good
  <2> QED BY <2>1, <2>2
<1>7. Good(t, Stream)' /\ Good(t, Range(result[t]))'
  BY <1>3 DEF Good
<1> QED BY <1>1, <1>2, <1>3, <1>4, <1>6, <1>7 DEF AnswerInv

\* Steps of a call before the modem has the command.
LEMMA LockStep ==
  ASSUME TypeOK, AnswerInv, NEW t \in Threads,
         Lock(t) \/ WriteBlock(t) \/ WriteFails(t)
  PROVE  AnswerInv'
<1> USE Types
<1>1. /\ pc[t] \in {"lock", "write"} /\ pc'[t] \in {"write", "spin"}
      /\ response' \in {response, NULL} /\ UNCHANGED <<line, owed, result, made>>
      /\ pc' = [pc EXCEPT ![t] = pc'[t]]
      /\ pc'[t] = "write" => response' = NULL
      /\ \A u \in Threads : u # t => pc[u] # "poll" /\ pc[u] # "write"
  BY DEF Lock, WriteBlock, WriteFails, ThreadType, AnswerInv, modem, Threads, Nobody
<1>2. \A u \in Threads : now'[u].id = now[u].id /\ now'[u].clean = now[u].clean
                         /\ (u # t => now'[u] = now[u])
  <2>1. CASE WriteBlock(t)
    <3>1. now' = [now EXCEPT ![t] = [now[t] EXCEPT !.left = now[t].left - 1]]
      BY <2>1 DEF WriteBlock, NowType
    <3>2. LET r == [now[t] EXCEPT !.left = now[t].left - 1]
          IN r.id = now[t].id /\ r.clean = now[t].clean
      BY DEF NowType, Commands
    <3> QED BY <3>1, <3>2 DEF NowType
  <2>2. CASE Lock(t) \/ WriteFails(t)
    BY <2>2 DEF Lock, WriteFails
  <2> QED BY <2>1, <2>2
<1>3. ~now[t].clean
  BY <1>1 DEF AnswerInv
<1>4. ~now'[t].clean
  BY <1>2, <1>3
<1>5. \A u \in Threads \ {t} : pc'[u] = pc[u]
  BY <1>1 DEF ThreadType
<1>6. \A u \in Threads : Good(u, Range(result[u]))'
  <2>1. Good(t, Range(result[t]))'
    BY <1>4 DEF Good
  <2>2. ASSUME NEW u \in Threads \ {t}
        PROVE  Good(u, Range(result[u]))'
    BY <1>1, <1>2, GoodKept DEF Good, AnswerInv
  <2> QED BY <2>1, <2>2
<1>7. Range(response') \subseteq Range(response)
  BY <1>1, RangeFew DEF NULL
<1> QED BY <1>1, <1>2, <1>4, <1>5, <1>6, <1>7 DEF AnswerInv

LEMMA WriteLastStep ==
  ASSUME TypeOK, AnswerInv, NEW t \in Threads, WriteLast(t)
  PROVE  AnswerInv'
<1> USE Types
<1>1. PICK done \in BOOLEAN, clean \in BOOLEAN :
           /\ now' = [now EXCEPT ![t] = [now[t] EXCEPT !.left = 0, !.done = done, !.clean = clean]]
           /\ clean => owed = <<>> /\ \A i \in DOMAIN line : line[i].of = 0
           /\ Range(owed') =
                Range(owed) \union Range(Answer(now[t].id, now[t].kind, done))
           /\ \A x \in Range(Answer(now[t].id, now[t].kind, done)) :
                /\ x.of = now[t].id
                /\ ~done /\ now[t].kind \notin {"twins", "named"} => x.part \notin {"O", "> "}
  BY WriteLastFacts
<1> DEFINE parts == Range(Answer(now[t].id, now[t].kind, done))
<1> HIDE DEF parts
<1>2. /\ pc[t] = "write" /\ pc'[t] = "poll" /\ \A u \in Threads \ {t} : pc'[u] = pc[u]
      /\ UNCHANGED <<response, result, line, made>> /\ response = NULL
      /\ now[t].id \in 1..made /\ result[t] = NULL
      /\ \A u \in Threads \ {t} : pc[u] # "poll"
  BY DEF WriteLast, ThreadType, AnswerInv, Threads
<1>3. /\ now'[t].id = now[t].id /\ now'[t].kind = now[t].kind
      /\ now'[t].done = done /\ now'[t].clean = clean
      /\ \A u \in Threads \ {t} : now'[u] = now[u]
  BY <1>1 DEF NowType, Commands
<1>4. ASSUME clean, NEW x \in Stream'
      PROVE  x.of \in {0, now'[t].id} /\ (Refused(t)' => x.part \notin {"O", "> "})
  <2>1. x \in Range(line) \/ x \in parts
    BY <1>1, <1>2, <1>4, RangeFew DEF Stream, NULL, parts
  <2>2. CASE x \in Range(line)
    <3>1. x.of = 0
      BY <1>1, <1>4, <2>2 DEF Range
    <3> QED BY <3>1, <2>2 DEF AnswerInv
  <2>3. CASE x \in parts
    <3>1. Refused(t)' => ~done /\ now[t].kind \notin {"twins", "named"}
      BY <1>3 DEF Refused
    <3> QED BY <1>1, <1>3, <2>3, <3>1 DEF parts
  <2> QED BY <2>1, <2>2, <2>3
<1>5. Good(t, Stream)'
  BY <1>3, <1>4 DEF Good
<1>6. \A u \in Threads : Good(u, Range(result[u]))'
  <2>1. Good(t, Range(result[t]))'
    BY <1>2, RangeFew DEF Good, NULL
  <2>2. ASSUME NEW u \in Threads \ {t}
        PROVE  Good(u, Range(result[u]))'
    BY <1>2, <1>3, GoodKept DEF Good, AnswerInv
  <2> QED BY <2>1, <2>2
<1>7. \A x \in Range(owed)' : x.of # 0
  <2>1. now[t].id # 0
    BY <1>2 DEF LineType
  <2>2. Range(owed)' = Range(owed) \union parts /\ \A x \in parts : x.of = now[t].id
    BY <1>1 DEF parts
  <2> QED BY <2>1, <2>2 DEF AnswerInv
<1> QED BY <1>2, <1>3, <1>5, <1>6, <1>7 DEF AnswerInv

\* What a call returns is what it has read of the line.
LEMMA ReturnStep ==
  ASSUME TypeOK, AnswerInv, NEW t \in Threads, NEW text, pc[t] = "poll",
         Return(t, text), UNCHANGED <<now, made, owed>>,
         Range(text) \subseteq Range(response) \union Range(line),
         Range(line') \subseteq Range(line)
  PROVE  AnswerInv'
<1> USE Types
<1>1. /\ pc'[t] = "idle" /\ result'[t] = text /\ response' = NULL
      /\ \A u \in Threads \ {t} :
           pc'[u] = pc[u] /\ result'[u] = result[u] /\ pc[u] # "poll"
  BY DEF Return, ThreadType
<1>2. Good(t, Range(result[t]))'
  <2>1. Good(t, Stream) /\ Range(text) \subseteq Stream
    BY DEF AnswerInv, Stream
  <2> QED BY <1>1, <2>1, GoodKept DEF Good
<1>3. \A u \in Threads \ {t} : Good(u, Range(result[u]))'
  BY <1>1, GoodKept DEF Good, AnswerInv
<1>4. Range(response') = {}
  BY <1>1, RangeFew DEF NULL
<1> QED BY <1>1, <1>2, <1>3, <1>4 DEF AnswerInv

LEMMA ReadStep ==
  ASSUME TypeOK, AnswerInv, NEW t \in Threads, Read(t)
  PROVE  AnswerInv'
<1> USE Types
<1>1. UNCHANGED <<now, owed, made>> /\ pc[t] = "poll" /\ holder = t
  BY DEF Read, ThreadType
<1>2. PICK text \in Seq(Parts) :
        /\ Range(text) \subseteq Range(response) \union Range(line)
        /\ Range(line') \subseteq Range(line)
        /\ \/ Return(t, text)
           \/ response' = text /\ UNCHANGED <<pc, holder, result>>
  BY ReadCases
<1>3. CASE Return(t, text)
  BY <1>1, <1>2, <1>3, ReturnStep
<1>4. CASE response' = text /\ UNCHANGED <<pc, holder, result>>
  <2>1. Stream' \subseteq Stream
    BY <1>1, <1>2, <1>4 DEF Stream
  <2>2. \A u \in Threads : /\ Good(u, Stream) => Good(u, Stream)'
                           /\ Good(u, Range(result[u])) => Good(u, Range(result[u]))'
    BY <1>1, <1>4, <2>1, GoodKept DEF Good
  <2>3. \A u \in Threads : pc[u] # "write"
    BY <1>1 DEF ThreadType
  <2> QED BY <1>1, <1>2, <1>4, <2>2, <2>3 DEF AnswerInv
<1> QED BY <1>2, <1>3, <1>4

LEMMA GiveUpStep ==
  ASSUME TypeOK, AnswerInv, \/ \E t \in Threads : Timeout(t)
                            \/ Interrupt
  PROVE  AnswerInv'
<1>1. PICK t \in Threads, text \in {response, NULL} :
        /\ pc[t] = "poll" /\ Return(t, text) /\ UNCHANGED <<now, made, owed, line>>
  BY DEF Timeout, Interrupt, Threads, modem
<1>2. Range(text) \subseteq Range(response)
  BY RangeFew DEF NULL
<1> QED BY <1>1, <1>2, ReturnStep

LEMMA AnswerCorrect == Spec => []AnswerInv
<1>1. ASSUME TypeOK, AnswerInv, [Next]_vars
      PROVE  AnswerInv'
  <2>1. CASE UNCHANGED vars
    <3>1. UNCHANGED <<pc, holder, now, response, result, line, owed, made>>
      BY <2>1 DEF vars, modem
    <3>2. Stream' = Stream
      BY <3>1 DEF Stream
    <3>3. \A u \in Threads : /\ Good(u, Stream) => Good(u, Stream)'
                             /\ Good(u, Range(result[u])) => Good(u, Range(result[u]))'
      BY <3>1, <3>2, GoodKept DEF Good
    <3> QED BY <1>1, <3>1, <3>3 DEF AnswerInv
  <2>2. CASE Modem \/ ReadControl
    BY <1>1, <2>2, ModemStep
  <2>3. CASE Next /\ ~(Modem \/ ReadControl)
    BY <1>1, <2>3, CallStep, LockStep, WriteLastStep, ReadStep, GiveUpStep DEF Next, Step
  <2> QED BY <1>1, <2>1, <2>2, <2>3
<1> QED BY <1>1, InitAnswer, TypeCorrect, PTL DEF Spec

\* serial_send_AT_cmd "serializes command sending": whatever the other thread
\* and the main loop do, a call that finds nothing of an earlier command on the
\* line returns no part of the answer to another command.
THEOREM CallsGetTheirAnswer == Spec => []OwnAnswer
<1>1. AnswerInv => OwnAnswer
  <2> SUFFICES ASSUME AnswerInv, NEW t \in Threads, now[t].clean,
                      NEW i \in DOMAIN result[t]
               PROVE  result[t][i].of \in {0, now[t].id}
    BY DEF OwnAnswer
  <2>1. result[t][i] \in Range(result[t])
    BY DEF Range
  <2> QED BY <2>1 DEF AnswerInv, Good
<1> QED BY <1>1, AnswerCorrect, PTL

\* And strstr finds OK or a prompt in it only when the modem did what the
\* command says, however the answer was cut up and mixed with reports.
THEOREM OkIsBelieved == Spec => []OkIsTrue
<1>1. TypeOK /\ AnswerInv => OkIsTrue
  <2> SUFFICES ASSUME TypeOK, AnswerInv, NEW t \in Threads, now[t].clean,
                      now[t].kind \notin {"twins", "named"},
                      SaysOK(result[t]) \/ Prompted(result[t])
               PROVE  now[t].done
    BY DEF OkIsTrue
  <2>1. Len(result[t]) \in Nat /\ DOMAIN result[t] = 1..Len(result[t])
    BY LenProperties, Types DEF ThreadType
  <2>2. PICK i \in DOMAIN result[t] : result[t][i].part \in {"O", "> "}
    <3>1. CASE SaysOK(result[t])
      <4>1. PICK i \in 2..Len(result[t]) : result[t][i - 1].part = "O"
        BY <3>1 DEF SaysOK
      <4> QED BY <2>1, <4>1, i - 1 \in DOMAIN result[t]
    <3>2. CASE Prompted(result[t])
      BY <3>2 DEF Prompted, Shows
    <3> QED BY <3>1, <3>2
  <2>3. result[t][i] \in Range(result[t])
    BY <2>2 DEF Range
  <2> QED BY <2>2, <2>3 DEF AnswerInv, Good, Refused
<1> QED BY <1>1, TypeCorrect, AnswerCorrect, PTL
=============================================================================
