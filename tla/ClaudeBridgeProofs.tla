-------------------------- MODULE ClaudeBridgeProofs --------------------------
(***************************************************************************)
(* Proofs about ClaudeBridge, for any number of requests, runs, tool calls *)
(* and answers.  TableInv is inductive by itself: the runs, their readers  *)
(* and the streams.  StreamInv, on top of it, says whose a run is, and     *)
(* TalkInv whose conversation each part of it tells; both are for clients  *)
(* that read an answer to its end before they go on.                       *)
(***************************************************************************)
EXTENDS ClaudeBridge, FiniteSetTheorems, SequenceTheorems, TLAPS

-----------------------------------------------------------------------------
(* Types *)

Types ==
  /\ turn \in [Turns -> Turn] /\ run \in [Turns -> Run \cup {None}]
  /\ proc \in [Turns -> Tool] /\ reader \in [Turns -> Sending \cup Saving \cup {None}]
  /\ answer \in Seq(Reply) /\ file \in [Turns -> Transcript] /\ archive \subseteq Checkpoint

-----------------------------------------------------------------------------
(* Where the events of an answer are *)

Replies == 1 .. Len(answer)

\* The lines that end an answer, among those not read yet.
Stops(k) == {i \in DOMAIN proc[k].stdout : proc[k].stdout[i].kind = "stop"}
Of(k, i) == proc[k].stdout[i].answer
Unread(n, k) == \E i \in Stops(k) : Of(k, i) = n

NoLast(t) == \A i \in DOMAIN turn[t].channel : ~turn[t].channel[i].last

\* The last event of an answer is on its way to a turn, or was received there.
At(n, t) ==
  \/ \E k \in Turns : Sends(k) /\ reader[k].to = t /\ reader[k].event.last /\ reader[k].event.answer = n
  \/ \E i \in DOMAIN turn[t].channel : turn[t].channel[i].last /\ turn[t].channel[i].answer = n
  \/ turn[t].pc = "done" /\ turn[t].got = n

Known ==
  /\ \A k \in Turns : \A i \in DOMAIN proc[k].stdout :
       Of(k, i) \in Replies /\ (proc[k].stdout[i].kind = "call" => proc[k].stdout[i].call # None)
  /\ \A k \in Turns : Sends(k) => reader[k].event.answer \in Replies
  /\ \A t \in Turns : \A i \in DOMAIN turn[t].channel : turn[t].channel[i].answer \in Replies
  /\ \A t \in Turns : turn[t].got # None => turn[t].got \in Replies
  /\ \A n \in Replies : \A c \in answer[n].calls : c[1] = n

\* An answer ends once, for one turn.
Once ==
  /\ \A k \in Turns : \A i, j \in Stops(k) : Of(k, i) = Of(k, j) => i = j
  /\ \A n \in Replies : \A k, j \in Turns : Unread(n, k) /\ Unread(n, j) => k = j
  /\ \A n \in Replies : \A k, t \in Turns : Unread(n, k) => ~At(n, t)
  /\ \A n \in Replies : \A t, u \in Turns : At(n, t) /\ At(n, u) => t = u

-----------------------------------------------------------------------------
(* The table of runs *)

DeadGone == \A k \in Turns : run[k] = None => proc[k] = NoProcess

\* A turn has a key, and a run its reader, only once it was begun.
Begun ==
  \A t \in Turns : turn[t].pc \in {"new", "asked"} =>
    /\ run[t] = None /\ reader[t] = None /\ \A u \in Turns : turn[u].key # t
    /\ turn[t].key = None /\ turn[t].channel = <<>> /\ turn[t].got = None

\* Each process has a session.
Sessions ==
  /\ \A k \in Live : proc[k].session # None
  /\ \A k \in Turns : Saves(k) => reader[k].session # None

AskedFull == \A t \in Turns : turn[t].pc = "asked" => turn[t].messages # <<>>

\* A run sends to a turn that is open and has not seen the end of its answer.
SenderSound ==
  \A k \in Live : \A t \in Turns : run[k].sender = t =>
    /\ turn[t].pc = "open" /\ turn[t].key = k /\ NoLast(t)
    /\ Sends(k) /\ reader[k].to = t => ~reader[k].event.last

ReaderSound ==
  \A k \in Turns : \A t \in Turns : Sends(k) /\ reader[k].to = t =>
    \/ turn[t].pc = "open" /\ turn[t].key = k /\ NoLast(t)
    \/ turn[t].pc = "failed" /\ k \notin Live

-----------------------------------------------------------------------------
(* What a process has said and its reader has not seen *)

\* A process that has something to read is not doing anything else.
InputSound ==
  \A k \in Turns : proc[k].stdin # <<>> => proc[k].pc = "idle" /\ Len(proc[k].stdin) = 1

\* A run that waits for another message has ended its answer.
RestSound ==
  \A k \in Live : run[k].sender = None /\ ~run[k].parked =>
    /\ \A i \in DOMAIN proc[k].stdout : proc[k].stdout[i].kind = "result"
    /\ proc[k].pc \in {"idle", "dead"} /\ proc[k].stdin = <<>>

\* So it is after an answer without calls that has not been read.
FinalSound ==
  \A k \in Live : \A i \in Stops(k) : answer[Of(k, i)].calls = {} =>
    /\ \A j \in DOMAIN proc[k].stdout : j > i => proc[k].stdout[j].kind = "result"
    /\ proc[k].pc \in {"idle", "dead"} /\ proc[k].stdin = <<>>

\* A process has nothing to do only if the end of its answer has not been read.
IdleSound ==
  \A k \in Live : proc[k].pc = "idle" =>
    /\ proc[k].stdin = <<>> /\ (run[k].sender # None \/ run[k].parked) => Stops(k) # {}
    /\ \A i \in Stops(k) : answer[Of(k, i)].calls # {} => \E j \in Stops(k) : j > i

TableInv ==
  /\ Types /\ Known /\ Once
  /\ DeadGone /\ Begun /\ Sessions /\ AskedFull /\ SenderSound /\ ReaderSound
  /\ InputSound /\ RestSound /\ FinalSound /\ IdleSound

-----------------------------------------------------------------------------
(* Conversations *)

LEMMA Kinds ==
  /\ Turns \subseteq Nat /\ None \notin Turns /\ None \notin Nat
  /\ None \notin Checkpoint /\ None \notin CallId /\ None \notin Message
  /\ None \notin Run /\ None \notin Sending /\ None \notin Saving
  /\ Room \in Nat /\ MaxCalls \in Nat
<1> QED BY BridgeConstants, NoneIsNothing DEF Turns

\* A message put at the end of a conversation, and taken off again.
LEMMA Appended ==
  ASSUME NEW S, NEW c \in Seq(S), NEW m \in S
  PROVE  /\ Append(c, m) \in Seq(S) /\ Append(c, m) # <<>>
         /\ Len(Append(c, m)) = Len(c) + 1
         /\ Last(Append(c, m)) = m /\ Front(Append(c, m)) = c
         /\ \A i \in 1 .. Len(c) : Append(c, m)[i] = c[i]
         /\ c \o <<m>> = Append(c, m)
<1>1. /\ Append(c, m) \in Seq(S) /\ Append(c, m) # <<>>
      /\ Len(Append(c, m)) = Len(c) + 1
      /\ \A i \in 1 .. Len(c) : Append(c, m)[i] = c[i]
      /\ Append(c, m)[Len(c) + 1] = m
  OBVIOUS
<1>2. Last(Append(c, m)) = m
  BY <1>1 DEF Last
<1>3. Front(Append(c, m)) = c
  <2>1. SubSeq(Append(c, m), 1, Len(c)) \in Seq(S)
    BY <1>1
  <2>2. Len(SubSeq(Append(c, m), 1, Len(c))) = Len(c)
    BY <1>1
  <2>3. \A i \in 1 .. Len(c) : SubSeq(Append(c, m), 1, Len(c))[i] = c[i]
    BY <1>1
  <2>4. SubSeq(Append(c, m), 1, Len(c)) = c
    BY <2>1, <2>2, <2>3, SeqEqual
  <2> QED BY <1>1, <2>4 DEF Front
<1>4. c \o <<m>> = Append(c, m)
  <2>1. c \o <<m>> \in Seq(S) /\ Len(c \o <<m>>) = Len(c) + 1
    OBVIOUS
  <2>2. \A i \in 1 .. Len(c) + 1 : (c \o <<m>>)[i] = Append(c, m)[i]
    OBVIOUS
  <2> QED BY <1>1, <2>1, <2>2, SeqEqual
<1> QED BY <1>1, <1>2, <1>3, <1>4

LEMMA FrontAndLast ==
  ASSUME NEW S, NEW c \in Seq(S), c # <<>>
  PROVE  /\ Last(c) \in S /\ Front(c) \in Seq(S) /\ c = Append(Front(c), Last(c))
         /\ Len(c) \in Nat \ {0} /\ Len(Front(c)) = Len(c) - 1
         /\ \A i \in 1 .. Len(c) - 1 : Front(c)[i] = c[i]
<1>1. Len(c) \in Nat \ {0}
  OBVIOUS
<1>2. Last(c) \in S
  BY <1>1 DEF Last
<1>3. /\ Front(c) \in Seq(S) /\ Len(Front(c)) = Len(c) - 1
      /\ \A i \in 1 .. Len(c) - 1 : Front(c)[i] = c[i]
  <2>1. PICK n \in Nat : n = Len(c) - 1
    BY <1>1
  <2>2. \A i \in 1 .. n : c[i] \in S
    BY <1>1, <2>1
  <2>3. PICK f : f = SubSeq(c, 1, n)
    OBVIOUS
  <2>4. /\ f \in Seq(S) /\ Len(f) = (IF 1 <= n THEN n - 1 + 1 ELSE 0)
        /\ \A i \in 1 .. n - 1 + 1 : f[i] = c[1 + i - 1]
    BY <2>2, <2>3, SubSeqProperties
  <2>5. Len(f) = n /\ \A i \in 1 .. n : f[i] = c[i]
    BY <1>1, <2>1, <2>4
  <2> QED BY <2>1, <2>3, <2>4, <2>5 DEF Front
<1>4. c = Append(Front(c), Last(c))
  <2>1. /\ Append(Front(c), Last(c)) \in Seq(S) /\ Len(Append(Front(c), Last(c))) = Len(c)
        /\ \A i \in 1 .. Len(c) - 1 : Append(Front(c), Last(c))[i] = c[i]
        /\ Append(Front(c), Last(c))[Len(c)] = Last(c)
    BY <1>1, <1>2, <1>3
  <2>2. \A i \in 1 .. Len(c) : Append(Front(c), Last(c))[i] = c[i]
    BY <1>1, <2>1 DEF Last
  <2> QED BY <1>1, <2>1, <2>2, SeqEqual
<1> QED BY <1>1, <1>2, <1>3, <1>4

LEMMA NewKinds ==
  /\ NewTurn \in Turn /\ NoProcess \in Tool /\ NoFile \in Transcript
  /\ [NewTurn EXCEPT !.pc = "failed"] \in Turn
<1>1. NewTurn \in Turn /\ [NewTurn EXCEPT !.pc = "failed"] \in Turn
  <2>1. <<>> \in Seq(Message) /\ <<>> \in Seq(Event) /\ {} \in SUBSET CallId
    OBVIOUS
  <2>2. NewTurn \in Turn
    BY <2>1 DEF NewTurn, Turn, Conversation
  <2> QED BY <2>2 DEF Turn
<1>2. NoProcess \in Tool
  <2>1. <<>> \in Seq(Message) /\ <<>> \in Seq(Output) /\ <<>> \in Seq(CallId)
    OBVIOUS
  <2> QED BY <2>1, Zenon DEF NoProcess, Tool, Conversation
<1>3. NoFile \in Transcript
  BY DEF NoFile, Transcript, Conversation
<1> QED BY <1>1, <1>2, <1>3

LEMMA InitTypes ==
  Init => Types
<1> QED BY NewKinds DEF Init, Types

LEMMA FailedTypes ==
  ASSUME Types, NEW t \in Turns, Failed(t)
  PROVE  turn' \in [Turns -> Turn]
<1> QED BY NewKinds DEF Types, Failed

LEMMA RemovedTypes ==
  ASSUME Types, NEW K, Removed(K)
  PROVE  /\ run' \in [Turns -> Run \cup {None}] /\ proc' \in [Turns -> Tool]
         /\ file' \in [Turns -> Transcript]
<1>1. run' \in [Turns -> Run \cup {None}]
  BY DEF Types, Removed
<1>2. proc' \in [Turns -> Tool]
  BY NewKinds DEF Types, Removed
<1>3. file' \in [Turns -> Transcript]
  <2>1. \A s \in Turns : (IF Useful(s, K) THEN file[s] ELSE NoFile) \in Transcript
    BY NewKinds DEF Types
  <2> QED BY <2>1 DEF Removed
<1> QED BY <1>1, <1>2, <1>3

LEMMA LiveTypes ==
  ASSUME Types
  PROVE  /\ Live \subseteq Turns /\ Idle \subseteq Live
         /\ \A k \in Turns : k \in Live <=> run[k] # None
         /\ \A k \in Live : /\ run[k] \in Run /\ run[k].sender \in Turns \cup {None}
                            /\ run[k].history \in Seq(Message) /\ run[k].calls \in Seq(ToolCall)
         /\ \A k \in Turns : /\ proc[k] \in Tool /\ proc[k].talk \in Seq(Message)
                             /\ proc[k].stdin \in Seq(Message) /\ proc[k].stdout \in Seq(Output)
                             /\ proc[k].todo \in Seq(CallId) /\ proc[k].session \in Turns \cup {None}
                             /\ proc[k].held \in CallId \cup {None} /\ proc[k].token \in Message \cup {None}
<1>1. /\ Live \subseteq Turns /\ Idle \subseteq Live
      /\ \A k \in Turns : k \in Live <=> run[k] # None
  BY DEF Live, Idle
<1>2. \A k \in Live : run[k] \in Run
  BY DEF Live, Types
<1>3. \A k \in Live : /\ run[k].sender \in Turns \cup {None}
                      /\ run[k].history \in Seq(Message) /\ run[k].calls \in Seq(ToolCall)
  BY <1>2 DEF Run, Conversation
<1>4. \A k \in Turns : proc[k] \in Tool
  BY DEF Types
<1>5. \A k \in Turns : /\ proc[k].talk \in Seq(Message)
                       /\ proc[k].stdin \in Seq(Message) /\ proc[k].stdout \in Seq(Output)
                       /\ proc[k].todo \in Seq(CallId) /\ proc[k].session \in Turns \cup {None}
                       /\ proc[k].held \in CallId \cup {None} /\ proc[k].token \in Message \cup {None}
  BY <1>4 DEF Tool, Conversation
<1> QED BY <1>1, <1>2, <1>3, <1>4, <1>5

LEMMA TurnTypes ==
  ASSUME Types, NEW t \in Turns
  PROVE  /\ turn[t] \in Turn /\ turn[t].messages \in Seq(Message)
         /\ turn[t].results \in SUBSET CallId /\ turn[t].saved \in Checkpoint \cup {None}
         /\ turn[t].key \in Turns \cup {None} /\ turn[t].channel \in Seq(Event)
         /\ turn[t].got \in Nat \cup {None}
         /\ turn[t].pc \in {"new", "asked", "open", "done", "failed"}
<1>1. turn[t] \in Turn
  BY DEF Types
<1> QED BY <1>1 DEF Turn, Conversation

LEMMA ReaderTypes ==
  ASSUME Types, NEW k \in Turns
  PROVE  /\ Sends(k) => /\ reader[k] \in Sending /\ reader[k].to \in Turns
                        /\ reader[k].event \in Event /\ reader[k].event.answer \in Nat
         /\ Saves(k) => /\ reader[k] \in Saving /\ reader[k].history \in Seq(Message)
                        /\ reader[k].answer \in Nat /\ reader[k].session \in Turns \cup {None}
<1>1. reader[k] \in Sending \cup Saving \cup {None}
  BY DEF Types
<1>2. CASE Sends(k)
  <2>1. reader[k] \in Sending /\ ~Saves(k)
    BY <1>1, <1>2 DEF Sends, Saves, Saving
  <2> QED BY <2>1 DEF Sending, Event
<1>3. CASE Saves(k)
  <2>1. reader[k] \in Saving /\ ~Sends(k)
    BY <1>1, <1>3 DEF Saves, Sends, Sending
  <2> QED BY <2>1 DEF Saving, Conversation
<1> QED BY <1>2, <1>3

LEMMA Messages ==
  \A n \in Nat : /\ <<"u", n>> \in Message /\ <<"r", n>> \in Message /\ <<"a", n>> \in Message
                 /\ <<"x", n>> \in Message /\ <<"s", n>> \in Message
<1> QED BY DEF Message

\* What a request continues, and the results it returns.
Prior(prev) == IF prev = None THEN <<>> ELSE Talk(prev)
Wanted(tools, prev) == IF tools THEN answer[turn[prev].got].calls ELSE {}

Asking(t, prev, tools, saved) ==
  /\ tools => prev # None /\ Wanted(tools, prev) # {}
  /\ saved # None => saved \in archive /\ saved.history = Prior(prev)
  /\ Prior(prev) \in Seq(Message) /\ <<IF tools THEN "r" ELSE "u", t>> \in Message
  /\ Wanted(tools, prev) \in SUBSET CallId
  /\ turn' = [turn EXCEPT ![t] =
       [turn[t] EXCEPT !.pc = "asked", !.results = Wanted(tools, prev), !.saved = saved,
                       !.messages = Append(Prior(prev), <<IF tools THEN "r" ELSE "u", t>>)]]

LEMMA AsksShape ==
  ASSUME Types, Known, NEW t \in Turns, NEW prev \in Turns \cup {None}, Asks(t, prev)
  PROVE  \E tools \in BOOLEAN : \E saved \in Checkpoint \cup {None} : Asking(t, prev, tools, saved)
<1>1. PICK tools \in BOOLEAN : \E saved \in {c \in archive : c.history = Prior(prev)} \cup {None} :
        /\ tools => prev # None /\ Wanted(tools, prev) # {}
        /\ turn' = [turn EXCEPT ![t] =
             [@ EXCEPT !.pc = "asked", !.results = Wanted(tools, prev), !.saved = saved,
                       !.messages = Append(Prior(prev), <<IF tools THEN "r" ELSE "u", t>>)]]
  BY DEF Asks, Prior, Wanted
<1>2. PICK saved \in {c \in archive : c.history = Prior(prev)} \cup {None} :
        /\ tools => prev # None /\ Wanted(tools, prev) # {}
        /\ turn' = [turn EXCEPT ![t] =
             [@ EXCEPT !.pc = "asked", !.results = Wanted(tools, prev), !.saved = saved,
                       !.messages = Append(Prior(prev), <<IF tools THEN "r" ELSE "u", t>>)]]
  BY <1>1
<1>3. saved \in Checkpoint \cup {None}
  BY <1>2 DEF Types
<1>4. ASSUME prev # None
      PROVE  turn[prev].got \in Nat /\ turn[prev].got \in DOMAIN answer
  <2>1. turn[prev].got # None
    BY <1>4 DEF Asks, Answered
  <2>2. turn[prev].got \in Replies
    BY <1>4, <2>1 DEF Known
  <2> QED BY <2>2 DEF Replies, Types
<1>5. Prior(prev) \in Seq(Message)
  <2>1. CASE prev # None
    <3>1. turn[prev].messages \in Seq(Message) /\ <<"a", turn[prev].got>> \in Message
      BY <1>4, <2>1, TurnTypes, Messages
    <3> QED BY <2>1, <3>1, Appended DEF Talk, Prior
  <2> QED BY <2>1 DEF Prior
<1>6. <<IF tools THEN "r" ELSE "u", t>> \in Message
  BY Kinds DEF Message
<1>7. Wanted(tools, prev) \in SUBSET CallId
  <2>1. CASE tools
    <3>1. answer[turn[prev].got] \in Reply
      BY <1>2, <1>4, <2>1 DEF Types
    <3> QED BY <2>1, <3>1 DEF Reply, Wanted
  <2> QED BY <2>1 DEF Wanted
<1>8. Asking(t, prev, tools, saved)
  BY <1>2, <1>5, <1>6, <1>7 DEF Asking
<1> QED BY <1>3, <1>8

LEMMA AsksTypes ==
  ASSUME Types, Known, NEW t \in Turns, NEW prev \in Turns \cup {None}, Asks(t, prev)
  PROVE  turn' \in [Turns -> Turn]
<1>1. PICK tools \in BOOLEAN : \E saved \in Checkpoint \cup {None} : Asking(t, prev, tools, saved)
  BY AsksShape
<1>2. PICK saved \in Checkpoint \cup {None} : Asking(t, prev, tools, saved)
  BY <1>1
<1>3. Append(Prior(prev), <<IF tools THEN "r" ELSE "u", t>>) \in Conversation /\ Wanted(tools, prev) \in SUBSET CallId
  BY <1>2, Appended DEF Asking, Conversation
<1>4. turn[t] \in Turn /\ turn \in [Turns -> Turn]
  BY DEF Types
<1>5. [turn[t] EXCEPT !.pc = "asked", !.results = Wanted(tools, prev), !.saved = saved,
                      !.messages = Append(Prior(prev), <<IF tools THEN "r" ELSE "u", t>>)] \in Turn
  BY <1>2, <1>3, <1>4 DEF Turn
<1> QED BY <1>2, <1>4, <1>5 DEF Asking

LEMMA TakenTypes ==
  ASSUME Types, NEW t \in Turns, NEW k \in Live, NEW calls \in Seq(ToolCall), Taken(k, t, calls)
  PROVE  run' \in [Turns -> Run \cup {None}] /\ turn' \in [Turns -> Turn]
<1>1. k \in Turns /\ run[k] \in Run /\ run \in [Turns -> Run \cup {None}]
      /\ turn[t] \in Turn /\ turn \in [Turns -> Turn] /\ turn[t].messages \in Conversation
  BY LiveTypes, TurnTypes DEF Types, Conversation
<1>2. [run[k] EXCEPT !.sender = t, !.parked = FALSE, !.terminal = FALSE,
                     !.history = turn[t].messages, !.calls = calls] \in Run
  BY <1>1 DEF Run
<1>3. [turn[t] EXCEPT !.pc = "open", !.key = k, !.saved = None] \in Turn
  BY <1>1 DEF Turn
<1> QED BY <1>1, <1>2, <1>3 DEF Taken

LEMMA SpawnTypes ==
  ASSUME Types, NEW t \in Turns, turn[t].messages # <<>>, Spawn(t)
  PROVE  /\ run' \in [Turns -> Run \cup {None}] /\ turn' \in [Turns -> Turn]
         /\ proc' \in [Turns -> Tool] /\ file' \in [Turns -> Transcript]
<1>1. PICK K \in Evictions : 
        /\ turn[t].pc = "asked" 
        /\ run' = [k \in Turns |->
             IF k = t THEN [sender |-> t, history |-> turn[t].messages, calls |-> <<>>,
                            parked |-> FALSE, terminal |-> FALSE]
             ELSE IF k \in K THEN None ELSE run[k]]
        /\ proc' = [k \in Turns |->
             IF k = t THEN Fresh(t) ELSE IF k \in K THEN NoProcess ELSE proc[k]]
        /\ file' = [s \in Turns |->
             IF s = t /\ ~Resumes(t) THEN [length |-> 1, tip |-> turn[t].messages]
             ELSE IF Useful(s, K) THEN file[s] ELSE NoFile]
        /\ turn' = [turn EXCEPT ![t] = [@ EXCEPT !.pc = "open", !.key = t, !.saved = None]]
  BY DEF Spawn
<1>2. /\ turn[t] \in Turn /\ turn \in [Turns -> Turn] /\ turn[t].messages \in Conversation
      /\ turn[t].saved \in Checkpoint \cup {None}
  BY TurnTypes DEF Types, Conversation
<1>3. [turn[t] EXCEPT !.pc = "open", !.key = t, !.saved = None] \in Turn
  BY <1>2 DEF Turn
<1>4. <<>> \in Seq(ToolCall)
  OBVIOUS
<1>5. [sender |-> t, history |-> turn[t].messages, calls |-> <<>>,
       parked |-> FALSE, terminal |-> FALSE] \in Run
  BY <1>2, <1>4 DEF Run
<1>6. run' \in [Turns -> Run \cup {None}]
  BY <1>1, <1>5 DEF Types
<1>7. Fresh(t) \in Tool
  <2>1. CASE Resumes(t)
    <3>1. turn[t].saved \in Checkpoint
      BY <1>2, <2>1 DEF Resumes
    <3>2. turn[t].saved.session \in Turns /\ turn[t].saved.transcript.tip \in Conversation
      BY <3>1 DEF Checkpoint, Transcript
    <3>3. Last(turn[t].messages) \in Message \/ turn[t].messages = <<>>
      BY <1>2, FrontAndLast DEF Conversation
    <3>4. <<Last(turn[t].messages)>> \in Conversation
      BY <3>3 DEF Conversation
    <3> QED BY <2>1, <3>2, <3>4, NewKinds DEF Fresh, Tool
  <2>2. CASE ~Resumes(t) BY <1>2, <2>2, NewKinds DEF Fresh, Tool
  <2> QED BY <2>1, <2>2
<1>8. proc' \in [Turns -> Tool]
  BY <1>1, <1>7, NewKinds DEF Types
<1>9. [length |-> 1, tip |-> turn[t].messages] \in Transcript
  BY <1>2 DEF Transcript
<1>10. file' \in [Turns -> Transcript]
  <2>1. \A s \in Turns : (IF s = t /\ ~Resumes(t) THEN [length |-> 1, tip |-> turn[t].messages]
             ELSE IF Useful(s, K) THEN file[s] ELSE NoFile) \in Transcript
    BY <1>9, NewKinds DEF Types
  <2> QED BY <1>1, <2>1
<1> QED BY <1>1, <1>2, <1>3, <1>6, <1>8, <1>10

LEMMA JoinedKinds ==
  ASSUME NEW old \in Message \cup {None}, NEW new \in Message
  PROVE  Joined(old, new) \in Message
<1> QED BY Messages DEF Joined

LEMMA WroteTypes ==
  ASSUME Types, NEW k \in Turns, NEW talk \in Seq(Message), Wrote(k, talk)
  PROVE  file' \in [Turns -> Transcript]
<1>1. \A s \in Turns : [length |-> file[s].length + 1, tip |-> talk] \in Transcript
  BY DEF Types, Transcript, Conversation
<1> QED BY <1>1 DEF Wrote, Types

LEMMA SettleTypes ==
  ASSUME Types, NEW k \in Turns, NEW token \in Message, Settle(k, token)
  PROVE  proc' \in [Turns -> Tool] /\ file' \in [Turns -> Transcript]
<1>1. /\ proc[k] \in Tool /\ proc \in [Turns -> Tool] /\ file \in [Turns -> Transcript]
      /\ proc[k].talk \in Seq(Message) /\ proc[k].todo \in Seq(CallId)
      /\ Joined(proc[k].token, token) \in Message
  BY LiveTypes, JoinedKinds DEF Types
<1>2. PICK all \in Message : all = Joined(proc[k].token, token)
  BY <1>1
<1>3. Append(proc[k].talk, all) \in Seq(Message)
  BY <1>1, <1>2, Appended
<1>4. CASE Len(proc[k].todo) > 1
  <2>1. Tail(proc[k].todo) \in Seq(CallId)
    BY <1>1, <1>4
  <2>2. [proc[k] EXCEPT !.todo = Tail(@), !.held = None, !.token = all] \in Tool
    BY <1>1, <1>2, <2>1 DEF Tool
  <2> QED BY <1>1, <1>2, <1>4, <2>2 DEF Settle
<1>5. CASE ~(Len(proc[k].todo) > 1)
  <2>1. <<>> \in Seq(CallId)
    OBVIOUS
  <2>2. PICK talk : talk = Append(proc[k].talk, all)
    OBVIOUS
  <2>3. [proc[k] EXCEPT !.pc = "busy", !.todo = <<>>, !.held = None, !.token = None, !.talk = talk] \in Tool
    BY <1>1, <1>3, <2>1, <2>2 DEF Tool, Conversation
  <2>4. proc' \in [Turns -> Tool]
    BY <1>1, <1>2, <1>5, <2>2, <2>3 DEF Settle
  <2>5. Wrote(k, talk)
    BY <1>2, <1>5, <2>2 DEF Settle
  <2> QED BY <1>3, <2>2, <2>4, <2>5, WroteTypes
<1> QED BY <1>4, <1>5

LEMMA TakeInputTypes ==
  ASSUME Types, NEW k \in Turns, TakeInput(k)
  PROVE  proc' \in [Turns -> Tool] /\ file' \in [Turns -> Transcript]
<1>1. /\ proc[k] \in Tool /\ proc \in [Turns -> Tool]
      /\ proc[k].talk \in Seq(Message) /\ proc[k].stdin \in Seq(Message) /\ proc[k].stdin # <<>>
  BY LiveTypes DEF Types, TakeInput
<1>2. PICK talk : talk = Append(proc[k].talk, Head(proc[k].stdin))
  OBVIOUS
<1>3. talk \in Seq(Message) /\ Tail(proc[k].stdin) \in Seq(Message)
  BY <1>1, <1>2
<1>4. [proc[k] EXCEPT !.pc = "busy", !.stdin = Tail(@), !.talk = talk] \in Tool
  BY <1>1, <1>3 DEF Tool, Conversation
<1>5. proc' = [proc EXCEPT ![k] = [proc[k] EXCEPT !.pc = "busy", !.stdin = Tail(@), !.talk = talk]] /\ Wrote(k, talk)
  BY <1>2 DEF TakeInput
<1> QED BY <1>1, <1>3, <1>4, <1>5, WroteTypes

\* The lines of a new answer.
Ids(n, size) == [i \in 1 .. size |-> <<n, i>>]
OutputLine(kind, n, c) == [kind |-> kind, answer |-> n, call |-> c]
Blocks(n, size) == [i \in 1 .. size |-> OutputLine("call", n, Ids(n, size)[i])]
Ending(n, size) ==
  IF size = 0 THEN <<OutputLine("stop", n, None), OutputLine("result", n, None)>>
  ELSE <<OutputLine("stop", n, None)>>
Lines(n, size) == Blocks(n, size) \o Ending(n, size)

LEMMA GenerateFacts ==
  ASSUME Types, NEW k \in Turns, Generate(k)
  PROVE  \E size \in 0 .. MaxCalls : \E n \in Nat :
           /\ n = Len(answer) + 1 /\ proc[k].pc = "busy"
           /\ answer' = Append(answer, [to |-> proc[k].talk, calls |-> Range(Ids(n, size))])
           /\ proc' = [proc EXCEPT ![k] =
                [proc[k] EXCEPT !.pc = IF size = 0 THEN "idle" ELSE "tools",
                          !.talk = Append(@, <<"a", n>>), !.todo = Ids(n, size),
                          !.stdout = @ \o Blocks(n, size) \o Ending(n, size)]]
           /\ Wrote(k, Append(proc[k].talk, <<"a", n>>))
           /\ UNCHANGED <<turn, run, reader, archive>>
<1>1. Len(answer) + 1 \in Nat
  BY DEF Types
<1> QED BY <1>1 DEF Generate, Ids, Blocks, Ending, OutputLine

LEMMA LinesFacts ==
  ASSUME NEW size \in Nat, NEW n \in Nat
  PROVE  /\ Ids(n, size) \in Seq(CallId) /\ Len(Ids(n, size)) = size
         /\ Range(Ids(n, size)) = {<<n, i>> : i \in 1 .. size}
         /\ Blocks(n, size) \in Seq(Output) /\ Len(Blocks(n, size)) = size
         /\ \A i \in 1 .. size : Ids(n, size)[i] = <<n, i>> /\ Blocks(n, size)[i] = OutputLine("call", n, <<n, i>>)
         /\ Ending(n, size) \in Seq(Output) /\ Len(Ending(n, size)) = (IF size = 0 THEN 2 ELSE 1)
         /\ Ending(n, size)[1] = OutputLine("stop", n, None)
         /\ size = 0 => Ending(n, size)[2] = OutputLine("result", n, None)
<1>1. /\ Ids(n, size) \in Seq(CallId) /\ Len(Ids(n, size)) = size /\ DOMAIN Ids(n, size) = 1 .. size
      /\ \A i \in 1 .. size : Ids(n, size)[i] = <<n, i>>
  <2>1. \A i \in 1 .. size : <<n, i>> \in CallId
    BY DEF CallId
  <2>2. Ids(n, size) \in [1 .. size -> CallId]
    BY <2>1 DEF Ids
  <2> QED BY <2>2, SeqDef DEF Ids
<1>2. Range(Ids(n, size)) = {<<n, i>> : i \in 1 .. size}
  BY <1>1 DEF Range
<1>3. \A c \in CallId \cup {None} : \A kind \in {"call", "stop", "result"} : OutputLine(kind, n, c) \in Output
  BY DEF OutputLine, Output
<1>4. /\ Blocks(n, size) \in Seq(Output) /\ Len(Blocks(n, size)) = size
      /\ \A i \in 1 .. size : Blocks(n, size)[i] = OutputLine("call", n, <<n, i>>)
  <2>1. \A i \in 1 .. size : <<n, i>> \in CallId
    BY DEF CallId
  <2>2. \A i \in 1 .. size : OutputLine("call", n, Ids(n, size)[i]) \in Output
    BY <1>1, <1>3, <2>1
  <2>3. Blocks(n, size) \in [1 .. size -> Output]
    BY <2>2 DEF Blocks
  <2> QED BY <1>1, <2>3, SeqDef DEF Blocks
<1>5. OutputLine("stop", n, None) \in Output /\ OutputLine("result", n, None) \in Output
  BY <1>3
<1>6. /\ Ending(n, size) \in Seq(Output) /\ Len(Ending(n, size)) = (IF size = 0 THEN 2 ELSE 1)
      /\ Ending(n, size)[1] = OutputLine("stop", n, None)
      /\ size = 0 => Ending(n, size)[2] = OutputLine("result", n, None)
  BY <1>5 DEF Ending
<1> QED BY <1>1, <1>2, <1>4, <1>6

LEMMA GenerateTypes ==
  ASSUME Types, NEW k \in Turns, Generate(k)
  PROVE  proc' \in [Turns -> Tool] /\ file' \in [Turns -> Transcript] /\ answer' \in Seq(Reply)
<1>1. PICK size \in 0 .. MaxCalls, n \in Nat :
           /\ n = Len(answer) + 1
           /\ answer' = Append(answer, [to |-> proc[k].talk, calls |-> Range(Ids(n, size))])
           /\ proc' = [proc EXCEPT ![k] =
                [proc[k] EXCEPT !.pc = IF size = 0 THEN "idle" ELSE "tools",
                          !.talk = Append(@, <<"a", n>>), !.todo = Ids(n, size),
                          !.stdout = @ \o Blocks(n, size) \o Ending(n, size)]]
           /\ Wrote(k, Append(proc[k].talk, <<"a", n>>))
  BY GenerateFacts
<1>2. size \in Nat
  BY Kinds
<1>3. /\ Ids(n, size) \in Seq(CallId) /\ Range(Ids(n, size)) = {<<n, i>> : i \in 1 .. size}
      /\ Blocks(n, size) \in Seq(Output) /\ Ending(n, size) \in Seq(Output)
  BY <1>2, LinesFacts
<1>4. /\ proc[k] \in Tool /\ proc \in [Turns -> Tool] /\ answer \in Seq(Reply)
      /\ proc[k].talk \in Seq(Message) /\ proc[k].stdout \in Seq(Output)
  BY LiveTypes DEF Types
<1>5. PICK talk : talk = Append(proc[k].talk, <<"a", n>>)
  OBVIOUS
<1>6. talk \in Seq(Message)
  BY <1>4, <1>5, Appended, Messages
<1>7. PICK stdout : stdout = proc[k].stdout \o Blocks(n, size) \o Ending(n, size)
  OBVIOUS
<1>8. stdout \in Seq(Output)
  BY <1>3, <1>4, <1>7
<1>9. [proc[k] EXCEPT !.pc = IF size = 0 THEN "idle" ELSE "tools",
                      !.talk = talk, !.todo = Ids(n, size), !.stdout = stdout] \in Tool
  BY <1>3, <1>4, <1>6, <1>8 DEF Tool, Conversation
<1>10. proc' \in [Turns -> Tool]
  BY <1>1, <1>4, <1>5, <1>7, <1>9
<1>11. answer' \in Seq(Reply)
  <2>1. Range(Ids(n, size)) \in SUBSET CallId
    BY <1>3 DEF CallId
  <2>2. [to |-> proc[k].talk, calls |-> Range(Ids(n, size))] \in Reply
    BY <1>4, <2>1 DEF Reply, Conversation
  <2> QED BY <1>1, <1>4, <2>2
<1> QED BY <1>1, <1>5, <1>6, <1>10, <1>11, WroteTypes

LEMMA ClaimTypes ==
  ASSUME Types, NEW k \in Turns, Claim(k)
  PROVE  proc' \in [Turns -> Tool] /\ run' \in [Turns -> Run \cup {None}]
<1>1. PICK i \in DOMAIN run[k].calls :
        /\ run' = [run EXCEPT ![k].calls = Claimed(k, i)]
        /\ proc' = [proc EXCEPT ![k].held = run[k].calls[i].id]
  BY DEF Claim
<1>2. /\ run[k] \in Run /\ run[k].calls \in Seq(ToolCall) /\ run \in [Turns -> Run \cup {None}]
      /\ proc[k] \in Tool /\ proc \in [Turns -> Tool]
  BY LiveTypes DEF Claim, Types
<1>3. run[k].calls[i] \in ToolCall
  BY <1>2
<1>4. Claimed(k, i) \in Seq(ToolCall)
  <2>1. [run[k].calls[i] EXCEPT !.claimed = TRUE] \in ToolCall
    BY <1>3 DEF ToolCall
  <2>2. Claimed(k, i) = [run[k].calls EXCEPT ![i] = [run[k].calls[i] EXCEPT !.claimed = TRUE]]
    BY DEF Claimed
  <2> QED BY <1>2, <2>1, <2>2, ExceptSeq
<1>5. [run[k] EXCEPT !.calls = Claimed(k, i)] \in Run
  BY <1>2, <1>4 DEF Run
<1>6. run' \in [Turns -> Run \cup {None}]
  BY <1>1, <1>2, <1>5
<1>7. run[k].calls[i].id \in CallId
  BY <1>3 DEF ToolCall
<1>8. proc' \in [Turns -> Tool]
  BY <1>1, <1>2, <1>7 DEF Tool
<1> QED BY <1>6, <1>8

LEMMA HelperTypes ==
  ASSUME Types, NEW k \in Turns, Poll(k) \/ HelperGivesUp(k)
  PROVE  \E token \in Message : Settle(k, token)
<1>1. CASE HelperGivesUp(k) BY <1>1, Messages DEF HelperGivesUp
<1>2. CASE Poll(k)
  <2>1. PICK c \in Range(run[k].calls) :
          c.result # None /\ Settle(k, IF c.id = Head(proc[k].todo) THEN <<"r", c.result>> ELSE <<"s", 0>>)
    BY <1>2 DEF Poll
  <2>2. c \in ToolCall
    <3>1. run[k].calls \in Seq(ToolCall)
      BY <1>2, LiveTypes DEF Poll
    <3> QED BY <3>1 DEF Range
  <2>3. c.result \in Nat
    BY <2>1, <2>2, Kinds DEF ToolCall
  <2> QED BY <2>1, <2>3, Messages
<1> QED BY <1>1, <1>2

LEMMA ReadEventTypes ==
  ASSUME Types, Known, NEW k \in Turns, ReadEvent(k)
  PROVE  /\ proc' \in [Turns -> Tool] /\ run' \in [Turns -> Run \cup {None}] /\ run'[k] \in Run
         /\ reader' \in [Turns -> Sending \cup Saving \cup {None}]
<1>1. /\ run[k] \in Run /\ run[k].calls \in Seq(ToolCall) /\ run \in [Turns -> Run \cup {None}]
      /\ proc[k] \in Tool /\ proc \in [Turns -> Tool] /\ proc[k].stdout \in Seq(Output)
      /\ run[k].history \in Seq(Message) /\ run[k].sender \in Turns \cup {None}
      /\ proc[k].stdout # <<>> /\ reader \in [Turns -> Sending \cup Saving \cup {None}]
  BY LiveTypes DEF ReadEvent, Types
<1>2. PICK l \in Output : l = Line(k)
  BY <1>1 DEF Line
<1>3. proc' \in [Turns -> Tool]
  <2>1. Tail(proc[k].stdout) \in Seq(Output)
    BY <1>1
  <2>2. [proc[k] EXCEPT !.stdout = Tail(proc[k].stdout)] \in Tool
    BY <1>1, <2>1 DEF Tool
  <2> QED BY <1>1, <2>2 DEF ReadEvent
<1>4. l.answer \in Nat /\ l.call \in CallId \cup {None}
  BY <1>2 DEF Output
<1>5. run' \in [Turns -> Run \cup {None}] /\ run'[k] \in Run
  <2>1. Ended(run[k], l.answer) \in Run
    <3>1. Append(run[k].history, <<"a", l.answer>>) \in Conversation
      BY <1>1, <1>4, Appended, Messages DEF Conversation
    <3>2. (answer[l.answer].calls # {}) \in BOOLEAN
      OBVIOUS
    <3> QED BY <1>1, <3>1, <3>2 DEF Ended, Run
  <2>2. ASSUME l.kind \notin {"stop", "result"}
        PROVE  [run[k] EXCEPT !.calls = Append(@, [id |-> l.call, claimed |-> FALSE, result |-> None])] \in Run
    <3>1. l.call \in CallId
      <4>1. l.kind = "call"
        BY <1>2, <2>2, SMT DEF Output
      <4>2. l = proc[k].stdout[1] /\ 1 \in DOMAIN proc[k].stdout
        BY <1>1, <1>2 DEF Line
      <4> QED BY <1>4, <4>1, <4>2 DEF Known
    <3>2. [id |-> l.call, claimed |-> FALSE, result |-> None] \in ToolCall
      BY <3>1 DEF ToolCall
    <3>3. PICK calls : calls = Append(run[k].calls, [id |-> l.call, claimed |-> FALSE, result |-> None])
      OBVIOUS
    <3>4. calls \in Seq(ToolCall)
      BY <1>1, <3>2, <3>3
    <3>5. [run[k] EXCEPT !.calls = calls] \in Run
      BY <1>1, <3>4 DEF Run
    <3> QED BY <3>3, <3>5
  <2> QED BY <1>1, <1>2, <2>1, <2>2 DEF ReadEvent
<1>6. reader' \in [Turns -> Sending \cup Saving \cup {None}]
  <2>1. [answer |-> l.answer, last |-> l.kind = "stop"] \in Event
    BY <1>4 DEF Event
  <2>2. run[k].sender # None =>
          [does |-> "send", to |-> run[k].sender, event |-> [answer |-> l.answer, last |-> l.kind = "stop"]] \in Sending
    BY <1>1, <2>1 DEF Sending
  <2>3. reader' = [reader EXCEPT ![k] =
       IF run[k].sender = None THEN None
       ELSE [does |-> "send", to |-> run[k].sender,
             event |-> [answer |-> l.answer, last |-> l.kind = "stop"]]]
    BY <1>2 DEF ReadEvent
  <2> QED BY <1>1, <2>2, <2>3
<1> QED BY <1>3, <1>5, <1>6

LEMMA ExitTypes ==
  ASSUME Types, NEW k \in Turns, Exit(k)
  PROVE  proc' \in [Turns -> Tool]
<1>1. proc[k].session \in Turns \cup {None} /\ proc[k].stdout \in Seq(Output) /\ proc \in [Turns -> Tool]
  BY LiveTypes DEF Types
<1>2. [NoProcess EXCEPT !.session = proc[k].session, !.stdout = proc[k].stdout] \in Tool
  BY <1>1, NewKinds DEF Tool
<1> QED BY <1>1, <1>2 DEF Exit

LEMMA SendTypes ==
  ASSUME Types, NEW k \in Turns, Send(k)
  PROVE  turn' \in [Turns -> Turn] /\ reader' \in [Turns -> Sending \cup Saving \cup {None}]
<1>1. /\ reader[k].to \in Turns /\ reader[k].event \in Event /\ turn \in [Turns -> Turn]
      /\ reader \in [Turns -> Sending \cup Saving \cup {None}]
  BY ReaderTypes DEF Types, Send
<1>2. PICK t \in Turns : t = reader[k].to
  BY <1>1
<1>3. turn[t] \in Turn /\ turn[t].channel \in Seq(Event)
  BY TurnTypes
<1>4. Append(turn[t].channel, reader[k].event) \in Seq(Event)
  BY <1>1, <1>3
<1>5. [turn[t] EXCEPT !.channel = Append(turn[t].channel, reader[k].event)] \in Turn
  BY <1>3, <1>4 DEF Turn
<1>6. turn' = [turn EXCEPT ![t] = [turn[t] EXCEPT !.channel = Append(turn[t].channel, reader[k].event)]]
  BY <1>1, <1>2 DEF Send
<1> QED BY <1>1, <1>5, <1>6 DEF Send

LEMMA ReadResultTypes ==
  ASSUME Types, NEW k \in Turns, ReadResult(k)
  PROVE  proc' \in [Turns -> Tool] /\ reader' \in [Turns -> Sending \cup Saving \cup {None}]
<1>1. /\ run[k] \in Run /\ run[k].history \in Seq(Message)
      /\ proc[k] \in Tool /\ proc \in [Turns -> Tool] /\ proc[k].stdout \in Seq(Output)
      /\ proc[k].session \in Turns \cup {None}
      /\ proc[k].stdout # <<>> /\ reader \in [Turns -> Sending \cup Saving \cup {None}]
  BY LiveTypes DEF ReadResult, Types
<1>2. PICK l \in Output : l = Line(k)
  BY <1>1 DEF Line
<1>3. [proc[k] EXCEPT !.stdout = Tail(proc[k].stdout)] \in Tool
  <2>1. Tail(proc[k].stdout) \in Seq(Output)
    BY <1>1
  <2> QED BY <1>1, <2>1 DEF Tool
<1>4. [does |-> "save", history |-> run[k].history, answer |-> l.answer, session |-> proc[k].session] \in Saving
  BY <1>1, <1>2 DEF Saving, Output, Conversation
<1>5. proc' \in [Turns -> Tool]
  BY <1>1, <1>3 DEF ReadResult
<1> QED BY <1>1, <1>2, <1>4, <1>5 DEF ReadResult

LEMMA SaveTypes ==
  ASSUME Types, Sessions, NEW k \in Turns, SaveCheckpoint(k)
  PROVE  archive' \subseteq Checkpoint /\ reader' \in [Turns -> Sending \cup Saving \cup {None}]
<1>1. reader' \in [Turns -> Sending \cup Saving \cup {None}]
  BY DEF SaveCheckpoint, Types
<1>2. CASE archive' = archive BY <1>1, <1>2 DEF Types
<1>3. CASE /\ Complete(file[reader[k].session], reader[k].answer)
           /\ archive' = {c \in archive : c.history # reader[k].history} \cup
             {[history |-> reader[k].history, session |-> reader[k].session,
               transcript |-> file[reader[k].session]]}
  <2>1. reader[k].history \in Seq(Message) /\ reader[k].session \in Turns \cup {None}
    BY ReaderTypes DEF SaveCheckpoint
  <2>2. reader[k].session \in Turns
    BY <2>1 DEF Sessions, SaveCheckpoint
  <2>3. file[reader[k].session] \in Transcript
    BY <2>2 DEF Types
  <2>4. [history |-> reader[k].history, session |-> reader[k].session,
         transcript |-> file[reader[k].session]] \in Checkpoint
    BY <2>1, <2>2, <2>3 DEF Checkpoint, Conversation
  <2> QED BY <1>1, <1>3, <2>4 DEF Types
<1> QED BY <1>2, <1>3 DEF SaveCheckpoint

LEMMA ReceiveTypes ==
  ASSUME Types, NEW t \in Turns, Receive(t)
  PROVE  turn' \in [Turns -> Turn]
<1>1. turn[t] \in Turn /\ turn \in [Turns -> Turn] /\ turn[t].channel \in Seq(Event) /\ turn[t].channel # <<>>
  BY TurnTypes DEF Types, Receive
<1>2. PICK e, rest : e = Head(turn[t].channel) /\ rest = Tail(turn[t].channel)
  OBVIOUS
<1>3. e.answer \in Nat /\ rest \in Seq(Event)
  <2>1. e \in Event /\ rest \in Seq(Event)
    BY <1>1, <1>2
  <2> QED BY <2>1 DEF Event
<1>4. [turn[t] EXCEPT !.channel = rest, !.got = e.answer,
                      !.pc = IF e.last THEN "done" ELSE "open"] \in Turn
  BY <1>1, <1>3 DEF Turn
<1>5. turn' = [turn EXCEPT ![t] = [turn[t] EXCEPT !.channel = rest, !.got = e.answer,
                                     !.pc = IF e.last THEN "done" ELSE "open"]]
  BY <1>2 DEF Receive
<1> QED BY <1>1, <1>4, <1>5

-----------------------------------------------------------------------------
(* Steps that neither say, read nor receive anything *)

\* What every step does to the answers there are: an answer stays as it is, its
\* end is not written again, and comes to a turn only from the output.
Passed ==
  /\ Replies \subseteq Replies'
  /\ \A n \in Replies : answer'[n] = answer[n]
  /\ \A n \in Replies : \A k \in Turns : Unread(n, k)' => Unread(n, k)
  /\ \A n \in Replies : \A t \in Turns : At(n, t)' => At(n, t) \/ \E k \in Turns : Unread(n, k)

Quiet ==
  /\ answer' = answer
  /\ \A k \in Turns : proc'[k].stdout \in {proc[k].stdout, <<>>}
  /\ \A k \in Turns : Sends(k)' => Sends(k) /\ reader'[k] = reader[k]
  /\ \A t \in Turns :
       /\ turn'[t].channel \in {turn[t].channel, <<>>}
       /\ turn'[t].got \in {turn[t].got, None}
       /\ turn'[t].pc = "done" => turn[t].pc = "done" /\ turn'[t].got = turn[t].got

LEMMA QuietFacts ==
  ASSUME Quiet
  PROVE  /\ Replies' = Replies
         /\ \A k \in Turns : /\ Stops(k)' \subseteq Stops(k)
                             /\ \A i \in DOMAIN proc'[k].stdout : i \in DOMAIN proc[k].stdout /\ Of(k, i)' = Of(k, i)
                                                                  /\ proc'[k].stdout[i] = proc[k].stdout[i]
         /\ \A n : \A k \in Turns : Unread(n, k)' => Unread(n, k)
         /\ \A n : \A t \in Turns : At(n, t)' => At(n, t)
<1>1. Replies' = Replies
  BY DEF Quiet, Replies
<1>2. ASSUME NEW k \in Turns
      PROVE  /\ Stops(k)' \subseteq Stops(k)
             /\ \A i \in DOMAIN proc'[k].stdout : i \in DOMAIN proc[k].stdout /\ Of(k, i)' = Of(k, i)
                                                  /\ proc'[k].stdout[i] = proc[k].stdout[i]
             /\ \A n : Unread(n, k)' => Unread(n, k)
  <2>1. CASE proc'[k].stdout = proc[k].stdout BY <2>1 DEF Stops, Of, Unread
  <2>2. CASE proc'[k].stdout = <<>>
    <3>1. DOMAIN proc'[k].stdout = {}
      BY <2>2
    <3> QED BY <3>1 DEF Stops, Of, Unread
  <2> QED BY <2>1, <2>2 DEF Quiet
<1>3. ASSUME NEW n, NEW t \in Turns, At(n, t)'
      PROVE  At(n, t)
  <2>1. CASE \E k \in Turns : Sends(k)' /\ reader'[k].to = t /\ reader'[k].event.last /\ reader'[k].event.answer = n
    BY <2>1 DEF Quiet, At
  <2>2. CASE \E i \in DOMAIN turn'[t].channel : turn'[t].channel[i].last /\ turn'[t].channel[i].answer = n
    <3>1. turn'[t].channel # <<>>
      BY <2>2
    <3> QED BY <2>2, <3>1 DEF Quiet, At
  <2>3. CASE turn'[t].pc = "done" /\ turn'[t].got = n BY <2>3 DEF Quiet, At
  <2> QED BY <1>3, <2>1, <2>2, <2>3 DEF At
<1> QED BY <1>1, <1>2, <1>3

LEMMA QuietPasses ==
  ASSUME Quiet
  PROVE  Passed
<1>1. /\ Replies' = Replies
      /\ \A n : \A k \in Turns : Unread(n, k)' => Unread(n, k)
      /\ \A n : \A t \in Turns : At(n, t)' => At(n, t)
  BY QuietFacts
<1>2. answer' = answer
  BY DEF Quiet
<1> QED BY <1>1, <1>2 DEF Passed

LEMMA QuietKeeps ==
  ASSUME Known, Once, Quiet
  PROVE  Known' /\ Once'
<1>1. /\ Replies' = Replies
      /\ \A k \in Turns : /\ Stops(k)' \subseteq Stops(k)
                          /\ \A i \in DOMAIN proc'[k].stdout : i \in DOMAIN proc[k].stdout /\ Of(k, i)' = Of(k, i)
                                                               /\ proc'[k].stdout[i] = proc[k].stdout[i]
      /\ \A n : \A k \in Turns : Unread(n, k)' => Unread(n, k)
      /\ \A n : \A t \in Turns : At(n, t)' => At(n, t)
  BY QuietFacts
<1>2. Once'
  <2>1. ASSUME NEW k \in Turns, NEW i \in Stops(k)', NEW j \in Stops(k)', Of(k, i)' = Of(k, j)'
        PROVE  i = j
    <3>1. i \in Stops(k) /\ j \in Stops(k) /\ i \in DOMAIN proc'[k].stdout /\ j \in DOMAIN proc'[k].stdout
      BY <1>1, <2>1 DEF Stops
    <3> QED BY <1>1, <2>1, <3>1 DEF Once
  <2>2. \A n \in Replies : \A k, j \in Turns : Unread(n, k)' /\ Unread(n, j)' => k = j
    BY <1>1 DEF Once
  <2>3. \A n \in Replies : \A k, t \in Turns : Unread(n, k)' => ~At(n, t)'
    BY <1>1 DEF Once
  <2>4. \A n \in Replies : \A t, u \in Turns : At(n, t)' /\ At(n, u)' => t = u
    BY <1>1 DEF Once
  <2> QED BY <1>1, <2>1, <2>2, <2>3, <2>4 DEF Once
<1>3. Known'
  <2>1. \A k \in Turns : \A i \in DOMAIN proc'[k].stdout :
          Of(k, i)' \in Replies' /\ (proc'[k].stdout[i].kind = "call" => proc'[k].stdout[i].call # None)
    BY <1>1 DEF Known
  <2>2. \A k \in Turns : Sends(k)' => reader'[k].event.answer \in Replies'
    BY <1>1 DEF Known, Quiet
  <2>3. ASSUME NEW t \in Turns, NEW i \in DOMAIN turn'[t].channel
        PROVE  turn'[t].channel[i].answer \in Replies'
    <3>1. turn'[t].channel # <<>>
      BY <2>3
    <3> QED BY <1>1, <2>3, <3>1 DEF Known, Quiet
  <2>4. \A t \in Turns : turn'[t].got # None => turn'[t].got \in Replies'
    BY <1>1 DEF Known, Quiet
  <2>5. \A n \in Replies' : \A c \in answer'[n].calls : c[1] = n
    BY <1>1 DEF Known, Quiet
  <2> QED BY <2>1, <2>2, <2>3, <2>4, <2>5 DEF Known
<1> QED BY <1>2, <1>3

-----------------------------------------------------------------------------
(* The table, step by step *)

LEMMA Kept ==
  /\ \A t \in Turns : turn'[t].channel = turn[t].channel => (NoLast(t)' <=> NoLast(t))
  /\ \A k \in Turns : reader'[k] = reader[k] => (Sends(k)' <=> Sends(k)) /\ (Saves(k)' <=> Saves(k))
  /\ \A k \in Turns : proc'[k].stdout = proc[k].stdout =>
       Stops(k)' = Stops(k) /\ \A i : Of(k, i)' = Of(k, i)
<1> QED BY DEF NoLast, Sends, Saves, Stops, Of

LEMMA RunsKept ==
  ASSUME RestSound, FinalSound, IdleSound, UNCHANGED <<run, proc, answer>>
  PROVE  RestSound' /\ FinalSound' /\ IdleSound'
<1>1. Live' = Live /\ \A k \in Turns : Stops(k)' = Stops(k) /\ \A i : Of(k, i)' = Of(k, i)
  BY DEF Live, Stops, Of
<1>2. Live \subseteq Turns
  BY DEF Live
<1>3. RestSound'
  BY <1>1, <1>2 DEF RestSound
<1>4. FinalSound'
  BY <1>1, <1>2 DEF FinalSound
<1>5. IdleSound'
  BY <1>1, <1>2 DEF IdleSound
<1> QED BY <1>3, <1>4, <1>5

LEMMA AsksFacts ==
  ASSUME Types, Known, NEW t \in Turns, NEW prev \in Turns \cup {None}, Asks(t, prev)
  PROVE  /\ turn[t].pc = "new" /\ turn'[t].pc = "asked" /\ turn'[t].messages # <<>>
         /\ turn'[t].key = turn[t].key /\ turn'[t].channel = turn[t].channel /\ turn'[t].got = turn[t].got
         /\ \A u \in Turns : u # t => turn'[u] = turn[u]
         /\ UNCHANGED <<run, proc, reader, answer, file, archive>>
<1>1. turn \in [Turns -> Turn] /\ turn' \in [Turns -> Turn]
  BY AsksTypes DEF Types
<1>2. turn[t].pc = "new" /\ UNCHANGED <<run, proc, reader, answer, file, archive>>
  BY DEF Asks
<1>3. PICK tools \in BOOLEAN : \E saved \in Checkpoint \cup {None} : Asking(t, prev, tools, saved)
  BY AsksShape
<1>4. PICK saved \in Checkpoint \cup {None} : Asking(t, prev, tools, saved)
  BY <1>3
<1>5. turn[t] \in Turn
  BY <1>1
<1>6. /\ turn'[t].pc = "asked" /\ turn'[t].messages = Append(Prior(prev), <<IF tools THEN "r" ELSE "u", t>>)
      /\ turn'[t].key = turn[t].key /\ turn'[t].channel = turn[t].channel /\ turn'[t].got = turn[t].got
      /\ \A u \in Turns : u # t => turn'[u] = turn[u]
  BY <1>1, <1>4, <1>5 DEF Turn, Asking
<1>7. turn'[t].messages # <<>>
  BY <1>4, <1>6, Appended DEF Asking
<1> QED BY <1>2, <1>6, <1>7

LEMMA AsksTable ==
  ASSUME TableInv, NEW t \in Turns, NEW prev \in Turns \cup {None}, Asks(t, prev)
  PROVE  TableInv' /\ Passed
<1>1. /\ turn[t].pc = "new" /\ turn'[t].pc = "asked" /\ turn'[t].messages # <<>>
      /\ turn'[t].key = turn[t].key /\ turn'[t].channel = turn[t].channel /\ turn'[t].got = turn[t].got
      /\ \A u \in Turns : u # t => turn'[u] = turn[u]
      /\ UNCHANGED <<run, proc, reader, answer, file, archive>>
  BY AsksFacts DEF TableInv
<1>2. Types'
  BY <1>1, AsksTypes DEF TableInv, Types
<1>3. Quiet
  BY <1>1 DEF Quiet, Sends
<1>4. Known' /\ Once'
  BY <1>3, QuietKeeps DEF TableInv
<1>5. DeadGone' /\ Sessions' /\ InputSound' /\ RestSound' /\ FinalSound' /\ IdleSound'
  <2>1. DeadGone' /\ Sessions' /\ InputSound'
    BY <1>1 DEF TableInv, DeadGone, Sessions, InputSound, Live, Saves
  <2>2. RestSound' /\ FinalSound' /\ IdleSound'
    BY <1>1, RunsKept DEF TableInv
  <2> QED BY <2>1, <2>2
<1>6. AskedFull'
  BY <1>1 DEF TableInv, AskedFull
<1>7. Begun'
  BY <1>1 DEF TableInv, Begun
<1>8. SenderSound'
  BY <1>1 DEF TableInv, SenderSound, Live, Sends, NoLast
<1>9. ReaderSound'
  <2> SUFFICES ASSUME NEW k \in Turns, NEW u \in Turns, Sends(k)', reader'[k].to = u
               PROVE  \/ turn'[u].pc = "open" /\ turn'[u].key = k /\ NoLast(u)'
                      \/ turn'[u].pc = "failed" /\ k \notin Live'
    BY DEF ReaderSound
  <2>1. \/ turn[u].pc = "open" /\ turn[u].key = k /\ NoLast(u)
        \/ turn[u].pc = "failed" /\ k \notin Live
    BY <1>1 DEF TableInv, ReaderSound, Sends
  <2>2. turn'[u] = turn[u]
    BY <1>1, <2>1
  <2> QED BY <1>1, <2>1, <2>2 DEF NoLast, Live
<1> QED BY <1>3, QuietPasses, <1>2, <1>4, <1>5, <1>6, <1>7, <1>8, <1>9 DEF TableInv

LEMMA TakenFacts ==
  ASSUME Types, NEW t \in Turns, NEW k \in Live, NEW calls \in Seq(ToolCall), Taken(k, t, calls)
  PROVE  /\ \A u \in Turns : u # t => turn'[u] = turn[u]
         /\ turn'[t].pc = "open" /\ turn'[t].key = k /\ turn'[t].saved = None
         /\ turn'[t].channel = turn[t].channel /\ turn'[t].got = turn[t].got
         /\ turn'[t].messages = turn[t].messages /\ turn'[t].results = turn[t].results
         /\ \A j \in Turns : j # k => run'[j] = run[j]
         /\ run'[k].sender = t /\ run'[k].history = turn[t].messages /\ run'[k].calls = calls
         /\ ~run'[k].parked /\ ~run'[k].terminal
         /\ run'[k] # None /\ Live' = Live
         /\ UNCHANGED <<reader, answer, file, archive>>
<1>1. /\ k \in Turns /\ run[k] \in Run /\ run \in [Turns -> Run \cup {None}]
      /\ turn[t] \in Turn /\ turn \in [Turns -> Turn]
  BY LiveTypes, TurnTypes DEF Types
<1>2. /\ \A u \in Turns : u # t => turn'[u] = turn[u]
      /\ turn'[t].pc = "open" /\ turn'[t].key = k /\ turn'[t].saved = None
      /\ turn'[t].channel = turn[t].channel /\ turn'[t].got = turn[t].got
      /\ turn'[t].messages = turn[t].messages /\ turn'[t].results = turn[t].results
  BY <1>1 DEF Taken, Turn
<1>3. /\ \A j \in Turns : j # k => run'[j] = run[j]
      /\ run'[k] = [run[k] EXCEPT !.sender = t, !.parked = FALSE, !.terminal = FALSE,
                                  !.history = turn[t].messages, !.calls = calls]
  BY <1>1 DEF Taken
<1>4. /\ run'[k].sender = t /\ run'[k].history = turn[t].messages /\ run'[k].calls = calls
      /\ ~run'[k].parked /\ ~run'[k].terminal
  BY <1>1, <1>3 DEF Run
<1>5. run'[k] # None
  <2>1. turn[t].messages \in Conversation
    BY TurnTypes DEF Conversation
  <2>2. [run[k] EXCEPT !.sender = t, !.parked = FALSE, !.terminal = FALSE,
                       !.history = turn[t].messages, !.calls = calls] \in Run
    BY <1>1, <2>1 DEF Run
  <2> QED BY <1>3, <2>2, Kinds
<1>6. Live' = Live
  BY <1>1, <1>3, <1>5 DEF Live
<1> QED BY <1>2, <1>3, <1>4, <1>5, <1>6 DEF Taken

LEMMA ReturnFacts ==
  ASSUME Types, NEW t \in Turns, ReturnResults(t)
  PROVE  \E k \in Live : \E calls \in Seq(ToolCall) :
           /\ turn[t].pc = "asked" /\ turn[t].results # {} /\ run[k].sender = None /\ run[k].parked
           /\ turn[t].results = CallIds(Unanswered(k))
           /\ calls = [i \in DOMAIN run[k].calls |->
                      [run[k].calls[i] EXCEPT !.result = IF @ = None THEN t ELSE @]]
           /\ Taken(k, t, calls) /\ proc' = proc
<1>1. PICK k \in Reusable(t) :
        /\ turn[t].pc = "asked" /\ ~Text(t) /\ turn[t].results = CallIds(Unanswered(k))
        /\ Taken(k, t, [i \in DOMAIN run[k].calls |->
                      [run[k].calls[i] EXCEPT !.result = IF @ = None THEN t ELSE @]])
        /\ proc' = proc
  BY DEF ReturnResults
<1>2. k \in Live /\ run[k].sender = None /\ run[k].parked /\ turn[t].results # {}
  BY <1>1 DEF Reusable, Awaits, Idle, Text
<1>3. PICK calls : calls = [i \in DOMAIN run[k].calls |->
                      [run[k].calls[i] EXCEPT !.result = IF @ = None THEN t ELSE @]]
  OBVIOUS
<1>4. calls \in Seq(ToolCall)
  <2>1. run[k].calls \in Seq(ToolCall)
    BY <1>2, LiveTypes
  <2>2. \A i \in DOMAIN run[k].calls :
          [run[k].calls[i] EXCEPT !.result = IF run[k].calls[i].result = None THEN t ELSE run[k].calls[i].result] \in ToolCall
    <3> SUFFICES ASSUME NEW i \in DOMAIN run[k].calls
                 PROVE  [run[k].calls[i] EXCEPT !.result = IF run[k].calls[i].result = None THEN t ELSE run[k].calls[i].result] \in ToolCall
      OBVIOUS
    <3>1. run[k].calls[i] \in ToolCall
      BY <2>1
    <3> QED BY <3>1 DEF ToolCall
  <2>3. DOMAIN run[k].calls = 1 .. Len(run[k].calls)
    BY <2>1
  <2>4. calls \in [1 .. Len(run[k].calls) -> ToolCall]
    BY <1>3, <2>2, <2>3
  <2> QED BY <2>1, <2>4, SeqDef
<1> QED BY <1>1, <1>2, <1>3, <1>4

LEMMA ContinueFacts ==
  ASSUME Types, NEW t \in Turns, Continue(t)
  PROVE  \E k \in Live :
           /\ turn[t].pc = "asked" /\ turn[t].results = {} /\ run[k].sender = None /\ ~run[k].parked
           /\ run[k].history = Front(turn[t].messages)
           /\ Taken(k, t, <<>>) /\ proc[k].pc # "dead"
           /\ proc' = [proc EXCEPT ![k].stdin = Append(@, <<"u", t>>)]
<1>1. PICK k \in Reusable(t) :
    /\ turn[t].pc = "asked" /\ Text(t)
    /\ proc[k].pc # "dead"
    /\ proc' = [proc EXCEPT ![k].stdin = Append(@, <<"u", t>>)]
    /\ Taken(k, t, <<>>)
  BY DEF Continue
<1>2. k \in Live /\ run[k].sender = None /\ ~run[k].parked /\ turn[t].results = {}
      /\ run[k].history = Front(turn[t].messages)
  BY <1>1 DEF Reusable, Continues, Idle, Text
<1> QED BY <1>1, <1>2

\* A turn that is asked is neither sent to nor read for.
LEMMA AskedFacts ==
  ASSUME TableInv, NEW t \in Turns, turn[t].pc \in {"new", "asked"}
  PROVE  /\ \A k \in Live : run[k].sender # t
         /\ \A k \in Turns : Sends(k) => reader[k].to # t
         /\ t \notin Live /\ ~Sends(t) /\ ~Saves(t) /\ proc[t] = NoProcess
         /\ turn[t].key = None /\ turn[t].channel = <<>> /\ turn[t].got = None
         /\ \A u \in Turns : turn[u].key # t
<1>1. \A k \in Live : run[k].sender # t
  BY DEF TableInv, SenderSound
<1>2. \A k \in Turns : Sends(k) => reader[k].to # t
  BY DEF TableInv, ReaderSound
<1>3. /\ run[t] = None /\ reader[t] = None /\ \A u \in Turns : turn[u].key # t
      /\ turn[t].key = None /\ turn[t].channel = <<>> /\ turn[t].got = None
  BY DEF TableInv, Begun
<1>4. t \notin Live /\ ~Sends(t) /\ ~Saves(t)
  BY <1>3 DEF Live, Sends, Saves
<1>5. proc[t] = NoProcess
  BY <1>3 DEF TableInv, DeadGone
<1> QED BY <1>1, <1>2, <1>3, <1>4, <1>5

\* Results go to the helper, or a message to a process that waits for one.
LEMMA TakenTable ==
  ASSUME TableInv, NEW t \in Turns, NEW k \in Live, NEW calls \in Seq(ToolCall),
         turn[t].pc = "asked", run[k].sender = None, Taken(k, t, calls),
         proc' \in [Turns -> Tool],
         \A j \in Turns : proc'[j].stdout = proc[j].stdout /\ proc'[j].session = proc[j].session,
         \A j \in Turns \ {k} : proc'[j] = proc[j],
         \/ run[k].parked /\ proc'[k] = proc[k]
         \/ /\ ~run[k].parked /\ proc[k].pc # "dead" /\ proc'[k].pc = proc[k].pc
            /\ proc'[k].stdin # <<>> /\ (proc[k].stdin = <<>> => Len(proc'[k].stdin) = 1)
  PROVE  TableInv' /\ Passed
<1>1. /\ \A u \in Turns : u # t => turn'[u] = turn[u]
      /\ turn'[t].pc = "open" /\ turn'[t].key = k
      /\ turn'[t].channel = turn[t].channel /\ turn'[t].got = turn[t].got
      /\ \A j \in Turns : j # k => run'[j] = run[j]
      /\ run'[k].sender = t /\ run'[k] # None /\ Live' = Live
      /\ UNCHANGED <<reader, answer, file, archive>>
  BY TakenFacts DEF TableInv
<1>2. /\ \A j \in Live : run[j].sender # t
      /\ \A j \in Turns : Sends(j) => reader[j].to # t
      /\ t \notin Live /\ turn[t].channel = <<>> /\ \A u \in Turns : turn[u].key # t
  BY AskedFacts
<1>3. Types'
  <2>1. run' \in [Turns -> Run \cup {None}] /\ turn' \in [Turns -> Turn]
    BY TakenTypes DEF TableInv
  <2> QED BY <1>1, <2>1 DEF TableInv, Types
<1>4. Quiet
  BY <1>1 DEF Quiet, Sends
<1>5. Known' /\ Once'
  BY <1>4, QuietKeeps DEF TableInv
<1>6. k \in Turns /\ k # t /\ Live \subseteq Turns /\ \A j \in Turns : j \in Live <=> run[j] # None
  BY <1>2 DEF Live
<1>7. DeadGone' /\ AskedFull'
  <2>1. \A j \in Turns : run'[j] = None => j # k /\ run[j] = None
    BY <1>1
  <2>2. DeadGone'
    BY <2>1 DEF TableInv, DeadGone
  <2> QED BY <1>1, <2>2 DEF TableInv, AskedFull
<1>8. Begun'
  BY <1>1, <1>6 DEF TableInv, Begun
<1>9. Sessions'
  BY <1>1, <1>6 DEF TableInv, Sessions, Saves
<1>10. SenderSound'
  <2> SUFFICES ASSUME NEW j \in Live, NEW u \in Turns, run'[j].sender = u
               PROVE  /\ turn'[u].pc = "open" /\ turn'[u].key = j /\ NoLast(u)'
                      /\ (Sends(j)' /\ reader'[j].to = u) => ~reader'[j].event.last
    BY <1>1 DEF SenderSound
  <2>1. CASE j = k
    <3>1. u = t
      BY <1>1, <2>1
    <3>2. NoLast(t)'
      BY <1>1, <1>2 DEF NoLast
    <3> QED BY <1>1, <1>2, <1>6, <2>1, <3>1, <3>2 DEF Sends
  <2>2. CASE j # k
    <3>1. run[j].sender = u /\ u # t /\ turn'[u] = turn[u]
      BY <1>1, <1>2, <1>6, <2>2
    <3>2. /\ turn[u].pc = "open" /\ turn[u].key = j /\ NoLast(u)
          /\ Sends(j) /\ reader[j].to = u => ~reader[j].event.last
      BY <3>1 DEF TableInv, SenderSound
    <3> QED BY <1>1, <1>6, <3>1, <3>2, Kept
  <2> QED BY <2>1, <2>2
<1>11. ReaderSound'
  <2> SUFFICES ASSUME NEW j \in Turns, NEW u \in Turns, Sends(j)', reader'[j].to = u
               PROVE  \/ turn'[u].pc = "open" /\ turn'[u].key = j /\ NoLast(u)'
                      \/ turn'[u].pc = "failed" /\ j \notin Live
    BY <1>1 DEF ReaderSound
  <2>1. Sends(j) /\ reader[j].to = u /\ u # t /\ turn'[u] = turn[u]
    BY <1>1, <1>2, Kept
  <2>2. \/ turn[u].pc = "open" /\ turn[u].key = j /\ NoLast(u)
        \/ turn[u].pc = "failed" /\ j \notin Live
    BY <2>1 DEF TableInv, ReaderSound
  <2> QED BY <2>1, <2>2, Kept
<1>12. ~run[k].parked =>
         /\ \A i \in DOMAIN proc[k].stdout : proc[k].stdout[i].kind = "result"
         /\ proc[k].pc = "idle" /\ proc[k].stdin = <<>> /\ Len(proc'[k].stdin) = 1
  BY DEF TableInv, RestSound
<1>13. \A j \in Turns : Stops(j)' = Stops(j) /\ \A i : Of(j, i)' = Of(j, i)
  BY DEF Stops, Of
<1>14. ~run[k].parked => Stops(k) = {}
  BY <1>12 DEF Stops
<1>15. InputSound'
  BY <1>12 DEF TableInv, InputSound
<1>16. RestSound'
  BY <1>1, <1>6, Kinds DEF TableInv, RestSound
<1>17. FinalSound'
  <2> SUFFICES ASSUME NEW j \in Live, NEW i \in Stops(j), answer[Of(j, i)].calls = {}
               PROVE  /\ \A h \in DOMAIN proc'[j].stdout : h > i => proc'[j].stdout[h].kind = "result"
                      /\ proc'[j].pc \in {"idle", "dead"} /\ proc'[j].stdin = <<>>
    BY <1>1, <1>6, <1>13 DEF FinalSound
  <2>1. /\ \A h \in DOMAIN proc[j].stdout : h > i => proc[j].stdout[h].kind = "result"
        /\ proc[j].pc \in {"idle", "dead"} /\ proc[j].stdin = <<>>
    BY DEF TableInv, FinalSound
  <2>2. proc'[j] = proc[j]
    BY <1>6, <1>14
  <2> QED BY <2>1, <2>2
<1>18. IdleSound'
  <2> SUFFICES ASSUME NEW j \in Live, proc'[j].pc = "idle"
               PROVE  /\ (proc'[j].stdin = <<>> /\ (run'[j].sender # None \/ run'[j].parked)) => Stops(j) # {}
                      /\ \A i \in Stops(j) : answer[Of(j, i)].calls # {} => \E h \in Stops(j) : h > i
    BY <1>1, <1>6, <1>13 DEF IdleSound
  <2>1. proc[j].pc = "idle"
    BY <1>6
  <2>2. \A i \in Stops(j) : answer[Of(j, i)].calls # {} => \E h \in Stops(j) : h > i
    BY <2>1 DEF TableInv, IdleSound
  <2>3. ASSUME proc'[j].stdin = <<>>, run'[j].sender # None \/ run'[j].parked
        PROVE  Stops(j) # {}
    <3>1. proc[j].stdin = <<>>
      BY <1>6, <2>3
    <3>2. CASE j = k BY <2>1, <2>3, <3>1, <3>2 DEF TableInv, IdleSound
    <3>3. CASE j # k
      <4>1. run'[j] = run[j]
        BY <1>1, <1>6, <3>3
      <4> QED BY <2>1, <2>3, <3>1, <4>1 DEF TableInv, IdleSound
    <3> QED BY <3>2, <3>3
  <2> QED BY <2>2, <2>3
<1> QED
  BY <1>4, QuietPasses, <1>3, <1>5, <1>7, <1>8, <1>9, <1>10, <1>11, <1>15, <1>16, <1>17, <1>18 DEF TableInv

LEMMA ReturnTable ==
  ASSUME TableInv, NEW t \in Turns, ReturnResults(t)
  PROVE  TableInv' /\ Passed
<1>1. PICK k \in Live : \E calls \in Seq(ToolCall) :
        /\ turn[t].pc = "asked" /\ run[k].sender = None /\ run[k].parked
        /\ Taken(k, t, calls) /\ proc' = proc
  BY ReturnFacts DEF TableInv
<1>2. PICK calls \in Seq(ToolCall) :
        /\ turn[t].pc = "asked" /\ run[k].sender = None /\ run[k].parked
        /\ Taken(k, t, calls) /\ proc' = proc
  BY <1>1
<1> QED
  <2>1. \A j \in Turns : proc'[j].stdout = proc[j].stdout /\ proc'[j].session = proc[j].session
    BY <1>2
  <2>2. /\ proc'[k] = proc[k] /\ proc' \in [Turns -> Tool]
    BY <1>2 DEF TableInv, Types
  <2> QED BY <1>2, <2>1, <2>2, TakenTable

LEMMA ContinueTable ==
  ASSUME TableInv, NEW t \in Turns, Continue(t)
  PROVE  TableInv' /\ Passed
<1>1. PICK k \in Live :
        /\ turn[t].pc = "asked" /\ run[k].sender = None /\ ~run[k].parked
        /\ Taken(k, t, <<>>) /\ proc[k].pc # "dead"
        /\ proc' = [proc EXCEPT ![k].stdin = Append(@, <<"u", t>>)]
  BY ContinueFacts DEF TableInv
<1>2. /\ k \in Turns /\ proc[k] \in Tool /\ proc \in [Turns -> Tool] /\ proc[k].stdin \in Seq(Message)
      /\ <<"u", t>> \in Message
  BY LiveTypes, Messages, Kinds DEF TableInv, Types
<1>3. PICK stdin : stdin = Append(proc[k].stdin, <<"u", t>>)
  OBVIOUS
<1>4. stdin \in Seq(Message) /\ stdin # <<>> /\ (proc[k].stdin = <<>> => Len(stdin) = 1)
  BY <1>2, <1>3, Appended
<1>5. [proc[k] EXCEPT !.stdin = stdin] \in Tool
  BY <1>2, <1>4 DEF Tool, Conversation
<1>6. /\ proc' \in [Turns -> Tool] /\ \A j \in Turns \ {k} : proc'[j] = proc[j]
      /\ proc'[k] = [proc[k] EXCEPT !.stdin = stdin]
  BY <1>1, <1>2, <1>3, <1>5
<1>7. /\ proc'[k].stdin = stdin /\ proc'[k].pc = proc[k].pc
      /\ proc'[k].stdout = proc[k].stdout /\ proc'[k].session = proc[k].session
  BY <1>2, <1>6 DEF Tool
<1>8. <<>> \in Seq(ToolCall)
  OBVIOUS
<1> QED BY <1>1, <1>4, <1>6, <1>7, <1>8, TakenTable

\* A new process has said nothing.
LEMMA FreshFacts ==
  ASSUME Types, NEW t \in Turns, turn[t].messages # <<>>
  PROVE  /\ Fresh(t).stdout = <<>> /\ Fresh(t).session \in Turns
         /\ \/ Fresh(t).pc = "idle" /\ Len(Fresh(t).stdin) = 1
            \/ Fresh(t).pc = "busy" /\ Fresh(t).stdin = <<>>
<1>1. turn[t].saved \in Checkpoint \cup {None}
  BY TurnTypes
<1>2. CASE Resumes(t)
  <2>1. turn[t].saved.session \in Turns
    BY <1>1, <1>2 DEF Resumes, Checkpoint
  <2>2. /\ Fresh(t).stdout = <<>> /\ Fresh(t).session = turn[t].saved.session
        /\ Fresh(t).pc = "idle" /\ Fresh(t).stdin = <<Last(turn[t].messages)>>
    BY <1>2 DEF Fresh, NoProcess
  <2>3. Len(<<Last(turn[t].messages)>>) = 1
    OBVIOUS
  <2> QED BY <2>1, <2>2, <2>3
<1>3. CASE ~Resumes(t) BY <1>3 DEF Fresh, NoProcess
<1> QED BY <1>2, <1>3

LEMMA SpawnFacts ==
  ASSUME TableInv, NEW t \in Turns, Spawn(t)
  PROVE  \E K \in SUBSET Idle :
           /\ turn[t].pc = "asked" /\ turn[t].results = {} /\ ~Full(K) /\ Reusable(t) = {}
           /\ Types'
           /\ \A u \in Turns : u # t => turn'[u] = turn[u]
           /\ turn'[t].pc = "open" /\ turn'[t].key = t /\ turn'[t].saved = None
           /\ turn'[t].channel = turn[t].channel /\ turn'[t].got = turn[t].got
           /\ turn'[t].messages = turn[t].messages /\ turn'[t].results = turn[t].results
           /\ \A j \in Turns : j # t /\ j \in K => run'[j] = None /\ proc'[j] = NoProcess
           /\ \A j \in Turns : j # t /\ j \notin K => run'[j] = run[j] /\ proc'[j] = proc[j]
           /\ run'[t] = [sender |-> t, history |-> turn[t].messages, calls |-> <<>>,
                         parked |-> FALSE, terminal |-> FALSE]
           /\ proc'[t] = Fresh(t)
           /\ Live' = (Live \ K) \cup {t}
           /\ UNCHANGED <<reader, answer, archive>>
<1>1. PICK K \in Evictions :
        /\ turn[t].pc = "asked" /\ Text(t) /\ Reusable(t) = {}
        /\ run' = [k \in Turns |->
             IF k = t THEN [sender |-> t, history |-> turn[t].messages, calls |-> <<>>,
                            parked |-> FALSE, terminal |-> FALSE]
             ELSE IF k \in K THEN None ELSE run[k]]
        /\ proc' = [k \in Turns |->
             IF k = t THEN Fresh(t) ELSE IF k \in K THEN NoProcess ELSE proc[k]]
        /\ turn' = [turn EXCEPT ![t] = [@ EXCEPT !.pc = "open", !.key = t, !.saved = None]]
        /\ UNCHANGED <<reader, answer, archive>>
  BY DEF Spawn
<1>2. K \in SUBSET Idle /\ ~Full(K)
  BY DEF Evictions, Evictable
<1>3. turn[t].messages # <<>>
  BY <1>1 DEF TableInv, AskedFull
<1>4. Types'
  BY <1>1, <1>3, SpawnTypes DEF TableInv, Types
<1>5. turn[t] \in Turn /\ turn \in [Turns -> Turn]
  BY DEF TableInv, Types
<1>6. /\ \A u \in Turns : u # t => turn'[u] = turn[u]
      /\ turn'[t].pc = "open" /\ turn'[t].key = t /\ turn'[t].saved = None
      /\ turn'[t].channel = turn[t].channel /\ turn'[t].got = turn[t].got
      /\ turn'[t].messages = turn[t].messages /\ turn'[t].results = turn[t].results
  BY <1>1, <1>5 DEF Turn
<1>7. /\ \A j \in Turns : j # t /\ j \in K => run'[j] = None /\ proc'[j] = NoProcess
      /\ \A j \in Turns : j # t /\ j \notin K => run'[j] = run[j] /\ proc'[j] = proc[j]
      /\ run'[t] = [sender |-> t, history |-> turn[t].messages, calls |-> <<>>,
                    parked |-> FALSE, terminal |-> FALSE]
      /\ proc'[t] = Fresh(t)
  BY <1>1
<1>8. run'[t] # None
  <2>1. turn[t].messages \in Seq(Message) /\ <<>> \in Seq(ToolCall)
    BY <1>5 DEF Turn, Conversation
  <2>2. run'[t] \in Run
    BY <1>7, <2>1 DEF Run, Conversation
  <2> QED BY <2>2, Kinds
<1>9. Live' = (Live \ K) \cup {t}
  <2>1. t \notin Live
    BY <1>1, AskedFacts
  <2>2. \A j \in Turns : run'[j] # None <=> j = t \/ (j \notin K /\ run[j] # None)
    BY <1>7, <1>8
  <2> QED BY <2>1, <2>2 DEF Live
<1>10. turn[t].results = {}
  BY <1>1 DEF Text
<1> QED BY <1>1, <1>2, <1>4, <1>6, <1>7, <1>9, <1>10

LEMMA SpawnTable ==
  ASSUME TableInv, NEW t \in Turns, Spawn(t)
  PROVE  TableInv' /\ Passed
<1>1. PICK K \in SUBSET Idle :
           /\ turn[t].pc = "asked"
           /\ Types'
           /\ \A u \in Turns : u # t => turn'[u] = turn[u]
           /\ turn'[t].pc = "open" /\ turn'[t].key = t
           /\ turn'[t].channel = turn[t].channel /\ turn'[t].got = turn[t].got
           /\ \A j \in Turns : j # t /\ j \in K => run'[j] = None /\ proc'[j] = NoProcess
           /\ \A j \in Turns : j # t /\ j \notin K => run'[j] = run[j] /\ proc'[j] = proc[j]
           /\ run'[t] = [sender |-> t, history |-> turn[t].messages, calls |-> <<>>,
                         parked |-> FALSE, terminal |-> FALSE]
           /\ proc'[t] = Fresh(t)
           /\ Live' = (Live \ K) \cup {t}
           /\ UNCHANGED <<reader, answer, archive>>
  BY SpawnFacts
<1>2. /\ \A j \in Live : run[j].sender # t
      /\ \A j \in Turns : Sends(j) => reader[j].to # t
      /\ t \notin Live /\ ~Sends(t) /\ ~Saves(t) /\ proc[t] = NoProcess
      /\ turn[t].channel = <<>> /\ \A u \in Turns : turn[u].key # t
  BY <1>1, AskedFacts
<1>3. /\ Live \subseteq Turns /\ \A j \in Live' : j # t => j \in Live \ K /\ run'[j] = run[j] /\ proc'[j] = proc[j]
      /\ \A j \in Turns : run[j] # None <=> j \in Live
      /\ \A j \in Turns : run'[j] # None <=> j \in Live'
  BY <1>1 DEF Live
<1>4. /\ Fresh(t).stdout = <<>> /\ Fresh(t).session \in Turns
      /\ \/ Fresh(t).pc = "idle" /\ Len(Fresh(t).stdin) = 1
         \/ Fresh(t).pc = "busy" /\ Fresh(t).stdin = <<>>
  BY <1>1, FreshFacts DEF TableInv, AskedFull
<1>5. Quiet
  <2>1. \A k \in Turns : proc'[k].stdout \in {proc[k].stdout, <<>>}
    <3> SUFFICES ASSUME NEW k \in Turns
                 PROVE  proc'[k].stdout \in {proc[k].stdout, <<>>}
      OBVIOUS
    <3>1. CASE k = t BY <1>1, <1>4, <3>1
    <3>2. CASE k # t /\ k \in K BY <1>1, <3>2 DEF NoProcess
    <3>3. CASE k # t /\ k \notin K BY <1>1, <3>3
    <3> QED BY <3>1, <3>2, <3>3
  <2> QED BY <1>1, <2>1 DEF Quiet, Sends
<1>6. Known' /\ Once'
  BY <1>5, QuietKeeps DEF TableInv
<1>7. DeadGone'
  BY <1>1, <1>3 DEF TableInv, DeadGone
<1>8. AskedFull'
  BY <1>1 DEF TableInv, AskedFull
<1>9. Begun'
  <2> SUFFICES ASSUME NEW u \in Turns, turn'[u].pc \in {"new", "asked"}
               PROVE  /\ run'[u] = None /\ reader'[u] = None /\ \A v \in Turns : turn'[v].key # u
                      /\ turn'[u].key = None /\ turn'[u].channel = <<>> /\ turn'[u].got = None
    BY DEF Begun
  <2>1. u # t /\ turn'[u] = turn[u]
    BY <1>1
  <2>2. /\ run[u] = None /\ reader[u] = None /\ \A v \in Turns : turn[v].key # u
        /\ turn[u].key = None /\ turn[u].channel = <<>> /\ turn[u].got = None
    BY <2>1 DEF TableInv, Begun
  <2> QED BY <1>1, <2>1, <2>2
<1>10. Sessions'
  <2>1. \A j \in Live' : proc'[j].session # None
    <3>1. proc'[t].session # None
      BY <1>1, <1>4, Kinds
    <3> QED BY <1>3, <3>1 DEF TableInv, Sessions
  <2>2. \A j \in Turns : Saves(j)' => reader'[j].session # None
    BY <1>1, Kept DEF TableInv, Sessions
  <2> QED BY <2>1, <2>2 DEF Sessions
<1>11. SenderSound'
  <2> SUFFICES ASSUME NEW j \in Live', NEW u \in Turns, run'[j].sender = u
               PROVE  /\ turn'[u].pc = "open" /\ turn'[u].key = j /\ NoLast(u)'
                      /\ (Sends(j)' /\ reader'[j].to = u) => ~reader'[j].event.last
    BY DEF SenderSound
  <2>1. CASE j = t
    <3>1. u = t
      BY <1>1, <2>1
    <3>2. NoLast(t)'
      BY <1>1, <1>2 DEF NoLast
    <3>3. ~Sends(t)'
      BY <1>1, <1>2, Kept
    <3> QED BY <1>1, <2>1, <3>1, <3>2, <3>3
  <2>2. CASE j # t
    <3>1. j \in Live /\ run[j].sender = u /\ u # t /\ turn'[u] = turn[u]
      BY <1>1, <1>2, <1>3, <2>2
    <3>2. /\ turn[u].pc = "open" /\ turn[u].key = j /\ NoLast(u)
          /\ Sends(j) /\ reader[j].to = u => ~reader[j].event.last
      BY <3>1 DEF TableInv, SenderSound
    <3> QED BY <1>1, <1>3, <3>1, <3>2, Kept
  <2> QED BY <2>1, <2>2
<1>12. ReaderSound'
  <2> SUFFICES ASSUME NEW j \in Turns, NEW u \in Turns, Sends(j)', reader'[j].to = u
               PROVE  \/ turn'[u].pc = "open" /\ turn'[u].key = j /\ NoLast(u)'
                      \/ turn'[u].pc = "failed" /\ j \notin Live'
    BY DEF ReaderSound
  <2>1. Sends(j) /\ reader[j].to = u /\ u # t /\ j # t /\ turn'[u] = turn[u]
    BY <1>1, <1>2, Kept
  <2>2. \/ turn[u].pc = "open" /\ turn[u].key = j /\ NoLast(u)
        \/ turn[u].pc = "failed" /\ j \notin Live
    BY <2>1 DEF TableInv, ReaderSound
  <2>3. j \notin Live => j \notin Live'
    BY <1>1, <2>1
  <2> QED BY <2>1, <2>2, <2>3, Kept
<1>13. InputSound'
  <2> SUFFICES ASSUME NEW j \in Turns, proc'[j].stdin # <<>>
               PROVE  proc'[j].pc = "idle" /\ Len(proc'[j].stdin) = 1
    BY DEF InputSound
  <2>1. CASE j = t BY <1>1, <1>4, <2>1
  <2>2. CASE j # t /\ j \in K BY <1>1, <2>2 DEF NoProcess
  <2>3. CASE j # t /\ j \notin K BY <1>1, <2>3 DEF TableInv, InputSound
  <2> QED BY <2>1, <2>2, <2>3
<1>14. Stops(t)' = {}
  <2>1. DOMAIN proc'[t].stdout = {}
    BY <1>1, <1>4
  <2> QED BY <2>1 DEF Stops
<1>15. \A j \in Live' : j # t => Stops(j)' = Stops(j) /\ \A i : Of(j, i)' = Of(j, i)
  BY <1>3, Kept
<1>16. RestSound'
  BY <1>1, <1>3, Kinds DEF TableInv, RestSound
<1>17. FinalSound'
  <2> SUFFICES ASSUME NEW j \in Live', NEW i \in Stops(j)', (answer[Of(j, i)].calls = {})'
               PROVE  /\ \A h \in DOMAIN proc'[j].stdout : h > i => proc'[j].stdout[h].kind = "result"
                      /\ proc'[j].pc \in {"idle", "dead"} /\ proc'[j].stdin = <<>>
    BY DEF FinalSound
  <2>1. j # t
    BY <1>14
  <2>2. j \in Live /\ i \in Stops(j) /\ answer[Of(j, i)].calls = {} /\ proc'[j] = proc[j]
    BY <1>1, <1>3, <1>15, <2>1
  <2> QED BY <2>2 DEF TableInv, FinalSound
<1>18. IdleSound'
  <2> SUFFICES ASSUME NEW j \in Live', proc'[j].pc = "idle"
               PROVE  /\ (proc'[j].stdin = <<>> /\ (run'[j].sender # None \/ run'[j].parked)) => Stops(j)' # {}
                      /\ \A i \in Stops(j)' : (answer[Of(j, i)].calls # {})' => \E h \in Stops(j)' : h > i
    BY DEF IdleSound
  <2>1. CASE j = t
    <3>1. proc'[t].stdin # <<>>
      BY <1>1, <1>4, <2>1
    <3> QED BY <1>14, <2>1, <3>1
  <2>2. CASE j # t
    <3>1. j \in Live /\ proc'[j] = proc[j] /\ run'[j] = run[j]
      BY <1>3, <2>2
    <3>2. /\ (proc[j].stdin = <<>> /\ (run[j].sender # None \/ run[j].parked)) => Stops(j) # {}
          /\ \A i \in Stops(j) : answer[Of(j, i)].calls # {} => \E h \in Stops(j) : h > i
      BY <3>1 DEF TableInv, IdleSound
    <3> QED BY <1>1, <1>15, <2>2, <3>1, <3>2
  <2> QED BY <2>1, <2>2
<1> QED
  BY <1>5, QuietPasses, <1>1, <1>6, <1>7, <1>8, <1>9, <1>10, <1>11, <1>12, <1>13, <1>16, <1>17, <1>18 DEF TableInv

\* The runs in K are dropped, and the turns in D have failed.
Dropped(K, D) ==
  /\ run' = [k \in Turns |-> IF k \in K THEN None ELSE run[k]]
  /\ proc' = [k \in Turns |-> IF k \in K THEN NoProcess ELSE proc[k]]
  /\ turn' = [t \in Turns |-> IF t \in D THEN [NewTurn EXCEPT !.pc = "failed"] ELSE turn[t]]
  /\ UNCHANGED <<answer, archive>>

LEMMA DroppedFacts ==
  ASSUME Types, NEW K, NEW D, Dropped(K, D)
  PROVE  /\ \A j \in Turns : j \in K => run'[j] = None /\ proc'[j] = NoProcess
         /\ \A j \in Turns : j \notin K => run'[j] = run[j] /\ proc'[j] = proc[j]
         /\ \A u \in Turns : u \notin D => turn'[u] = turn[u]
         /\ \A u \in Turns : u \in D =>
              /\ turn'[u].pc = "failed" /\ turn'[u].channel = <<>> /\ turn'[u].got = None
              /\ turn'[u].key = None /\ turn'[u].messages = <<>> /\ turn'[u].results = {}
         /\ Live' = Live \ K /\ Live \subseteq Turns
         /\ \A j \in Turns : run[j] # None <=> j \in Live
         /\ \A j \in Turns : run'[j] # None <=> j \in Live'
<1>1. /\ \A j \in Turns : j \in K => run'[j] = None /\ proc'[j] = NoProcess
      /\ \A j \in Turns : j \notin K => run'[j] = run[j] /\ proc'[j] = proc[j]
      /\ \A u \in Turns : u \notin D => turn'[u] = turn[u]
      /\ \A u \in Turns : u \in D => turn'[u] = [NewTurn EXCEPT !.pc = "failed"]
  BY DEF Dropped
<1>2. LET e == [NewTurn EXCEPT !.pc = "failed"] IN
      /\ e.pc = "failed" /\ e.channel = <<>> /\ e.got = None
      /\ e.key = None /\ e.messages = <<>> /\ e.results = {}
  BY DEF NewTurn
<1>3. Live' = Live \ K /\ Live \subseteq Turns
  BY <1>1 DEF Live
<1>4. \A j \in Turns : (run[j] # None <=> j \in Live) /\ (run'[j] # None <=> j \in Live')
  BY DEF Live
<1> QED BY <1>1, <1>2, <1>3, <1>4

LEMMA DroppedTable ==
  ASSUME TableInv, NEW K, NEW D, Dropped(K, D),
         \A t \in Turns : t \in D =>
           /\ turn[t].pc \in {"asked", "open"} /\ \A k \in Live \ K : run[k].sender # t
           /\ \A k \in Turns : Sends(k)' /\ reader[k].to = t => k \notin Live \ K,
         \A k \in Turns : reader'[k] \in {reader[k], None},
         Types'
  PROVE  TableInv' /\ Passed
<1>1. /\ \A j \in Turns : j \in K => run'[j] = None /\ proc'[j] = NoProcess
      /\ \A j \in Turns : j \notin K => run'[j] = run[j] /\ proc'[j] = proc[j]
      /\ \A u \in Turns : u \notin D => turn'[u] = turn[u]
      /\ \A u \in Turns : u \in D =>
           /\ turn'[u].pc = "failed" /\ turn'[u].channel = <<>> /\ turn'[u].got = None
           /\ turn'[u].key = None /\ turn'[u].messages = <<>>
      /\ Live' = Live \ K /\ Live \subseteq Turns
      /\ \A j \in Turns : run[j] # None <=> j \in Live
      /\ \A j \in Turns : run'[j] # None <=> j \in Live'
  BY DroppedFacts DEF TableInv
<1>2. answer' = answer
  BY DEF Dropped
<1>3. \A j \in Turns : (Sends(j)' => Sends(j) /\ reader'[j] = reader[j]) /\ (Saves(j)' => Saves(j) /\ reader'[j] = reader[j])
  BY DEF Sends, Saves
<1>4. Quiet
  <2>1. \A k \in Turns : proc'[k].stdout \in {proc[k].stdout, <<>>}
    BY <1>1 DEF NoProcess
  <2>2. \A t \in Turns :
       /\ turn'[t].channel \in {turn[t].channel, <<>>}
       /\ turn'[t].got \in {turn[t].got, None}
       /\ turn'[t].pc = "done" => turn[t].pc = "done" /\ turn'[t].got = turn[t].got
    BY <1>1
  <2> QED BY <1>2, <1>3, <2>1, <2>2 DEF Quiet
<1>5. Known' /\ Once'
  BY <1>4, QuietKeeps DEF TableInv
<1>6. DeadGone'
  BY <1>1 DEF TableInv, DeadGone
<1>7. AskedFull'
  BY <1>1 DEF TableInv, AskedFull
<1>8. Begun'
  <2> SUFFICES ASSUME NEW u \in Turns, turn'[u].pc \in {"new", "asked"}
               PROVE  /\ run'[u] = None /\ reader'[u] = None /\ \A v \in Turns : turn'[v].key # u
                      /\ turn'[u].key = None /\ turn'[u].channel = <<>> /\ turn'[u].got = None
    BY DEF Begun
  <2>1. turn'[u] = turn[u]
    BY <1>1
  <2>2. /\ run[u] = None /\ reader[u] = None /\ \A v \in Turns : turn[v].key # u
        /\ turn[u].key = None /\ turn[u].channel = <<>> /\ turn[u].got = None
    BY <2>1 DEF TableInv, Begun
  <2>3. \A v \in Turns : turn'[v].key # u
    BY <1>1, <2>2, Kinds
  <2>4. run'[u] = None /\ reader'[u] = None
    BY <1>1, <2>2
  <2> QED BY <2>1, <2>2, <2>3, <2>4
<1>9. Sessions'
  <2>1. \A j \in Live' : proc'[j].session # None
    BY <1>1 DEF TableInv, Sessions
  <2>2. \A j \in Turns : Saves(j)' => reader'[j].session # None
    BY <1>3 DEF TableInv, Sessions
  <2> QED BY <2>1, <2>2 DEF Sessions
<1>10. SenderSound'
  <2> SUFFICES ASSUME NEW j \in Live', NEW u \in Turns, run'[j].sender = u
               PROVE  /\ turn'[u].pc = "open" /\ turn'[u].key = j /\ NoLast(u)'
                      /\ (Sends(j)' /\ reader'[j].to = u) => ~reader'[j].event.last
    BY DEF SenderSound
  <2>1. j \in Live \ K /\ j \in Turns /\ run[j].sender = u
    BY <1>1
  <2>2. turn'[u] = turn[u]
    BY <1>1, <2>1
  <2>3. /\ turn[u].pc = "open" /\ turn[u].key = j /\ NoLast(u)
        /\ Sends(j) /\ reader[j].to = u => ~reader[j].event.last
    BY <2>1 DEF TableInv, SenderSound
  <2>4. NoLast(u)'
    BY <2>2, <2>3, Kept
  <2> QED BY <1>3, <2>1, <2>2, <2>3, <2>4
<1>11. ReaderSound'
  <2> SUFFICES ASSUME NEW j \in Turns, NEW u \in Turns, Sends(j)', reader'[j].to = u
               PROVE  \/ turn'[u].pc = "open" /\ turn'[u].key = j /\ NoLast(u)'
                      \/ turn'[u].pc = "failed" /\ j \notin Live'
    BY DEF ReaderSound
  <2>1. Sends(j) /\ reader[j].to = u
    BY <1>3
  <2>2. CASE u \in D BY <1>1, <2>1, <2>2
  <2>3. CASE u \notin D
    <3>1. \/ turn[u].pc = "open" /\ turn[u].key = j /\ NoLast(u)
          \/ turn[u].pc = "failed" /\ j \notin Live
      BY <2>1 DEF TableInv, ReaderSound
    <3>2. turn'[u] = turn[u]
      BY <1>1, <2>3
    <3>3. NoLast(u)' <=> NoLast(u)
      BY <3>2, Kept
    <3> QED BY <1>1, <3>1, <3>2, <3>3
  <2> QED BY <2>2, <2>3
<1>12. InputSound'
  BY <1>1 DEF TableInv, InputSound, NoProcess
<1>13. \A j \in Live' : /\ j \in Live /\ run'[j] = run[j] /\ proc'[j] = proc[j]
                        /\ Stops(j)' = Stops(j) /\ \A i : Of(j, i)' = Of(j, i)
  BY <1>1, Kept
<1>14. RestSound'
  BY <1>13 DEF TableInv, RestSound
<1>15. FinalSound'
  <2> SUFFICES ASSUME NEW j \in Live', NEW i \in Stops(j)', (answer[Of(j, i)].calls = {})'
               PROVE  /\ \A h \in DOMAIN proc'[j].stdout : h > i => proc'[j].stdout[h].kind = "result"
                      /\ proc'[j].pc \in {"idle", "dead"} /\ proc'[j].stdin = <<>>
    BY DEF FinalSound
  <2>1. j \in Live /\ i \in Stops(j) /\ answer[Of(j, i)].calls = {} /\ proc'[j] = proc[j]
    BY <1>2, <1>13
  <2> QED BY <2>1 DEF TableInv, FinalSound
<1>16. IdleSound'
  <2> SUFFICES ASSUME NEW j \in Live', proc'[j].pc = "idle"
               PROVE  /\ (proc'[j].stdin = <<>> /\ (run'[j].sender # None \/ run'[j].parked)) => Stops(j)' # {}
                      /\ \A i \in Stops(j)' : (answer[Of(j, i)].calls # {})' => \E h \in Stops(j)' : h > i
    BY DEF IdleSound
  <2>1. /\ (proc[j].stdin = <<>> /\ (run[j].sender # None \/ run[j].parked)) => Stops(j) # {}
        /\ \A i \in Stops(j) : answer[Of(j, i)].calls # {} => \E h \in Stops(j) : h > i
    BY <1>13 DEF TableInv, IdleSound
  <2> QED BY <1>2, <1>13, <2>1
<1> QED
  BY <1>4, QuietPasses, <1>5, <1>6, <1>7, <1>8, <1>9, <1>10, <1>11, <1>12, <1>14, <1>15, <1>16 DEF TableInv

LEMMA FailedShape ==
  ASSUME Types, NEW t \in Turns, Failed(t)
  PROVE  turn' = [u \in Turns |-> IF u \in {t} THEN [NewTurn EXCEPT !.pc = "failed"] ELSE turn[u]]
<1> QED BY DEF Types, Failed

LEMMA KeptShape ==
  ASSUME Types, turn' = turn
  PROVE  turn' = [u \in Turns |-> IF u \in {} THEN [NewTurn EXCEPT !.pc = "failed"] ELSE turn[u]]
<1> QED BY DEF Types

\* An end of runs or of turns is one of these.
LEMMA RefuseShape ==
  ASSUME TableInv, NEW t \in Turns, Refuse(t)
  PROVE  \E K \in SUBSET Idle : Dropped(K, {t}) /\ (K = {} \/ K \in Evictions) /\ turn[t].pc = "asked" /\ reader' = reader /\ Types'
<1>1. PICK K \in SUBSET Idle : Removed(K) /\ (K = {} \/ K \in Evictions)
  BY DEF Refuse, Evictions, Evictable
<1>2. Dropped(K, {t})
  BY <1>1, FailedShape DEF TableInv, Refuse, Dropped, Removed
<1>3. Types'
  BY <1>1, RemovedTypes, FailedTypes DEF TableInv, Types, Refuse
<1> QED BY <1>1, <1>2, <1>3 DEF Refuse

LEMMA BrokenShape ==
  ASSUME TableInv, NEW t \in Turns, Broken(t)
  PROVE  Dropped({}, {t}) /\ turn[t].pc = "open" /\ ~HasSender(t) /\ reader' = reader /\ Types'
<1>1. Types'
  BY FailedTypes DEF TableInv, Types, Broken
<1>2. Dropped({}, {t})
  BY FailedShape DEF TableInv, Types, Broken, Dropped
<1> QED BY <1>1, <1>2 DEF Broken

LEMMA LeaveShape ==
  ASSUME TableInv, NEW t \in Turns, Leave(t)
  PROVE  Dropped({turn[t].key}, {t}) /\ turn[t].pc = "open" /\ reader' = reader /\ Types'
<1>1. Types'
  BY RemovedTypes, FailedTypes DEF TableInv, Types, Leave
<1>2. Dropped({turn[t].key}, {t})
  BY FailedShape DEF TableInv, Leave, Dropped, Removed
<1> QED BY <1>1, <1>2 DEF Leave

LEMMA EndShape ==
  ASSUME TableInv, NEW k \in Turns, Reap(k) \/ Revoke(k) \/ ReaderEnds(k)
  PROVE  Dropped({k}, {}) /\ (\A j \in Turns : reader'[j] \in {reader[j], None}) /\ Types'
<1>1. Removed({k}) /\ UNCHANGED <<turn, answer, archive>> /\ (reader' = reader \/ reader' = [reader EXCEPT ![k] = None])
  BY DEF Reap, Revoke, ReaderEnds
<1>2. reader \in [Turns -> Sending \cup Saving \cup {None}]
  BY DEF TableInv, Types
<1>3. /\ \A j \in Turns : reader'[j] \in {reader[j], None}
      /\ reader' \in [Turns -> Sending \cup Saving \cup {None}]
  BY <1>1, <1>2
<1>4. Types'
  BY <1>1, <1>3, RemovedTypes DEF TableInv, Types
<1>5. Dropped({k}, {})
  BY <1>1, KeptShape DEF TableInv, Dropped, Removed
<1> QED BY <1>3, <1>4, <1>5

LEMMA EndsTable ==
  ASSUME TableInv, NEW t \in Turns,
         Refuse(t) \/ Broken(t) \/ Leave(t) \/ Reap(t) \/ Revoke(t) \/ ReaderEnds(t)
  PROVE  TableInv' /\ Passed
<1>1. CASE Refuse(t)
  <2>1. PICK K \in SUBSET Idle : Dropped(K, {t}) /\ turn[t].pc = "asked" /\ reader' = reader /\ Types'
    BY <1>1, RefuseShape
  <2>2. (\A k \in Live : run[k].sender # t) /\ (\A k \in Turns : Sends(k) => reader[k].to # t)
    BY <2>1, AskedFacts
  <2>3. \A k \in Turns : Sends(k)' => Sends(k)
    BY <2>1, Kept
  <2> QED BY <2>1, <2>2, <2>3, DroppedTable
<1>2. CASE Broken(t)
  <2>1. Dropped({}, {t}) /\ turn[t].pc = "open" /\ ~HasSender(t) /\ reader' = reader /\ Types'
    BY <1>2, BrokenShape
  <2>2. (\A k \in Live : run[k].sender # t) /\ (\A k \in Turns : Sends(k) => reader[k].to # t)
    BY <2>1 DEF HasSender
  <2>3. \A k \in Turns : Sends(k)' => Sends(k)
    BY <2>1, Kept
  <2> QED BY <2>1, <2>2, <2>3, DroppedTable
<1>3. CASE Leave(t)
  <2>1. Dropped({turn[t].key}, {t}) /\ turn[t].pc = "open" /\ reader' = reader /\ Types'
    BY <1>3, LeaveShape
  <2>2. \A k \in Live \ {turn[t].key} : run[k].sender # t
    BY DEF TableInv, SenderSound
  <2>3. \A k \in Turns : Sends(k)' => Sends(k)
    BY <2>1, Kept
  <2>4. \A k \in Turns : Sends(k) /\ reader[k].to = t => k \notin Live \ {turn[t].key}
    BY DEF TableInv, ReaderSound
  <2> QED BY <2>1, <2>2, <2>3, <2>4, DroppedTable
<1>4. CASE Reap(t) \/ Revoke(t) \/ ReaderEnds(t)
  <2>1. Dropped({t}, {}) /\ (\A j \in Turns : reader'[j] \in {reader[j], None}) /\ Types'
    BY <1>4, EndShape
  <2> QED BY <2>1, DroppedTable
<1> QED BY <1>1, <1>2, <1>3, <1>4

\* A step of the process or its helper that writes nothing to stdout.
LEMMA WorkTable ==
  ASSUME TableInv, NEW k \in Turns, Types',
         UNCHANGED <<turn, reader, answer, archive>>,
         proc[k].pc \in {"idle", "busy", "tools"}, proc'[k].pc # "idle",
         \A j \in Turns \ {k} : proc'[j] = proc[j] /\ run'[j] = run[j],
         proc'[k].stdout = proc[k].stdout, proc'[k].session = proc[k].session,
         proc'[k].stdin = <<>>,
         proc[k].pc = "idle" => proc[k].stdin # <<>> \/ proc'[k].pc = "dead",
         run'[k] = run[k] \/ (run[k] # None /\ run'[k] # None /\ run'[k].sender = run[k].sender
                              /\ run'[k].parked = run[k].parked)
  PROVE  TableInv' /\ Passed
<1>1. k \in Live
  BY DEF TableInv, DeadGone, Live, NoProcess
<1>2. /\ Live' = Live /\ Live \subseteq Turns
      /\ \A j \in Turns : run[j] # None <=> j \in Live
      /\ \A j \in Live : run'[j].sender = run[j].sender /\ run'[j].parked = run[j].parked
  BY <1>1 DEF Live
<1>3. Quiet
  BY DEF Quiet, Sends
<1>4. Known' /\ Once'
  BY <1>3, QuietKeeps DEF TableInv
<1>5. \A j \in Turns : /\ Stops(j)' = Stops(j) /\ \A i : Of(j, i)' = Of(j, i)
                       /\ proc'[j].stdout = proc[j].stdout
  BY Kept
<1>6. DeadGone'
  BY <1>1, <1>2 DEF TableInv, DeadGone, Live
<1>7. AskedFull' /\ Sessions'
  BY <1>2 DEF TableInv, AskedFull, Sessions, Saves
<1>8. Begun'
  <2> SUFFICES ASSUME NEW u \in Turns, turn[u].pc \in {"new", "asked"}
               PROVE  /\ run'[u] = None /\ reader[u] = None /\ \A v \in Turns : turn[v].key # u
                      /\ turn[u].key = None /\ turn[u].channel = <<>> /\ turn[u].got = None
    BY DEF Begun
  <2>1. /\ run[u] = None /\ reader[u] = None /\ \A v \in Turns : turn[v].key # u
        /\ turn[u].key = None /\ turn[u].channel = <<>> /\ turn[u].got = None
    BY DEF TableInv, Begun
  <2> QED BY <1>1, <1>2, <2>1
<1>9. \A u \in Turns : (NoLast(u)' <=> NoLast(u)) /\ (Sends(u)' <=> Sends(u))
  BY Kept
<1>10. SenderSound'
  BY <1>2, <1>9 DEF TableInv, SenderSound
<1>11. ReaderSound'
  BY <1>2, <1>9 DEF TableInv, ReaderSound
<1>12. InputSound'
  BY DEF TableInv, InputSound
<1>13. \A j \in Live : /\ proc[j].pc \in {"idle", "dead"} /\ proc[j].stdin = <<>>
                       => proc'[j].pc \in {"idle", "dead"} /\ proc'[j].stdin = <<>>
  BY <1>2
<1>14. RestSound'
  BY <1>2, <1>5, <1>13 DEF TableInv, RestSound
<1>15. FinalSound'
  BY <1>2, <1>5, <1>13 DEF TableInv, FinalSound
<1>16. IdleSound'
  <2> SUFFICES ASSUME NEW j \in Live, proc'[j].pc = "idle"
               PROVE  /\ (proc'[j].stdin = <<>> /\ (run'[j].sender # None \/ run'[j].parked)) => Stops(j)' # {}
                      /\ \A i \in Stops(j)' : (answer[Of(j, i)].calls # {})' => \E h \in Stops(j)' : h > i
    BY <1>2 DEF IdleSound
  <2>1. j # k /\ proc'[j] = proc[j] /\ run'[j] = run[j]
    BY <1>2
  <2>2. /\ (proc[j].stdin = <<>> /\ (run[j].sender # None \/ run[j].parked)) => Stops(j) # {}
        /\ \A i \in Stops(j) : answer[Of(j, i)].calls # {} => \E h \in Stops(j) : h > i
    BY <2>1 DEF TableInv, IdleSound
  <2> QED BY <1>2, <1>5, <2>1, <2>2
<1> QED
  BY <1>3, QuietPasses, <1>4, <1>6, <1>7, <1>8, <1>10, <1>11, <1>12, <1>14, <1>15, <1>16 DEF TableInv

LEMMA TakeInputFacts ==
  ASSUME Types, NEW k \in Turns, TakeInput(k)
  PROVE  /\ proc[k].pc = "idle" /\ proc[k].stdin # <<>> /\ proc'[k].pc = "busy"
         /\ proc'[k].stdin = Tail(proc[k].stdin) /\ proc'[k].talk = Append(proc[k].talk, Head(proc[k].stdin))
         /\ \A j \in Turns : j # k => proc'[j] = proc[j]
         /\ proc'[k].stdout = proc[k].stdout /\ proc'[k].session = proc[k].session
         /\ proc'[k].todo = proc[k].todo /\ proc'[k].held = proc[k].held /\ proc'[k].token = proc[k].token
         /\ Wrote(k, proc'[k].talk) /\ UNCHANGED <<turn, run, reader, answer, archive>>
<1>1. PICK talk, stdin : talk = Append(proc[k].talk, Head(proc[k].stdin)) /\ stdin = Tail(proc[k].stdin)
  OBVIOUS
<1>2. /\ proc[k].pc = "idle" /\ proc[k].stdin # <<>>
      /\ proc' = [proc EXCEPT ![k] = [proc[k] EXCEPT !.pc = "busy", !.stdin = stdin, !.talk = talk]]
      /\ Wrote(k, talk) /\ UNCHANGED <<turn, run, reader, answer, archive>>
  BY <1>1 DEF TakeInput
<1>3. proc[k] \in Tool /\ proc \in [Turns -> Tool]
  BY DEF Types
<1>4. /\ proc'[k] = [proc[k] EXCEPT !.pc = "busy", !.stdin = stdin, !.talk = talk]
      /\ \A j \in Turns : j # k => proc'[j] = proc[j]
  BY <1>2, <1>3
<1>5. /\ proc'[k].stdin = stdin /\ proc'[k].talk = talk /\ proc'[k].pc = "busy"
      /\ proc'[k].stdout = proc[k].stdout /\ proc'[k].session = proc[k].session
      /\ proc'[k].todo = proc[k].todo /\ proc'[k].held = proc[k].held /\ proc'[k].token = proc[k].token
  BY <1>3, <1>4 DEF Tool
<1> QED BY <1>1, <1>2, <1>4, <1>5

LEMMA SettleFacts ==
  ASSUME Types, NEW k \in Turns, NEW token \in Message, Settle(k, token)
  PROVE  /\ \A j \in Turns : j # k => proc'[j] = proc[j]
         /\ proc'[k].stdin = proc[k].stdin
         /\ proc'[k].stdout = proc[k].stdout /\ proc'[k].session = proc[k].session
         /\ proc'[k].held = None
         /\ \/ /\ Len(proc[k].todo) > 1 /\ proc'[k].pc = proc[k].pc /\ proc'[k].talk = proc[k].talk
               /\ proc'[k].todo = Tail(proc[k].todo) /\ proc'[k].token = Joined(proc[k].token, token)
               /\ file' = file
            \/ /\ ~(Len(proc[k].todo) > 1) /\ proc'[k].pc = "busy"
               /\ proc'[k].talk = Append(proc[k].talk, Joined(proc[k].token, token))
               /\ proc'[k].todo = <<>> /\ proc'[k].token = None
               /\ Wrote(k, proc'[k].talk)
<1>1. PICK all : all = Joined(proc[k].token, token)
  OBVIOUS
<1>2. PICK talk : talk = Append(proc[k].talk, all)
  OBVIOUS
<1>3. PICK todo : todo = Tail(proc[k].todo)
  OBVIOUS
<1>4. proc[k] \in Tool /\ proc \in [Turns -> Tool]
  BY DEF Types
<1>5. CASE Len(proc[k].todo) > 1
  <2>1. proc' = [proc EXCEPT ![k] = [proc[k] EXCEPT !.todo = todo, !.held = None, !.token = all]] /\ file' = file
    BY <1>1, <1>3, <1>5 DEF Settle
  <2>2. /\ \A j \in Turns : j # k => proc'[j] = proc[j]
        /\ proc'[k] = [proc[k] EXCEPT !.todo = todo, !.held = None, !.token = all]
    BY <1>4, <2>1
  <2>3. /\ proc'[k].stdin = proc[k].stdin /\ proc'[k].stdout = proc[k].stdout /\ proc'[k].session = proc[k].session
        /\ proc'[k].held = None /\ proc'[k].pc = proc[k].pc /\ proc'[k].talk = proc[k].talk
        /\ proc'[k].todo = todo /\ proc'[k].token = all
    BY <1>4, <2>2 DEF Tool
  <2> QED BY <1>1, <1>3, <1>5, <2>1, <2>2, <2>3
<1>6. CASE ~(Len(proc[k].todo) > 1)
  <2>1. /\ proc' = [proc EXCEPT ![k] =
              [proc[k] EXCEPT !.pc = "busy", !.todo = <<>>, !.held = None, !.token = None, !.talk = talk]]
        /\ Wrote(k, talk)
    BY <1>1, <1>2, <1>6 DEF Settle
  <2>2. /\ \A j \in Turns : j # k => proc'[j] = proc[j]
        /\ proc'[k] = [proc[k] EXCEPT !.pc = "busy", !.todo = <<>>, !.held = None, !.token = None, !.talk = talk]
    BY <1>4, <2>1
  <2>3. /\ proc'[k].stdin = proc[k].stdin /\ proc'[k].stdout = proc[k].stdout /\ proc'[k].session = proc[k].session
        /\ proc'[k].held = None /\ proc'[k].pc = "busy" /\ proc'[k].talk = talk
        /\ proc'[k].todo = <<>> /\ proc'[k].token = None
    BY <1>4, <2>2 DEF Tool
  <2> QED BY <1>1, <1>2, <1>6, <2>1, <2>2, <2>3
<1> QED BY <1>5, <1>6

LEMMA ClaimFacts ==
  ASSUME Types, NEW k \in Turns, Claim(k)
  PROVE  \E i \in DOMAIN run[k].calls :
           /\ proc[k].pc = "tools" /\ proc[k].held = None /\ k \in Live
           /\ ~run[k].calls[i].claimed
           /\ \A j \in 1 .. i - 1 : run[k].calls[j].claimed
           /\ run'[k].calls = Claimed(k, i) /\ proc'[k].held = run[k].calls[i].id
           /\ \A j \in Turns : j # k => proc'[j] = proc[j] /\ run'[j] = run[j]
           /\ proc'[k].stdin = proc[k].stdin /\ proc'[k].pc = proc[k].pc /\ proc'[k].talk = proc[k].talk
           /\ proc'[k].stdout = proc[k].stdout /\ proc'[k].session = proc[k].session
           /\ proc'[k].todo = proc[k].todo /\ proc'[k].token = proc[k].token
           /\ run'[k] # None /\ run'[k].sender = run[k].sender /\ run'[k].parked = run[k].parked
           /\ run'[k].terminal = run[k].terminal /\ run'[k].history = run[k].history
           /\ UNCHANGED <<turn, reader, answer, file, archive>>
<1>1. PICK i \in DOMAIN run[k].calls :
       /\ ~run[k].calls[i].claimed
       /\ \A j \in 1 .. i - 1 : run[k].calls[j].claimed
       /\ run' = [run EXCEPT ![k].calls = Claimed(k, i)]
       /\ proc' = [proc EXCEPT ![k].held = run[k].calls[i].id]
  BY DEF Claim
<1>2. /\ proc[k].pc = "tools" /\ proc[k].held = None /\ run[k] # None /\ k \in Live
      /\ UNCHANGED <<turn, reader, answer, file, archive>>
  BY DEF Claim, Live
<1>3. PICK calls, id : calls = Claimed(k, i) /\ id = run[k].calls[i].id
  OBVIOUS
<1>4. /\ proc[k] \in Tool /\ proc \in [Turns -> Tool] /\ run[k] \in Run /\ run \in [Turns -> Run \cup {None}]
  BY <1>2 DEF Types
<1>5. /\ \A j \in Turns : j # k => proc'[j] = proc[j] /\ run'[j] = run[j]
      /\ run'[k] = [run[k] EXCEPT !.calls = calls] /\ proc'[k] = [proc[k] EXCEPT !.held = id]
  BY <1>1, <1>3, <1>4
<1>6. /\ proc'[k].stdin = proc[k].stdin /\ proc'[k].pc = proc[k].pc /\ proc'[k].talk = proc[k].talk
      /\ proc'[k].stdout = proc[k].stdout /\ proc'[k].session = proc[k].session
      /\ proc'[k].todo = proc[k].todo /\ proc'[k].token = proc[k].token /\ proc'[k].held = id
  BY <1>4, <1>5 DEF Tool
<1>7. /\ run'[k].sender = run[k].sender /\ run'[k].parked = run[k].parked /\ run'[k].calls = calls
      /\ run'[k].terminal = run[k].terminal /\ run'[k].history = run[k].history
  BY <1>4, <1>5 DEF Run
<1>8. run'[k] # None
  <2>1. run' \in [Turns -> Run \cup {None}]
    BY ClaimTypes
  <2>2. DOMAIN run'[k] = DOMAIN run[k]
    BY <1>5
  <2>3. Claimed(k, i) \in Seq(ToolCall)
    <3>1. run[k].calls \in Seq(ToolCall) /\ run[k].calls[i] \in ToolCall
      BY <1>4 DEF Run
    <3>2. [run[k].calls[i] EXCEPT !.claimed = TRUE] \in ToolCall
      BY <3>1 DEF ToolCall
    <3>3. Claimed(k, i) = [run[k].calls EXCEPT ![i] = [run[k].calls[i] EXCEPT !.claimed = TRUE]]
      BY DEF Claimed
    <3> QED BY <3>1, <3>2, <3>3, ExceptSeq
  <2>4. run'[k] \in Run
    BY <1>3, <1>4, <1>5, <2>3 DEF Run
  <2> QED BY <2>4, Kinds
<1> QED BY <1>1, <1>2, <1>3, <1>5, <1>6, <1>7, <1>8

LEMMA ProcessTable ==
  ASSUME TableInv, NEW k \in Turns, TakeInput(k) \/ Claim(k) \/ Poll(k) \/ HelperGivesUp(k) \/ Exit(k)
  PROVE  TableInv' /\ Passed
<1>1. proc[k] \in Tool /\ proc \in [Turns -> Tool] /\ proc[k].pc \in {"dead", "idle", "busy", "tools"}
      /\ proc[k].stdin \in Seq(Message) /\ (proc[k].stdin # <<>> => proc[k].pc = "idle" /\ Len(proc[k].stdin) = 1)
  BY LiveTypes DEF TableInv, Types, Tool, InputSound
<1>2. CASE TakeInput(k)
  <2>1. /\ proc[k].pc = "idle" /\ proc[k].stdin # <<>> /\ proc'[k].pc = "busy"
        /\ proc'[k].stdin = Tail(proc[k].stdin)
        /\ \A j \in Turns : j # k => proc'[j] = proc[j]
        /\ proc'[k].stdout = proc[k].stdout /\ proc'[k].session = proc[k].session
        /\ UNCHANGED <<turn, run, reader, answer, archive>>
    BY <1>2, TakeInputFacts DEF TableInv
  <2>2. proc'[k].stdin = <<>>
    <3>1. PICK c : c = proc[k].stdin
      OBVIOUS
    <3>2. c \in Seq(Message) /\ Len(c) = 1
      BY <1>1, <2>1, <3>1
    <3>3. Tail(c) \in Seq(Message) /\ Len(Tail(c)) = 0
      BY <3>2
    <3>4. Tail(c) = <<>>
      BY <3>3, EmptySeq
    <3> QED BY <2>1, <3>1, <3>4
  <2>3. Types'
    BY <1>2, <2>1, TakeInputTypes DEF TableInv, Types
  <2> QED BY <2>1, <2>2, <2>3, WorkTable
<1>3. CASE Claim(k)
  <2>1. /\ proc[k].pc = "tools" /\ k \in Live
        /\ \A j \in Turns : j # k => proc'[j] = proc[j] /\ run'[j] = run[j]
        /\ proc'[k].stdin = proc[k].stdin /\ proc'[k].pc = proc[k].pc
        /\ proc'[k].stdout = proc[k].stdout /\ proc'[k].session = proc[k].session
        /\ run'[k] # None /\ run'[k].sender = run[k].sender /\ run'[k].parked = run[k].parked
        /\ UNCHANGED <<turn, reader, answer, file, archive>>
    BY <1>3, ClaimFacts DEF TableInv
  <2>2. Types'
    <3>1. proc' \in [Turns -> Tool] /\ run' \in [Turns -> Run \cup {None}]
      BY <1>3, ClaimTypes DEF TableInv
    <3>2. UNCHANGED <<turn, reader, answer, file, archive>>
      BY <1>3 DEF Claim
    <3> QED BY <3>1, <3>2 DEF TableInv, Types
  <2>3. run[k] # None
    BY <1>3 DEF Claim
  <2> QED BY <1>1, <2>1, <2>2, <2>3, WorkTable
<1>4. CASE Poll(k) \/ HelperGivesUp(k)
  <2>1. PICK token \in Message : Settle(k, token)
    BY <1>4, HelperTypes DEF TableInv
  <2>2. proc[k].pc = "tools" /\ UNCHANGED <<turn, run, reader, answer, archive>>
    BY <1>4 DEF Poll, HelperGivesUp
  <2>3. /\ \A j \in Turns : j # k => proc'[j] = proc[j]
        /\ proc'[k].stdin = proc[k].stdin /\ proc'[k].pc \in {"busy", "tools"}
        /\ proc'[k].stdout = proc[k].stdout /\ proc'[k].session = proc[k].session
    BY <2>1, <2>2, SettleFacts DEF TableInv
  <2>4. Types'
    BY <2>1, <2>2, SettleTypes DEF TableInv, Types
  <2> QED BY <1>1, <2>2, <2>3, <2>4, WorkTable
<1>5. CASE Exit(k)
  <2>1. /\ proc[k].pc # "dead" /\ UNCHANGED <<turn, run, reader, answer, file, archive>>
        /\ proc'[k] = [NoProcess EXCEPT !.session = proc[k].session, !.stdout = proc[k].stdout]
        /\ \A j \in Turns : j # k => proc'[j] = proc[j]
    BY <1>1, <1>5 DEF Exit
  <2>2. /\ proc'[k].stdin = <<>> /\ proc'[k].pc = "dead"
        /\ proc'[k].stdout = proc[k].stdout /\ proc'[k].session = proc[k].session
    BY <2>1 DEF NoProcess
  <2>3. Types'
    BY <1>5, <2>1, ExitTypes DEF TableInv, Types
  <2> QED BY <1>1, <2>1, <2>2, <2>3, WorkTable
<1> QED BY <1>2, <1>3, <1>4, <1>5

\* An answer is written after what is there.
Generating(k, size, n) ==
  /\ n = Len(answer) + 1 /\ proc[k].pc = "busy"
  /\ answer' \in Seq(Reply) /\ Len(answer') = n /\ \A i \in 1 .. n - 1 : answer'[i] = answer[i]
  /\ answer'[n].to = proc[k].talk /\ answer'[n].calls = {<<n, i>> : i \in 1 .. size}
  /\ \A j \in Turns : j # k => proc'[j] = proc[j]
  /\ proc'[k].pc = (IF size = 0 THEN "idle" ELSE "tools")
  /\ proc'[k].talk = Append(proc[k].talk, <<"a", n>>) /\ proc'[k].todo = Ids(n, size)
  /\ proc'[k].stdin = proc[k].stdin /\ proc'[k].session = proc[k].session
  /\ proc'[k].held = proc[k].held /\ proc'[k].token = proc[k].token
  /\ Wrote(k, proc'[k].talk)
  /\ UNCHANGED <<turn, run, reader, archive>>

Written(k, size, n) ==
  LET old == proc[k].stdout
      new == proc'[k].stdout
  IN /\ new \in Seq(Output) /\ Len(new) = Len(old) + size + (IF size = 0 THEN 2 ELSE 1)
     /\ \A i \in 1 .. Len(old) : new[i] = old[i]
     /\ \A i \in 1 .. size : new[Len(old) + i] = OutputLine("call", n, <<n, i>>)
     /\ new[Len(old) + size + 1] = OutputLine("stop", n, None)
     /\ size = 0 => new[Len(old) + 2] = OutputLine("result", n, None)

IsJoined(S, a, b, ab) ==
  /\ ab \in Seq(S) /\ Len(ab) = Len(a) + Len(b) /\ Len(a) \in Nat /\ Len(b) \in Nat
  /\ \A i \in 1 .. Len(a) : ab[i] = a[i]
  /\ \A i \in 1 .. Len(b) : ab[Len(a) + i] = b[i]

LEMMA JoinedTwo ==
  ASSUME NEW S, NEW a \in Seq(S), NEW b \in Seq(S)
  PROVE  IsJoined(S, a, b, a \o b)
<1>1. Len(a) \in Nat /\ Len(b) \in Nat
  OBVIOUS
<1>2. PICK ab : ab = a \o b
  OBVIOUS
<1>3. /\ ab \in Seq(S) /\ Len(ab) = Len(a) + Len(b)
      /\ \A i \in 1 .. Len(a) + Len(b) : ab[i] = (IF i <= Len(a) THEN a[i] ELSE b[i - Len(a)])
  BY <1>2, ConcatProperties
<1>4. ASSUME NEW i \in 1 .. Len(b)
      PROVE  ab[Len(a) + i] = b[i]
  <2>1. PICK j : j = Len(a) + i
    OBVIOUS
  <2>2. j \in 1 .. Len(a) + Len(b) /\ ~(j <= Len(a)) /\ j - Len(a) = i
    BY <1>1, <2>1
  <2> QED BY <1>3, <2>1, <2>2
<1>5. ASSUME NEW i \in 1 .. Len(a)
      PROVE  ab[i] = a[i]
  <2>1. i \in 1 .. Len(a) + Len(b) /\ i <= Len(a)
    BY <1>1
  <2> QED BY <1>3, <2>1
<1>6. IsJoined(S, a, b, ab)
  BY <1>1, <1>3, <1>4, <1>5 DEF IsJoined
<1> QED BY <1>2, <1>6

LEMMA JoinedLines ==
  ASSUME NEW S, NEW a \in Seq(S), NEW b \in Seq(S), NEW c \in Seq(S)
  PROVE  \E ab : IsJoined(S, a, b, ab) /\ IsJoined(S, ab, c, a \o b \o c)
<1>1. IsJoined(S, a, b, a \o b)
  BY JoinedTwo
<1>2. a \o b \in Seq(S)
  BY <1>1 DEF IsJoined
<1>3. IsJoined(S, a \o b, c, a \o b \o c)
  BY <1>2, JoinedTwo
<1> QED BY <1>1, <1>3

LEMMA GenerateShape ==
  ASSUME Types, NEW k \in Turns, Generate(k)
  PROVE  \E size \in Nat : \E n \in Nat : size <= MaxCalls /\ Generating(k, size, n) /\ Written(k, size, n)
<1>1. PICK size \in 0 .. MaxCalls : \E n \in Nat :
           /\ n = Len(answer) + 1 /\ proc[k].pc = "busy"
           /\ answer' = Append(answer, [to |-> proc[k].talk, calls |-> Range(Ids(n, size))])
           /\ proc' = [proc EXCEPT ![k] =
                [proc[k] EXCEPT !.pc = IF size = 0 THEN "idle" ELSE "tools",
                          !.talk = Append(@, <<"a", n>>), !.todo = Ids(n, size),
                          !.stdout = @ \o Blocks(n, size) \o Ending(n, size)]]
           /\ Wrote(k, Append(proc[k].talk, <<"a", n>>))
           /\ UNCHANGED <<turn, run, reader, archive>>
  BY GenerateFacts
<1>2. PICK n \in Nat :
           /\ n = Len(answer) + 1 /\ proc[k].pc = "busy"
           /\ answer' = Append(answer, [to |-> proc[k].talk, calls |-> Range(Ids(n, size))])
           /\ proc' = [proc EXCEPT ![k] =
                [proc[k] EXCEPT !.pc = IF size = 0 THEN "idle" ELSE "tools",
                          !.talk = Append(@, <<"a", n>>), !.todo = Ids(n, size),
                          !.stdout = @ \o Blocks(n, size) \o Ending(n, size)]]
           /\ Wrote(k, Append(proc[k].talk, <<"a", n>>))
           /\ UNCHANGED <<turn, run, reader, archive>>
  BY <1>1
<1>3. size \in Nat /\ size <= MaxCalls
  BY Kinds
<1>4. /\ Range(Ids(n, size)) = {<<n, i>> : i \in 1 .. size}
      /\ Blocks(n, size) \in Seq(Output) /\ Len(Blocks(n, size)) = size
      /\ \A i \in 1 .. size : Blocks(n, size)[i] = OutputLine("call", n, <<n, i>>)
      /\ Ending(n, size) \in Seq(Output) /\ Len(Ending(n, size)) = (IF size = 0 THEN 2 ELSE 1)
      /\ Ending(n, size)[1] = OutputLine("stop", n, None)
      /\ size = 0 => Ending(n, size)[2] = OutputLine("result", n, None)
  BY <1>3, LinesFacts
<1>5. /\ proc[k] \in Tool /\ proc \in [Turns -> Tool] /\ answer \in Seq(Reply)
      /\ proc[k].talk \in Seq(Message) /\ proc[k].stdout \in Seq(Output)
  BY LiveTypes DEF Types
<1>6. PICK talk, todo : talk = Append(proc[k].talk, <<"a", n>>) /\ todo = Ids(n, size)
  OBVIOUS
<1>7. PICK stdout : stdout = proc[k].stdout \o Blocks(n, size) \o Ending(n, size)
  OBVIOUS
<1>8. /\ proc'[k] = [proc[k] EXCEPT !.pc = IF size = 0 THEN "idle" ELSE "tools",
                                    !.talk = talk, !.todo = todo, !.stdout = stdout]
      /\ \A j \in Turns : j # k => proc'[j] = proc[j]
  BY <1>2, <1>5, <1>6, <1>7
<1>9. /\ proc'[k].pc = (IF size = 0 THEN "idle" ELSE "tools")
      /\ proc'[k].talk = talk /\ proc'[k].todo = todo /\ proc'[k].stdout = stdout
      /\ proc'[k].stdin = proc[k].stdin /\ proc'[k].session = proc[k].session
      /\ proc'[k].held = proc[k].held /\ proc'[k].token = proc[k].token
  BY <1>5, <1>8 DEF Tool
<1>10. answer' \in Seq(Reply)
  BY GenerateTypes
<1>11. /\ Len(answer') = n /\ \A i \in 1 .. n - 1 : answer'[i] = answer[i]
       /\ answer'[n] = [to |-> proc[k].talk, calls |-> Range(Ids(n, size))]
  <2>1. PICK r : r = [to |-> proc[k].talk, calls |-> Range(Ids(n, size))]
    OBVIOUS
  <2>2. /\ Len(answer) \in Nat /\ Len(Append(answer, r)) = Len(answer) + 1
        /\ \A i \in 1 .. Len(answer) : Append(answer, r)[i] = answer[i]
        /\ Append(answer, r)[Len(answer) + 1] = r
    BY <1>5
  <2> QED BY <1>2, <2>1, <2>2
<1>12. Generating(k, size, n)
  <2>1. answer'[n].to = proc[k].talk /\ answer'[n].calls = {<<n, i>> : i \in 1 .. size}
    BY <1>4, <1>11
  <2> QED BY <1>2, <1>6, <1>8, <1>9, <1>10, <1>11, <2>1 DEF Generating
<1>13. Written(k, size, n)
  <2>1. \E ab : /\ IsJoined(Output, proc[k].stdout, Blocks(n, size), ab)
                /\ IsJoined(Output, ab, Ending(n, size), proc[k].stdout \o Blocks(n, size) \o Ending(n, size))
    BY <1>4, <1>5, JoinedLines
  <2>2. PICK ab : IsJoined(Output, proc[k].stdout, Blocks(n, size), ab) /\ IsJoined(Output, ab, Ending(n, size), stdout)
    BY <1>7, <2>1
  <2>3. PICK m : m = Len(proc[k].stdout)
    OBVIOUS
  <2>4. /\ m \in Nat /\ Len(ab) = m + size
        /\ \A i \in 1 .. m : ab[i] = proc[k].stdout[i]
        /\ \A i \in 1 .. size : ab[m + i] = OutputLine("call", n, <<n, i>>)
    BY <1>4, <2>2, <2>3 DEF IsJoined
  <2>5. /\ stdout \in Seq(Output) /\ Len(stdout) = m + size + (IF size = 0 THEN 2 ELSE 1)
        /\ \A i \in 1 .. m + size : stdout[i] = ab[i]
        /\ \A i \in 1 .. (IF size = 0 THEN 2 ELSE 1) : stdout[m + size + i] = Ending(n, size)[i]
    BY <1>4, <2>2, <2>4 DEF IsJoined
  <2>6. stdout[m + size + 1] = OutputLine("stop", n, None)
    BY <1>4, <2>5
  <2>7. size = 0 => stdout[m + 2] = OutputLine("result", n, None)
    <3>1. ASSUME size = 0
          PROVE  stdout[m + size + 2] = Ending(n, size)[2]
      BY <2>5, <3>1
    <3> QED BY <1>4, <2>4, <3>1
  <2>8. ASSUME NEW i \in 1 .. m
        PROVE  stdout[i] = proc[k].stdout[i]
    BY <1>3, <2>4, <2>5
  <2>9. ASSUME NEW i \in 1 .. size
        PROVE  stdout[m + i] = OutputLine("call", n, <<n, i>>)
    <3>1. m + i \in 1 .. m + size
      BY <1>3, <2>4
    <3> QED BY <2>4, <2>5, <3>1
  <2> QED BY <1>9, <2>3, <2>5, <2>6, <2>7, <2>8, <2>9 DEF Written
<1> QED BY <1>3, <1>12, <1>13

Extended(k, size, n, m) ==
  /\ m = Len(proc[k].stdout) /\ DOMAIN proc[k].stdout = 1 .. m
  /\ DOMAIN proc'[k].stdout = 1 .. m + size + (IF size = 0 THEN 2 ELSE 1)
  /\ \A i \in 1 .. m : proc'[k].stdout[i] = proc[k].stdout[i] /\ Of(k, i)' = Of(k, i)
  /\ \A i \in DOMAIN proc'[k].stdout : i \notin 1 .. m =>
       Of(k, i)' = n /\ (proc'[k].stdout[i].kind = "call" => proc'[k].stdout[i].call = <<n, i - m>>)
  /\ \A i \in 1 .. size : proc'[k].stdout[m + i] = OutputLine("call", n, <<n, i>>)
  /\ Of(k, m + size + 1)' = n /\ m + size + 1 \notin Stops(k)
  /\ Stops(k)' = Stops(k) \cup {m + size + 1}
  /\ size = 0 => proc'[k].stdout[m + 2].kind = "result"

LEMMA GeneratedStops ==
  ASSUME Types, NEW k \in Turns, NEW size \in Nat, NEW n \in Nat, Written(k, size, n)
  PROVE  \E m \in Nat : Extended(k, size, n, m)
<1>1. PICK old, new : old = proc[k].stdout /\ new = proc'[k].stdout
  OBVIOUS
<1>2. old \in Seq(Output)
  BY <1>1, LiveTypes
<1>3. PICK m \in Nat : m = Len(old)
  BY <1>2
<1>4. /\ new \in Seq(Output) /\ Len(new) = m + size + (IF size = 0 THEN 2 ELSE 1)
      /\ \A i \in 1 .. m : new[i] = old[i]
      /\ \A i \in 1 .. size : new[m + i] = OutputLine("call", n, <<n, i>>)
      /\ new[m + size + 1] = OutputLine("stop", n, None)
      /\ size = 0 => new[m + 2] = OutputLine("result", n, None)
  BY <1>1, <1>3 DEF Written
<1>5. DOMAIN old = 1 .. m /\ DOMAIN new = 1 .. m + size + (IF size = 0 THEN 2 ELSE 1)
  BY <1>2, <1>3, <1>4
<1>6. \A c, kind : /\ OutputLine(kind, n, c).kind = kind /\ OutputLine(kind, n, c).answer = n
                   /\ OutputLine(kind, n, c).call = c
  BY DEF OutputLine
<1>7. ASSUME NEW i \in DOMAIN new, i \notin 1 .. m
      PROVE  /\ new[i].answer = n /\ (new[i].kind = "call" => new[i].call = <<n, i - m>>)
             /\ new[i].kind = "stop" <=> i = m + size + 1
  <2>1. CASE i \in m + 1 .. m + size
    <3>1. PICK j \in 1 .. size : i = m + j
      <4>1. i - m \in 1 .. size /\ i = m + (i - m)
        BY <2>1
      <4> QED BY <4>1
    <3>2. new[i] = OutputLine("call", n, <<n, j>>) /\ j = i - m
      BY <1>4, <3>1
    <3> QED BY <1>6, <2>1, <3>2
  <2>2. CASE i = m + size + 1
    <3>1. new[i] = OutputLine("stop", n, None)
      BY <1>4, <2>2
    <3> QED BY <1>6, <2>2, <3>1
  <2>3. CASE size = 0 /\ i = m + 2
    <3>1. new[i] = OutputLine("result", n, None)
      BY <1>4, <2>3
    <3> QED BY <1>6, <2>3, <3>1
  <2>4. i \in Nat /\ i > m /\ i <= m + size + (IF size = 0 THEN 2 ELSE 1)
    BY <1>5, <1>7
  <2> QED BY <2>1, <2>2, <2>3, <2>4
<1>8. m + size + 1 \in DOMAIN new /\ m + size + 1 \notin 1 .. m
  BY <1>5
<1>9. {i \in DOMAIN new : new[i].kind = "stop"} = {i \in DOMAIN old : old[i].kind = "stop"} \cup {m + size + 1}
  <2>1. ASSUME NEW i \in 1 .. m
        PROVE  i \in DOMAIN new /\ new[i] = old[i]
    BY <1>4, <1>5
  <2> QED BY <1>5, <1>7, <1>8, <2>1
<1>10. Stops(k) = {i \in DOMAIN old : old[i].kind = "stop"} /\ Stops(k)' = {i \in DOMAIN new : new[i].kind = "stop"}
  BY <1>1 DEF Stops
<1>11. \A i : Of(k, i) = old[i].answer /\ Of(k, i)' = new[i].answer
  BY <1>1 DEF Of
<1>12. size = 0 => new[m + 2].kind = "result"
  BY <1>4, <1>6
<1>13. m + size + 1 \notin Stops(k)
  BY <1>5, <1>8, <1>10
<1>14. Of(k, m + size + 1)' = n
  BY <1>7, <1>8, <1>11
<1>15. \A i \in 1 .. m : proc'[k].stdout[i] = proc[k].stdout[i] /\ Of(k, i)' = Of(k, i)
  BY <1>1, <1>4, <1>11
<1>16. \A i \in DOMAIN proc'[k].stdout : i \notin 1 .. m =>
         Of(k, i)' = n /\ (proc'[k].stdout[i].kind = "call" => proc'[k].stdout[i].call = <<n, i - m>>)
  BY <1>1, <1>7, <1>11
<1>17. Stops(k)' = Stops(k) \cup {m + size + 1}
  BY <1>9, <1>10
<1>18. Extended(k, size, n, m)
  BY <1>1, <1>3, <1>4, <1>5, <1>12, <1>13, <1>14, <1>15, <1>16, <1>17 DEF Extended
<1> QED BY <1>18

LEMMA GenerateTable ==
  ASSUME TableInv, NEW k \in Turns, Generate(k)
  PROVE  TableInv' /\ Passed
<1>1. PICK size \in Nat : \E n \in Nat : Generating(k, size, n) /\ Written(k, size, n)
  BY GenerateShape DEF TableInv
<1>2. PICK n \in Nat : Generating(k, size, n) /\ Written(k, size, n)
  BY <1>1
<1>3. PICK m \in Nat : Extended(k, size, n, m)
  BY <1>2, GeneratedStops DEF TableInv
<1>4. /\ n = Len(answer) + 1 /\ proc[k].pc = "busy"
      /\ answer' \in Seq(Reply) /\ Len(answer') = n /\ \A i \in 1 .. n - 1 : answer'[i] = answer[i]
      /\ answer'[n].calls = {<<n, i>> : i \in 1 .. size}
      /\ \A j \in Turns : j # k => proc'[j] = proc[j]
      /\ proc'[k].pc = (IF size = 0 THEN "idle" ELSE "tools")
      /\ proc'[k].stdin = proc[k].stdin /\ proc'[k].session = proc[k].session
      /\ UNCHANGED <<turn, run, reader, archive>>
  BY <1>2 DEF Generating
<1>5. Types'
  BY <1>4, GenerateTypes DEF TableInv, Types
<1>6. /\ answer \in Seq(Reply) /\ Len(answer) \in Nat
      /\ Replies = 1 .. n - 1 /\ Replies' = 1 .. n
      /\ Replies' = Replies \cup {n} /\ n \notin Replies
      /\ \A i \in Replies : answer'[i] = answer[i]
  <2>1. answer \in Seq(Reply) /\ Len(answer) \in Nat
    BY DEF TableInv, Types
  <2>2. Replies = 1 .. n - 1 /\ Replies' = 1 .. n
    BY <1>4, <2>1 DEF Replies
  <2> QED BY <1>4, <2>1, <2>2
<1>7. k \in Live
  BY <1>4 DEF TableInv, DeadGone, Live, NoProcess
<1>8. /\ DOMAIN proc[k].stdout = 1 .. m
      /\ DOMAIN proc'[k].stdout = 1 .. m + size + (IF size = 0 THEN 2 ELSE 1)
      /\ \A i \in 1 .. m : proc'[k].stdout[i] = proc[k].stdout[i] /\ Of(k, i)' = Of(k, i)
      /\ \A i \in DOMAIN proc'[k].stdout : i \notin 1 .. m =>
           Of(k, i)' = n /\ (proc'[k].stdout[i].kind = "call" => proc'[k].stdout[i].call = <<n, i - m>>)
      /\ Of(k, m + size + 1)' = n /\ m + size + 1 \notin Stops(k)
      /\ Stops(k)' = Stops(k) \cup {m + size + 1}
      /\ size = 0 => proc'[k].stdout[m + 2].kind = "result"
  BY <1>3 DEF Extended
<1>9. \A j \in Turns : j # k => Stops(j)' = Stops(j) /\ \A i : Of(j, i)' = Of(j, i)
  BY <1>4, Kept
<1>10. /\ \A t \in Turns : NoLast(t)' <=> NoLast(t)
       /\ \A j \in Turns : (Sends(j)' <=> Sends(j)) /\ (Saves(j)' <=> Saves(j))
  BY <1>4, Kept
<1>11. Live' = Live /\ Live \subseteq Turns /\ Stops(k) \subseteq 1 .. m
  BY <1>4, <1>8 DEF Live, Stops
<1>12. /\ \A j \in Turns : \A i \in DOMAIN proc[j].stdout : Of(j, i) \in Replies
       /\ \A j \in Turns : \A i \in Stops(j) : Of(j, i) \in Replies
  BY DEF TableInv, Known, Stops
<1>13. /\ \A a \in Replies : \A j \in Turns : Unread(a, j)' => Unread(a, j)
       /\ \A j \in Turns : Unread(n, j)' => j = k
  <2>1. ASSUME NEW a \in Replies, NEW j \in Turns, Unread(a, j)'
        PROVE  Unread(a, j)
    <3>1. CASE j = k
      <4>1. PICK i \in Stops(k)' : Of(k, i)' = a
        BY <2>1, <3>1 DEF Unread
      <4>2. i \in Stops(k) /\ Of(k, i) = a
        BY <1>6, <1>8, <1>11, <4>1
      <4> QED BY <3>1, <4>2 DEF Unread
    <3>2. CASE j # k BY <1>9, <2>1, <3>2 DEF Unread
    <3> QED BY <3>1, <3>2
  <2>2. ASSUME NEW j \in Turns, Unread(n, j)', j # k
        PROVE  FALSE
    <3>1. Unread(n, j)
      BY <1>9, <2>2 DEF Unread
    <3>2. n \in Replies
      BY <1>12, <3>1 DEF Unread
    <3> QED BY <1>6, <3>2
  <2> QED BY <2>1, <2>2
<1>14. /\ \A a, t : At(a, t)' <=> At(a, t)
       /\ \A t \in Turns : \A a \in Nat : At(a, t) => a \in Replies
  <2>1. \A a, t : At(a, t)' <=> At(a, t)
    BY <1>4 DEF At, Sends
  <2>2. ASSUME NEW t \in Turns, NEW a \in Nat, At(a, t)
        PROVE  a \in Replies
    <3>1. /\ \A j \in Turns : Sends(j) => reader[j].event.answer \in Replies
          /\ \A i \in DOMAIN turn[t].channel : turn[t].channel[i].answer \in Replies
          /\ turn[t].got # None => turn[t].got \in Replies
      BY DEF TableInv, Known
    <3>2. CASE turn[t].pc = "done" /\ turn[t].got = a BY <3>1, <3>2, Kinds
    <3> QED BY <2>2, <3>1, <3>2 DEF At
  <2> QED BY <2>1, <2>2
<1>15. Known'
  <2>1. ASSUME NEW j \in Turns, NEW i \in DOMAIN proc'[j].stdout
        PROVE  Of(j, i)' \in Replies' /\ (proc'[j].stdout[i].kind = "call" => proc'[j].stdout[i].call # None)
    <3>1. CASE j = k /\ i \in 1 .. m
      <4>1. Of(k, i) \in Replies /\ (proc[k].stdout[i].kind = "call" => proc[k].stdout[i].call # None)
        BY <1>8, <3>1 DEF TableInv, Known
      <4> QED BY <1>6, <1>8, <3>1, <4>1
    <3>2. CASE j = k /\ i \notin 1 .. m
      <4>1. Of(k, i)' = n
        BY <1>8, <2>1, <3>2
      <4>2. ASSUME proc'[k].stdout[i].kind = "call"
            PROVE  proc'[k].stdout[i].call # None
        <5>1. proc'[k].stdout[i].call = <<n, i - m>> /\ i - m \in Nat
          BY <1>8, <2>1, <3>2, <4>2
        <5>2. <<n, i - m>> \in CallId
          BY <5>1 DEF CallId
        <5> QED BY <5>1, <5>2, Kinds
      <4> QED BY <1>6, <3>2, <4>1, <4>2
    <3>3. CASE j # k
      <4>1. Of(j, i) \in Replies /\ (proc[j].stdout[i].kind = "call" => proc[j].stdout[i].call # None)
        BY <1>4, <2>1, <3>3 DEF TableInv, Known
      <4> QED BY <1>4, <1>6, <1>9, <3>3, <4>1
    <3> QED BY <3>1, <3>2, <3>3
  <2>2. \A j \in Turns : Sends(j)' => reader'[j].event.answer \in Replies'
    BY <1>4, <1>6, <1>10 DEF TableInv, Known
  <2>3. \A t \in Turns : \A i \in DOMAIN turn'[t].channel : turn'[t].channel[i].answer \in Replies'
    BY <1>4, <1>6 DEF TableInv, Known
  <2>4. \A t \in Turns : turn'[t].got # None => turn'[t].got \in Replies'
    BY <1>4, <1>6 DEF TableInv, Known
  <2>5. ASSUME NEW a \in Replies', NEW c \in answer'[a].calls
        PROVE  c[1] = a
    <3>1. CASE a = n BY <1>4, <2>5, <3>1
    <3>2. CASE a \in Replies BY <1>6, <2>5, <3>2 DEF TableInv, Known
    <3> QED BY <1>6, <3>1, <3>2
  <2> QED BY <2>1, <2>2, <2>3, <2>4, <2>5 DEF Known
<1>16. Once'
  <2>1. ASSUME NEW j \in Turns, NEW h \in Stops(j)', NEW i \in Stops(j)', Of(j, h)' = Of(j, i)'
        PROVE  h = i
    <3>1. CASE j # k BY <1>9, <2>1, <3>1 DEF TableInv, Once
    <3>2. CASE j = k /\ h \in Stops(k) /\ i \in Stops(k)
      <4>1. Of(k, h) = Of(k, i)
        BY <1>8, <1>11, <2>1, <3>2
      <4> QED BY <3>2, <4>1 DEF TableInv, Once
    <3>3. CASE j = k /\ (h \notin Stops(k) \/ i \notin Stops(k))
      <4>1. \A g \in Stops(k) : Of(k, g)' \in Replies
        BY <1>8, <1>11, <1>12
      <4> QED BY <1>6, <1>8, <2>1, <3>3, <4>1
    <3> QED BY <3>1, <3>2, <3>3
  <2>2. \A a \in Replies' : \A i, j \in Turns : Unread(a, i)' /\ Unread(a, j)' => i = j
    BY <1>6, <1>13 DEF TableInv, Once
  <2>3. \A a \in Replies' : \A j, t \in Turns : Unread(a, j)' => ~At(a, t)'
    BY <1>6, <1>13, <1>14 DEF TableInv, Once
  <2>4. \A a \in Replies' : \A t, u \in Turns : At(a, t)' /\ At(a, u)' => t = u
    BY <1>6, <1>14 DEF TableInv, Once
  <2> QED BY <2>1, <2>2, <2>3, <2>4 DEF Once
<1>17. DeadGone'
  BY <1>4, <1>7 DEF TableInv, DeadGone, Live
<1>18. AskedFull' /\ Begun'
  BY <1>4 DEF TableInv, AskedFull, Begun
<1>19. Sessions'
  BY <1>4, <1>10, <1>11 DEF TableInv, Sessions
<1>20. SenderSound' /\ ReaderSound'
  BY <1>4, <1>10, <1>11 DEF TableInv, SenderSound, ReaderSound
<1>21. proc[k].stdin = <<>>
  BY <1>4 DEF TableInv, InputSound
<1>22. InputSound'
  BY <1>4, <1>21 DEF TableInv, InputSound
<1>23. /\ run[k].sender = None => run[k].parked
       /\ \A i \in Stops(k) : answer[Of(k, i)].calls # {}
  BY <1>4, <1>7 DEF TableInv, RestSound, FinalSound
<1>24. RestSound'
  BY <1>4, <1>11, <1>23 DEF TableInv, RestSound
<1>25. FinalSound'
  <2> SUFFICES ASSUME NEW j \in Live, NEW i \in Stops(j)', (answer[Of(j, i)].calls = {})'
               PROVE  /\ \A h \in DOMAIN proc'[j].stdout : h > i => proc'[j].stdout[h].kind = "result"
                      /\ proc'[j].pc \in {"idle", "dead"} /\ proc'[j].stdin = <<>>
    BY <1>11 DEF FinalSound
  <2>1. CASE j # k
    <3>1. i \in Stops(j) /\ answer[Of(j, i)].calls = {}
      BY <1>6, <1>9, <1>11, <1>12, <2>1
    <3>2. /\ \A h \in DOMAIN proc[j].stdout : h > i => proc[j].stdout[h].kind = "result"
          /\ proc[j].pc \in {"idle", "dead"} /\ proc[j].stdin = <<>>
      BY <3>1 DEF TableInv, FinalSound
    <3> QED BY <1>4, <1>11, <2>1, <3>2
  <2>2. CASE j = k /\ i \in Stops(k)
    <3>1. Of(k, i)' = Of(k, i) /\ Of(k, i) \in Replies
      BY <1>8, <1>11, <1>12, <2>2
    <3>2. answer[Of(k, i)].calls = {}
      BY <1>6, <2>2, <3>1
    <3> QED BY <1>23, <2>2, <3>2
  <2>3. CASE j = k /\ i = m + size + 1
    <3>1. {<<n, h>> : h \in 1 .. size} = {}
      BY <1>4, <1>8, <2>3
    <3>2. size = 0
      <4>1. ASSUME NEW h \in 1 .. size
            PROVE  <<n, h>> \in {<<n, g>> : g \in 1 .. size}
        OBVIOUS
      <4>2. size # 0 => 1 \in 1 .. size
        OBVIOUS
      <4> QED BY <3>1, <4>1, <4>2
    <3>3. \A h \in DOMAIN proc'[k].stdout : h > i => h = m + 2
      BY <1>8, <2>3, <3>2
    <3>4. proc'[k].pc = "idle" /\ proc'[k].stdin = <<>>
      BY <1>4, <1>21, <3>2
    <3> QED BY <1>8, <2>3, <3>2, <3>3, <3>4
  <2> QED BY <1>8, <2>1, <2>2, <2>3
<1>26. IdleSound'
  <2> SUFFICES ASSUME NEW j \in Live, proc'[j].pc = "idle"
               PROVE  /\ (proc'[j].stdin = <<>> /\ (run'[j].sender # None \/ run'[j].parked)) => Stops(j)' # {}
                      /\ \A i \in Stops(j)' : (answer[Of(j, i)].calls # {})' => \E h \in Stops(j)' : h > i
    BY <1>11 DEF IdleSound
  <2>1. CASE j # k
    <3>1. /\ (proc[j].stdin = <<>> /\ (run[j].sender # None \/ run[j].parked)) => Stops(j) # {}
          /\ \A i \in Stops(j) : answer[Of(j, i)].calls # {} => \E h \in Stops(j) : h > i
      BY <1>4, <1>11, <2>1 DEF TableInv, IdleSound
    <3>2. \A i \in Stops(j) : (answer[Of(j, i)].calls # {})' => answer[Of(j, i)].calls # {}
      BY <1>6, <1>9, <1>11, <1>12, <2>1
    <3> QED BY <1>4, <1>9, <1>11, <2>1, <3>1, <3>2
  <2>2. CASE j = k
    <3>1. size = 0
      BY <1>4, <2>2
    <3>2. answer'[n].calls = {}
      BY <1>4, <3>1
    <3>3. \A i \in Stops(k) : m + size + 1 > i
      BY <1>11
    <3>4. ASSUME NEW i \in Stops(k)', (answer[Of(k, i)].calls # {})'
          PROVE  \E h \in Stops(k)' : h > i
      <4>1. i # m + size + 1
        BY <1>8, <3>2, <3>4
      <4> QED BY <1>8, <3>3, <3>4, <4>1
    <3> QED BY <1>8, <2>2, <3>4
  <2> QED BY <2>1, <2>2
<1>27. Passed
  <2>1. \A a \in Replies : \A t \in Turns : At(a, t)' => At(a, t)
    BY <1>14
  <2> QED BY <1>6, <1>13, <2>1 DEF Passed
<1> QED
  BY <1>27, <1>5, <1>15, <1>16, <1>17, <1>18, <1>19, <1>20, <1>22, <1>24, <1>25, <1>26 DEF TableInv

\* The reader takes a line.
\* The lines of an output whose first was read.
Shifts(k) ==
  /\ \A i : i \in DOMAIN proc'[k].stdout <=> i \in Nat \ {0} /\ i + 1 \in DOMAIN proc[k].stdout
  /\ \A i \in DOMAIN proc'[k].stdout :
       proc'[k].stdout[i] = proc[k].stdout[i + 1] /\ Of(k, i)' = Of(k, i + 1)
  /\ Line(k) = proc[k].stdout[1] /\ Line(k).answer = Of(k, 1) /\ 1 \in DOMAIN proc[k].stdout
  /\ \A i : i \in Stops(k)' <=> i \in Nat \ {0} /\ i + 1 \in Stops(k)
  /\ \A i \in Stops(k)' : Of(k, i)' = Of(k, i + 1)
  /\ 1 \in Stops(k) <=> Line(k).kind = "stop"
  /\ Stops(k) \subseteq Nat \ {0} /\ Stops(k) \subseteq DOMAIN proc[k].stdout

LEMMA Shifted ==
  ASSUME Types, NEW k \in Turns, proc[k].stdout # <<>>, proc'[k].stdout = Tail(proc[k].stdout)
  PROVE  Shifts(k)
<1>1. PICK old, new : old = proc[k].stdout /\ new = proc'[k].stdout
  OBVIOUS
<1>2. old \in Seq(Output) /\ old # <<>> /\ new = Tail(old)
  BY <1>1, LiveTypes
<1>3. /\ Len(old) \in Nat \ {0} /\ Len(new) = Len(old) - 1 /\ new \in Seq(Output)
      /\ \A i \in 1 .. Len(new) : new[i] = old[i + 1]
      /\ DOMAIN old = 1 .. Len(old) /\ DOMAIN new = 1 .. Len(new) /\ Head(old) = old[1]
  BY <1>2
<1>4. \A i : i \in DOMAIN new <=> i \in Nat \ {0} /\ i + 1 \in DOMAIN old
  BY <1>3
<1>5. \A i : Of(k, i) = old[i].answer /\ Of(k, i)' = new[i].answer
  BY <1>1 DEF Of
<1>6. Stops(k) = {i \in DOMAIN old : old[i].kind = "stop"} /\ Stops(k)' = {i \in DOMAIN new : new[i].kind = "stop"}
  BY <1>1 DEF Stops
<1>7. \A i \in DOMAIN new : new[i] = old[i + 1] /\ Of(k, i)' = Of(k, i + 1)
  BY <1>3, <1>5
<1>8. Line(k) = old[1] /\ Line(k).answer = Of(k, 1) /\ 1 \in DOMAIN old
  BY <1>1, <1>3, <1>5 DEF Line
<1>9. \A i : i \in Stops(k)' <=> i \in Nat \ {0} /\ i + 1 \in Stops(k)
  BY <1>4, <1>6, <1>7
<1>10. \A i \in Stops(k)' : Of(k, i)' = Of(k, i + 1)
  BY <1>6, <1>7
<1>11. 1 \in Stops(k) <=> Line(k).kind = "stop"
  BY <1>6, <1>8
<1>12. Stops(k) \subseteq Nat \ {0} /\ Stops(k) \subseteq DOMAIN old
  BY <1>3, <1>6
<1> QED BY <1>1, <1>4, <1>7, <1>8, <1>9, <1>10, <1>11, <1>12 DEF Shifts

LEMMA ReadTable ==
  ASSUME TableInv, NEW k \in Live, Types', UNCHANGED <<turn, answer, archive>>,
         reader[k] = None, proc[k].stdout # <<>>, proc'[k].stdout = Tail(proc[k].stdout),
         \A j \in Turns \ {k} : proc'[j] = proc[j] /\ run'[j] = run[j] /\ reader'[j] = reader[j],
         proc'[k].pc = proc[k].pc, proc'[k].stdin = proc[k].stdin, proc'[k].session = proc[k].session,
         run'[k] # None,
         Saves(k)' => reader'[k].session # None,
         Sends(k)' => /\ reader'[k].to = run[k].sender /\ reader'[k].event.answer = Line(k).answer
                      /\ reader'[k].event.last <=> Line(k).kind = "stop",
         IF Line(k).kind = "stop"
         THEN run'[k].sender = None /\ (run'[k].parked <=> answer[Line(k).answer].calls # {})
         ELSE run'[k].sender = run[k].sender /\ (run'[k].parked <=> run[k].parked)
  PROVE  /\ TableInv' /\ Passed
         /\ \A n : Line(k).kind = "stop" /\ n = Line(k).answer =>
              /\ n \in Replies /\ \A t \in Turns : At(n, t)' => t = run[k].sender
              /\ \A j \in Turns : ~Unread(n, j)'
<1>1. /\ k \in Turns /\ Live' = Live /\ Live \subseteq Turns
      /\ \A j \in Turns : run[j] # None <=> j \in Live
  BY DEF Live
<1>2. Shifts(k)
  BY <1>1, Shifted DEF TableInv
<1>3. /\ Replies' = Replies /\ \A t \in Turns : NoLast(t)' <=> NoLast(t)
      /\ \A j \in Turns : j # k => /\ (Sends(j)' <=> Sends(j)) /\ (Saves(j)' <=> Saves(j))
                                   /\ Stops(j)' = Stops(j) /\ \A i : Of(j, i)' = Of(j, i)
  BY Kept DEF Replies
<1>4. ~Sends(k) /\ ~Saves(k)
  BY DEF Sends, Saves
<1>5. \A a : \A j \in Turns : Unread(a, j)' => Unread(a, j)
  <2> SUFFICES ASSUME NEW a, NEW j \in Turns, Unread(a, j)'
               PROVE  Unread(a, j)
    OBVIOUS
  <2>1. PICK i \in Stops(j)' : Of(j, i)' = a
    BY DEF Unread
  <2>2. CASE j = k
    <3>1. i + 1 \in Stops(k) /\ Of(k, i + 1) = a
      BY <1>2, <2>1, <2>2 DEF Shifts
    <3> QED BY <2>2, <3>1 DEF Unread
  <2>3. CASE j # k BY <1>3, <2>1, <2>3 DEF Unread
  <2> QED BY <2>2, <2>3
<1>6. \A a : Line(k).kind = "stop" /\ a = Line(k).answer => Unread(a, k) /\ ~Unread(a, k)'
  <2> SUFFICES ASSUME NEW a, Line(k).kind = "stop", a = Line(k).answer
               PROVE  Unread(a, k) /\ ~Unread(a, k)'
    OBVIOUS
  <2>1. 1 \in Stops(k) /\ Of(k, 1) = a
    BY <1>2 DEF Shifts
  <2>2. ASSUME NEW i \in Stops(k)', Of(k, i)' = a
        PROVE  FALSE
    <3>1. i + 1 \in Stops(k) /\ Of(k, i + 1) = Of(k, 1) /\ i \in Nat \ {0}
      BY <1>2, <2>1, <2>2 DEF Shifts
    <3>2. i + 1 = 1
      BY <1>1, <2>1, <3>1 DEF TableInv, Once
    <3> QED BY <3>1, <3>2
  <2> QED BY <2>1, <2>2 DEF Unread
<1>7. \A a : \A t \in Turns : At(a, t)' =>
        At(a, t) \/ (Line(k).kind = "stop" /\ a = Line(k).answer /\ t = run[k].sender)
  <2> SUFFICES ASSUME NEW a, NEW t \in Turns, At(a, t)',
                      ~(Line(k).kind = "stop" /\ a = Line(k).answer /\ t = run[k].sender)
               PROVE  At(a, t)
    OBVIOUS
  <2>1. CASE \E j \in Turns : Sends(j)' /\ reader'[j].to = t /\ reader'[j].event.last /\ reader'[j].event.answer = a
    <3>1. PICK j \in Turns : Sends(j)' /\ reader'[j].to = t /\ reader'[j].event.last /\ reader'[j].event.answer = a
      BY <2>1
    <3>2. j # k
      BY <3>1
    <3> QED BY <1>3, <3>1, <3>2 DEF At
  <2>2. CASE ~\E j \in Turns : Sends(j)' /\ reader'[j].to = t /\ reader'[j].event.last /\ reader'[j].event.answer = a
    BY <2>2 DEF At
  <2> QED BY <2>1, <2>2
<1>8. Known'
  <2>1. ASSUME NEW j \in Turns, NEW i \in DOMAIN proc'[j].stdout
        PROVE  Of(j, i)' \in Replies' /\ (proc'[j].stdout[i].kind = "call" => proc'[j].stdout[i].call # None)
    <3>1. CASE j = k
      <4>1. i + 1 \in DOMAIN proc[k].stdout /\ proc'[k].stdout[i] = proc[k].stdout[i + 1] /\ Of(k, i)' = Of(k, i + 1)
        BY <1>2, <2>1, <3>1 DEF Shifts
      <4>2. Of(k, i + 1) \in Replies /\ (proc[k].stdout[i + 1].kind = "call" => proc[k].stdout[i + 1].call # None)
        BY <1>1, <4>1 DEF TableInv, Known
      <4> QED BY <1>3, <3>1, <4>1, <4>2
    <3>2. CASE j # k BY <1>3, <2>1, <3>2 DEF TableInv, Known
    <3> QED BY <3>1, <3>2
  <2>2. ASSUME NEW j \in Turns, Sends(j)'
        PROVE  reader'[j].event.answer \in Replies'
    <3>1. CASE j = k BY <1>1, <1>2, <1>3, <2>2, <3>1 DEF TableInv, Known, Shifts
    <3>2. CASE j # k BY <1>3, <2>2, <3>2 DEF TableInv, Known
    <3> QED BY <3>1, <3>2
  <2>3. \A t \in Turns : \A i \in DOMAIN turn'[t].channel : turn'[t].channel[i].answer \in Replies'
    BY <1>3 DEF TableInv, Known
  <2>4. \A t \in Turns : turn'[t].got # None => turn'[t].got \in Replies'
    BY <1>3 DEF TableInv, Known
  <2>5. \A a \in Replies' : \A c \in answer'[a].calls : c[1] = a
    BY <1>3 DEF TableInv, Known
  <2> QED BY <2>1, <2>2, <2>3, <2>4, <2>5 DEF Known
<1>9. Line(k).answer \in Replies
  BY <1>1, <1>2 DEF TableInv, Known, Shifts
<1>10. Once'
  <2>1. ASSUME NEW j \in Turns, NEW h \in Stops(j)', NEW i \in Stops(j)', Of(j, h)' = Of(j, i)'
        PROVE  h = i
    <3>1. CASE j # k BY <1>3, <2>1, <3>1 DEF TableInv, Once
    <3>2. CASE j = k
      <4>1. /\ h + 1 \in Stops(k) /\ i + 1 \in Stops(k) /\ h \in Nat /\ i \in Nat
            /\ Of(k, h + 1) = Of(k, i + 1)
        BY <1>2, <2>1, <3>2 DEF Shifts
      <4>2. h + 1 = i + 1
        BY <1>1, <4>1 DEF TableInv, Once
      <4> QED BY <4>1, <4>2
    <3> QED BY <3>1, <3>2
  <2>2. \A a \in Replies : \A i, j \in Turns : Unread(a, i)' /\ Unread(a, j)' => i = j
    BY <1>5 DEF TableInv, Once
  <2>3. ASSUME NEW a \in Replies, NEW j \in Turns, NEW t \in Turns, Unread(a, j)', At(a, t)'
        PROVE  FALSE
    <3>1. Unread(a, j)
      BY <1>5, <2>3
    <3>2. ~At(a, t)
      BY <3>1 DEF TableInv, Once
    <3>3. Line(k).kind = "stop" /\ a = Line(k).answer
      BY <1>7, <2>3, <3>2
    <3>4. j = k
      <4>1. \A n \in Replies : \A i, h \in Turns : Unread(n, i) /\ Unread(n, h) => i = h
        BY DEF TableInv, Once
      <4>2. Unread(a, k)
        BY <1>6, <3>3
      <4> QED BY <1>1, <3>1, <4>1, <4>2
    <3> QED BY <1>6, <2>3, <3>3, <3>4
  <2>4. ASSUME NEW a \in Replies, NEW t \in Turns, NEW u \in Turns, At(a, t)', At(a, u)'
        PROVE  t = u
    <3>1. CASE At(a, t) /\ At(a, u) BY <3>1 DEF TableInv, Once
    <3>2. CASE ~At(a, t) \/ ~At(a, u)
      <4>1. Line(k).kind = "stop" /\ a = Line(k).answer
        BY <1>7, <2>4, <3>2
      <4>2. ~At(a, t) /\ ~At(a, u)
        BY <1>1, <1>6, <4>1 DEF TableInv, Once
      <4> QED BY <1>7, <2>4, <4>2
    <3> QED BY <3>1, <3>2
  <2> QED BY <1>3, <2>1, <2>2, <2>3, <2>4 DEF Once
<1>11. DeadGone'
  BY <1>1 DEF TableInv, DeadGone
<1>12. AskedFull' /\ InputSound'
  BY DEF TableInv, AskedFull, InputSound
<1>13. Begun'
  <2> SUFFICES ASSUME NEW u \in Turns, turn[u].pc \in {"new", "asked"}
               PROVE  /\ run'[u] = None /\ reader'[u] = None /\ \A v \in Turns : turn[v].key # u
                      /\ turn[u].key = None /\ turn[u].channel = <<>> /\ turn[u].got = None
    BY DEF Begun
  <2>1. /\ run[u] = None /\ reader[u] = None /\ \A v \in Turns : turn[v].key # u
        /\ turn[u].key = None /\ turn[u].channel = <<>> /\ turn[u].got = None
    BY DEF TableInv, Begun
  <2>2. u # k
    BY <1>1, <2>1
  <2> QED BY <2>1, <2>2
<1>14. Sessions'
  <2>1. \A j \in Live' : proc'[j].session # None
    BY <1>1 DEF TableInv, Sessions
  <2>2. \A j \in Turns : Saves(j)' => reader'[j].session # None
    BY <1>3 DEF TableInv, Sessions
  <2> QED BY <2>1, <2>2 DEF Sessions
<1>15. SenderSound'
  <2> SUFFICES ASSUME NEW j \in Live, NEW u \in Turns, run'[j].sender = u
               PROVE  /\ turn[u].pc = "open" /\ turn[u].key = j /\ NoLast(u)'
                      /\ (Sends(j)' /\ reader'[j].to = u) => ~reader'[j].event.last
    BY <1>1 DEF SenderSound
  <2>1. CASE j = k
    <3>1. Line(k).kind # "stop" /\ run[k].sender = u
      BY <2>1, Kinds
    <3>2. turn[u].pc = "open" /\ turn[u].key = k /\ NoLast(u)
      BY <3>1 DEF TableInv, SenderSound
    <3> QED BY <1>3, <2>1, <3>1, <3>2
  <2>2. CASE j # k
    <3>1. run[j].sender = u
      BY <1>1, <2>2
    <3>2. /\ turn[u].pc = "open" /\ turn[u].key = j /\ NoLast(u)
          /\ Sends(j) /\ reader[j].to = u => ~reader[j].event.last
      BY <3>1 DEF TableInv, SenderSound
    <3> QED BY <1>1, <1>3, <2>2, <3>2
  <2> QED BY <2>1, <2>2
<1>16. ReaderSound'
  <2> SUFFICES ASSUME NEW j \in Turns, NEW u \in Turns, Sends(j)', reader'[j].to = u
               PROVE  \/ turn[u].pc = "open" /\ turn[u].key = j /\ NoLast(u)'
                      \/ turn[u].pc = "failed" /\ j \notin Live
    BY <1>1 DEF ReaderSound
  <2>1. CASE j = k
    <3>1. run[k].sender = u
      BY <2>1
    <3>2. turn[u].pc = "open" /\ turn[u].key = k /\ NoLast(u)
      BY <3>1 DEF TableInv, SenderSound
    <3> QED BY <1>3, <2>1, <3>2
  <2>2. CASE j # k
    <3>1. Sends(j) /\ reader[j].to = u
      BY <1>3, <2>2
    <3> QED BY <1>3, <3>1 DEF TableInv, ReaderSound
  <2> QED BY <2>1, <2>2
<1>17. ASSUME NEW j \in Live, j # k
       PROVE  /\ proc'[j] = proc[j] /\ run'[j] = run[j] /\ Stops(j)' = Stops(j)
              /\ \A i : Of(j, i)' = Of(j, i)
  BY <1>1, <1>3, <1>17
<1>18. Line(k).kind = "stop" /\ answer[Line(k).answer].calls = {} =>
         /\ \A i \in DOMAIN proc'[k].stdout : proc'[k].stdout[i].kind = "result"
         /\ proc[k].pc \in {"idle", "dead"} /\ proc[k].stdin = <<>>
  <2> SUFFICES ASSUME Line(k).kind = "stop", answer[Line(k).answer].calls = {}
               PROVE  /\ \A i \in DOMAIN proc'[k].stdout : proc'[k].stdout[i].kind = "result"
                      /\ proc[k].pc \in {"idle", "dead"} /\ proc[k].stdin = <<>>
    OBVIOUS
  <2>1. 1 \in Stops(k) /\ answer[Of(k, 1)].calls = {}
    BY <1>2 DEF Shifts
  <2>2. /\ \A h \in DOMAIN proc[k].stdout : h > 1 => proc[k].stdout[h].kind = "result"
        /\ proc[k].pc \in {"idle", "dead"} /\ proc[k].stdin = <<>>
    BY <2>1 DEF TableInv, FinalSound
  <2>3. ASSUME NEW i \in DOMAIN proc'[k].stdout
        PROVE  proc'[k].stdout[i].kind = "result"
    <3>1. i + 1 \in DOMAIN proc[k].stdout /\ i + 1 > 1 /\ proc'[k].stdout[i] = proc[k].stdout[i + 1]
      BY <1>2, <2>3 DEF Shifts
    <3> QED BY <2>2, <3>1
  <2> QED BY <2>2, <2>3
<1>19. RestSound'
  <2> SUFFICES ASSUME NEW j \in Live, run'[j].sender = None, ~run'[j].parked
               PROVE  /\ \A i \in DOMAIN proc'[j].stdout : proc'[j].stdout[i].kind = "result"
                      /\ proc'[j].pc \in {"idle", "dead"} /\ proc'[j].stdin = <<>>
    BY <1>1 DEF RestSound
  <2>1. CASE j # k BY <1>17, <2>1 DEF TableInv, RestSound
  <2>2. CASE j = k /\ Line(k).kind = "stop" BY <1>18, <2>2
  <2>3. CASE j = k /\ Line(k).kind # "stop"
    <3>1. /\ \A i \in DOMAIN proc[k].stdout : proc[k].stdout[i].kind = "result"
          /\ proc[k].pc \in {"idle", "dead"} /\ proc[k].stdin = <<>>
      BY <2>3 DEF TableInv, RestSound
    <3>2. ASSUME NEW i \in DOMAIN proc'[k].stdout
          PROVE  proc'[k].stdout[i].kind = "result"
      BY <1>2, <3>1, <3>2 DEF Shifts
    <3> QED BY <2>3, <3>1, <3>2
  <2> QED BY <2>1, <2>2, <2>3
<1>20. FinalSound'
  <2> SUFFICES ASSUME NEW j \in Live, NEW i \in Stops(j)', (answer[Of(j, i)].calls = {})'
               PROVE  /\ \A h \in DOMAIN proc'[j].stdout : h > i => proc'[j].stdout[h].kind = "result"
                      /\ proc'[j].pc \in {"idle", "dead"} /\ proc'[j].stdin = <<>>
    BY <1>1 DEF FinalSound
  <2>1. CASE j # k BY <1>17, <2>1 DEF TableInv, FinalSound
  <2>2. CASE j = k
    <3>1. i \in Nat /\ i + 1 \in Stops(k) /\ answer[Of(k, i + 1)].calls = {}
      BY <1>2, <2>2 DEF Shifts
    <3>2. /\ \A h \in DOMAIN proc[k].stdout : h > i + 1 => proc[k].stdout[h].kind = "result"
          /\ proc[k].pc \in {"idle", "dead"} /\ proc[k].stdin = <<>>
      BY <3>1 DEF TableInv, FinalSound
    <3>3. ASSUME NEW h \in DOMAIN proc'[k].stdout, h > i
          PROVE  proc'[k].stdout[h].kind = "result"
      <4>1. h \in Nat /\ h + 1 \in DOMAIN proc[k].stdout /\ proc'[k].stdout[h] = proc[k].stdout[h + 1]
        BY <1>2, <3>3 DEF Shifts
      <4>2. h + 1 > i + 1
        BY <3>1, <3>3, <4>1
      <4> QED BY <3>2, <4>1, <4>2
    <3> QED BY <2>2, <3>2, <3>3
  <2> QED BY <2>1, <2>2
<1>21. IdleSound'
  <2> SUFFICES ASSUME NEW j \in Live, proc'[j].pc = "idle"
               PROVE  /\ (proc'[j].stdin = <<>> /\ (run'[j].sender # None \/ run'[j].parked)) => Stops(j)' # {}
                      /\ \A i \in Stops(j)' : (answer[Of(j, i)].calls # {})' => \E h \in Stops(j)' : h > i
    BY <1>1 DEF IdleSound
  <2>1. CASE j # k
    <3>1. /\ (proc[j].stdin = <<>> /\ (run[j].sender # None \/ run[j].parked)) => Stops(j) # {}
          /\ \A i \in Stops(j) : answer[Of(j, i)].calls # {} => \E h \in Stops(j) : h > i
      BY <1>17, <2>1 DEF TableInv, IdleSound
    <3> QED BY <1>17, <2>1, <3>1
  <2>2. CASE j = k
    <3>1. /\ (proc[k].stdin = <<>> /\ (run[k].sender # None \/ run[k].parked)) => Stops(k) # {}
          /\ \A i \in Stops(k) : answer[Of(k, i)].calls # {} => \E h \in Stops(k) : h > i
      BY <2>2 DEF TableInv, IdleSound
    <3>2. ASSUME NEW i \in Stops(k), i # 1
          PROVE  Stops(k)' # {} /\ i - 1 \in Stops(k)'
      <4>1. i - 1 \in Nat \ {0} /\ (i - 1) + 1 = i
        BY <1>2, <3>2 DEF Shifts
      <4> QED BY <1>2, <4>1 DEF Shifts
    <3>3. ASSUME proc'[k].stdin = <<>>, run'[k].sender # None \/ run'[k].parked
          PROVE  Stops(k)' # {}
      <4>1. CASE Line(k).kind # "stop"
        <5>1. PICK i \in Stops(k) : TRUE
          BY <3>1, <3>3, <4>1
        <5>2. i # 1
          BY <1>2, <4>1, <5>1 DEF Shifts
        <5> QED BY <3>2, <5>2
      <4>2. CASE Line(k).kind = "stop"
        <5>1. answer[Of(k, 1)].calls # {} /\ 1 \in Stops(k)
          BY <1>2, <3>3, <4>2 DEF Shifts
        <5>2. PICK i \in Stops(k) : i > 1
          BY <3>1, <5>1
        <5> QED BY <3>2, <5>2
      <4> QED BY <4>1, <4>2
    <3>4. ASSUME NEW i \in Stops(k)', (answer[Of(k, i)].calls # {})'
          PROVE  \E h \in Stops(k)' : h > i
      <4>1. i \in Nat \ {0} /\ i + 1 \in Stops(k) /\ answer[Of(k, i + 1)].calls # {}
        BY <1>2, <3>4 DEF Shifts
      <4>2. PICK h \in Stops(k) : h > i + 1
        BY <3>1, <4>1
      <4>3. h \in Nat /\ h # 1
        BY <1>2, <4>1, <4>2 DEF Shifts
      <4>4. h - 1 \in Stops(k)' /\ h - 1 > i
        BY <3>2, <4>1, <4>2, <4>3
      <4> QED BY <4>4
    <3> QED BY <2>2, <3>3, <3>4
  <2> QED BY <2>1, <2>2
<1>22. ASSUME NEW n, Line(k).kind = "stop", n = Line(k).answer
       PROVE  /\ n \in Replies /\ \A t \in Turns : At(n, t)' => t = run[k].sender
              /\ \A j \in Turns : ~Unread(n, j)'
  <2>1. n \in Replies /\ Unread(n, k) /\ ~Unread(n, k)'
    BY <1>6, <1>9, <1>22
  <2>2. /\ \A j \in Turns : Unread(n, j) => j = k
        /\ \A t \in Turns : ~At(n, t)
    BY <1>1, <2>1 DEF TableInv, Once
  <2> QED BY <1>5, <1>7, <2>1, <2>2
<1>23. Passed
  <2>1. \A n \in Replies : \A t \in Turns : At(n, t)' => At(n, t) \/ Unread(n, k)
    BY <1>6, <1>7
  <2> QED BY <1>1, <1>3, <1>5, <2>1 DEF Passed
<1> QED
  BY <1>22, <1>23, <1>8, <1>10, <1>11, <1>12, <1>13, <1>14, <1>15, <1>16, <1>19, <1>20, <1>21 DEF TableInv

\* The reader has taken the first line of the output, an event or a result.
EventRead(k) ==
  /\ k \in Live /\ reader[k] = None /\ proc[k].stdout # <<>> /\ Line(k).kind # "result"
  /\ proc'[k].stdout = Tail(proc[k].stdout)
  /\ \A j \in Turns \ {k} : proc'[j] = proc[j] /\ run'[j] = run[j] /\ reader'[j] = reader[j]
  /\ proc'[k].pc = proc[k].pc /\ proc'[k].stdin = proc[k].stdin /\ proc'[k].session = proc[k].session
  /\ proc'[k].talk = proc[k].talk /\ proc'[k].todo = proc[k].todo /\ proc'[k].held = proc[k].held
  /\ proc'[k].token = proc[k].token
  /\ reader'[k] = (IF run[k].sender = None THEN None
                   ELSE [does |-> "send", to |-> run[k].sender,
                         event |-> [answer |-> Line(k).answer, last |-> Line(k).kind = "stop"]])
  /\ IF Line(k).kind = "stop"
     THEN /\ run'[k].terminal /\ run'[k].sender = None
          /\ run'[k].parked <=> answer[Line(k).answer].calls # {}
          /\ run'[k].history = Append(run[k].history, <<"a", Line(k).answer>>)
          /\ run'[k].calls = run[k].calls
     ELSE /\ run'[k].terminal = run[k].terminal /\ run'[k].sender = run[k].sender
          /\ run'[k].parked = run[k].parked /\ run'[k].history = run[k].history
          /\ run'[k].calls = Append(run[k].calls, [id |-> Line(k).call, claimed |-> FALSE, result |-> None])
  /\ UNCHANGED <<turn, answer, file, archive>>

ResultRead(k) ==
  /\ k \in Live /\ reader[k] = None /\ proc[k].stdout # <<>> /\ Line(k).kind = "result"
  /\ proc'[k].stdout = Tail(proc[k].stdout)
  /\ \A j \in Turns \ {k} : proc'[j] = proc[j] /\ reader'[j] = reader[j]
  /\ proc'[k].pc = proc[k].pc /\ proc'[k].stdin = proc[k].stdin /\ proc'[k].session = proc[k].session
  /\ proc'[k].talk = proc[k].talk /\ proc'[k].todo = proc[k].todo /\ proc'[k].held = proc[k].held
  /\ proc'[k].token = proc[k].token
  /\ reader'[k] = (IF Archivable(run[k])
                   THEN [does |-> "save", history |-> run[k].history, answer |-> Line(k).answer,
                         session |-> proc[k].session]
                   ELSE None)
  /\ UNCHANGED <<turn, run, answer, file, archive>>

LEMMA ReadEventFacts ==
  ASSUME Types, NEW k \in Turns, ReadEvent(k)
  PROVE  EventRead(k)
<1>1. PICK l : l = Line(k)
  OBVIOUS
<1>2. /\ run[k] # None /\ reader[k] = None /\ proc[k].stdout # <<>> /\ l.kind # "result"
      /\ proc' = [proc EXCEPT ![k].stdout = Tail(@)]
      /\ run' = [run EXCEPT ![k] =
           IF l.kind = "stop" THEN Ended(@, l.answer)
           ELSE [run[k] EXCEPT !.calls = Append(@, [id |-> l.call, claimed |-> FALSE, result |-> None])]]
      /\ reader' = [reader EXCEPT ![k] =
           IF run[k].sender = None THEN None
           ELSE [does |-> "send", to |-> run[k].sender,
                 event |-> [answer |-> l.answer, last |-> l.kind = "stop"]]]
      /\ UNCHANGED <<turn, answer, file, archive>>
  BY <1>1 DEF ReadEvent
<1>3. /\ k \in Live /\ run[k] \in Run /\ run \in [Turns -> Run \cup {None}]
      /\ proc[k] \in Tool /\ proc \in [Turns -> Tool]
      /\ reader \in [Turns -> Sending \cup Saving \cup {None}]
  BY <1>2 DEF Types, Live
<1>4. PICK stdout : stdout = Tail(proc[k].stdout)
  OBVIOUS
<1>5. /\ proc'[k] = [proc[k] EXCEPT !.stdout = stdout]
      /\ \A j \in Turns \ {k} : proc'[j] = proc[j]
  BY <1>2, <1>3, <1>4
<1>6. /\ proc'[k].stdout = stdout
      /\ proc'[k].pc = proc[k].pc /\ proc'[k].stdin = proc[k].stdin /\ proc'[k].session = proc[k].session
      /\ proc'[k].talk = proc[k].talk /\ proc'[k].todo = proc[k].todo /\ proc'[k].held = proc[k].held
      /\ proc'[k].token = proc[k].token
  BY <1>3, <1>5 DEF Tool
<1>7. PICK history, calls : /\ history = Append(run[k].history, <<"a", l.answer>>)
                            /\ calls = Append(run[k].calls, [id |-> l.call, claimed |-> FALSE, result |-> None])
  OBVIOUS
<1>8. /\ \A j \in Turns \ {k} : run'[j] = run[j] /\ reader'[j] = reader[j]
      /\ reader'[k] = (IF run[k].sender = None THEN None
                       ELSE [does |-> "send", to |-> run[k].sender,
                             event |-> [answer |-> l.answer, last |-> l.kind = "stop"]])
  BY <1>2, <1>3
<1>9. CASE l.kind = "stop"
  <2>1. run'[k] = [run[k] EXCEPT !.terminal = TRUE, !.parked = answer[l.answer].calls # {}, !.sender = None,
                                 !.history = history]
    BY <1>2, <1>3, <1>7, <1>9 DEF Ended
  <2>2. /\ run'[k].terminal /\ run'[k].sender = None
        /\ run'[k].history = history /\ run'[k].calls = run[k].calls
    BY <1>3, <2>1 DEF Run
  <2>3. run'[k].parked <=> answer[l.answer].calls # {}
    BY <1>3, <2>1 DEF Run
  <2> QED BY <1>1, <1>2, <1>3, <1>4, <1>5, <1>6, <1>7, <1>8, <1>9, <2>2, <2>3 DEF EventRead
<1>10. CASE l.kind # "stop"
  <2>1. run'[k] = [run[k] EXCEPT !.calls = calls]
    BY <1>2, <1>3, <1>7, <1>10
  <2>2. /\ run'[k].terminal = run[k].terminal /\ run'[k].sender = run[k].sender
        /\ run'[k].parked = run[k].parked /\ run'[k].history = run[k].history
        /\ run'[k].calls = calls
    BY <1>3, <2>1 DEF Run
  <2> QED BY <1>1, <1>2, <1>3, <1>4, <1>5, <1>6, <1>7, <1>8, <1>10, <2>2 DEF EventRead
<1> QED BY <1>9, <1>10

LEMMA ReadResultFacts ==
  ASSUME Types, NEW k \in Turns, ReadResult(k)
  PROVE  ResultRead(k)
<1>1. /\ run[k] # None /\ reader[k] = None /\ proc[k].stdout # <<>> /\ Line(k).kind = "result"
      /\ proc' = [proc EXCEPT ![k].stdout = Tail(@)]
      /\ reader' = [reader EXCEPT ![k] =
           IF Archivable(run[k])
           THEN [does |-> "save", history |-> run[k].history, answer |-> Line(k).answer,
                 session |-> proc[k].session]
           ELSE None]
      /\ UNCHANGED <<turn, run, answer, file, archive>>
  BY DEF ReadResult
<1>2. /\ k \in Live /\ proc[k] \in Tool /\ proc \in [Turns -> Tool]
      /\ reader \in [Turns -> Sending \cup Saving \cup {None}]
  BY <1>1 DEF Types, Live
<1>3. PICK stdout : stdout = Tail(proc[k].stdout)
  OBVIOUS
<1>4. /\ proc'[k] = [proc[k] EXCEPT !.stdout = stdout]
      /\ \A j \in Turns \ {k} : proc'[j] = proc[j]
  BY <1>1, <1>2, <1>3
<1>5. /\ proc'[k].stdout = stdout
      /\ proc'[k].pc = proc[k].pc /\ proc'[k].stdin = proc[k].stdin /\ proc'[k].session = proc[k].session
      /\ proc'[k].talk = proc[k].talk /\ proc'[k].todo = proc[k].todo /\ proc'[k].held = proc[k].held
      /\ proc'[k].token = proc[k].token
  BY <1>2, <1>4 DEF Tool
<1>6. /\ \A j \in Turns \ {k} : reader'[j] = reader[j]
      /\ reader'[k] = (IF Archivable(run[k])
                       THEN [does |-> "save", history |-> run[k].history, answer |-> Line(k).answer,
                             session |-> proc[k].session]
                       ELSE None)
  BY <1>1, <1>2
<1> QED BY <1>1, <1>2, <1>3, <1>4, <1>5, <1>6 DEF ResultRead

LEMMA ReadingTable ==
  ASSUME TableInv, NEW k \in Turns, ReadEvent(k) \/ ReadResult(k)
  PROVE  /\ TableInv' /\ Passed
         /\ \A n : Line(k).kind = "stop" /\ n = Line(k).answer =>
              /\ n \in Replies /\ \A t \in Turns : At(n, t)' => t = run[k].sender
              /\ \A j \in Turns : ~Unread(n, j)'
<1>1. CASE ReadEvent(k)
  <2>1. /\ k \in Live /\ reader[k] = None /\ proc[k].stdout # <<>>
        /\ proc'[k].stdout = Tail(proc[k].stdout)
        /\ \A j \in Turns \ {k} : proc'[j] = proc[j] /\ run'[j] = run[j] /\ reader'[j] = reader[j]
        /\ proc'[k].pc = proc[k].pc /\ proc'[k].stdin = proc[k].stdin /\ proc'[k].session = proc[k].session
        /\ reader'[k] = (IF run[k].sender = None THEN None
                          ELSE [does |-> "send", to |-> run[k].sender,
                                event |-> [answer |-> Line(k).answer, last |-> Line(k).kind = "stop"]])
        /\ IF Line(k).kind = "stop"
            THEN run'[k].sender = None /\ (run'[k].parked <=> answer[Line(k).answer].calls # {})
            ELSE run'[k].sender = run[k].sender /\ (run'[k].parked <=> run[k].parked)
        /\ UNCHANGED <<turn, answer, file, archive>>
    BY <1>1, ReadEventFacts DEF TableInv, EventRead
  <2>2. /\ proc' \in [Turns -> Tool] /\ run' \in [Turns -> Run \cup {None}]
        /\ reader' \in [Turns -> Sending \cup Saving \cup {None}] /\ run'[k] \in Run
    BY <1>1, ReadEventTypes DEF TableInv
  <2>3. Types'
    BY <2>1, <2>2 DEF TableInv, Types
  <2>4. run'[k] # None
    BY <2>2, Kinds
  <2>5. /\ ~Saves(k)'
        /\ Sends(k)' => /\ reader'[k].to = run[k].sender /\ reader'[k].event.answer = Line(k).answer
                        /\ reader'[k].event.last <=> Line(k).kind = "stop"
    <3>1. CASE run[k].sender = None BY <2>1, <3>1 DEF Saves, Sends
    <3>2. CASE run[k].sender # None
      <4>1. PICK e : e = [answer |-> Line(k).answer, last |-> Line(k).kind = "stop"]
        OBVIOUS
      <4>2. reader'[k] = [does |-> "send", to |-> run[k].sender, event |-> e]
        BY <2>1, <3>2, <4>1
      <4>3. e.answer = Line(k).answer /\ (e.last <=> Line(k).kind = "stop")
        BY <4>1
      <4> QED BY <4>2, <4>3 DEF Saves, Sends
    <3> QED BY <3>1, <3>2
  <2> QED BY <2>1, <2>3, <2>4, <2>5, ReadTable
<1>2. CASE ReadResult(k)
  <2>1. /\ k \in Live /\ reader[k] = None /\ proc[k].stdout # <<>> /\ Line(k).kind = "result"
        /\ proc'[k].stdout = Tail(proc[k].stdout)
        /\ \A j \in Turns \ {k} : proc'[j] = proc[j] /\ reader'[j] = reader[j]
        /\ proc'[k].pc = proc[k].pc /\ proc'[k].stdin = proc[k].stdin /\ proc'[k].session = proc[k].session
        /\ reader'[k] = (IF Archivable(run[k])
                         THEN [does |-> "save", history |-> run[k].history, answer |-> Line(k).answer,
                               session |-> proc[k].session]
                         ELSE None)
        /\ UNCHANGED <<turn, run, answer, file, archive>>
    BY <1>2, ReadResultFacts DEF TableInv, ResultRead
  <2>2. proc' \in [Turns -> Tool] /\ reader' \in [Turns -> Sending \cup Saving \cup {None}]
    BY <1>2, ReadResultTypes DEF TableInv
  <2>3. Types'
    BY <2>1, <2>2 DEF TableInv, Types
  <2>4. run'[k] # None
    BY <2>1 DEF Live
  <2>5. ~Sends(k)' /\ (Saves(k)' => reader'[k].session = proc[k].session)
    BY <2>1 DEF Sends, Saves
  <2>6. proc[k].session # None
    BY <2>1 DEF TableInv, Sessions
  <2> QED BY <2>1, <2>3, <2>4, <2>5, <2>6, ReadTable
<1> QED BY <1>1, <1>2

\* The event of a reader is put into the channel.
LEMMA SendFacts ==
  ASSUME Types, NEW k \in Turns, Send(k)
  PROVE  \E t \in Turns : \E e \in Event :
           /\ Sends(k) /\ reader[k].to = t /\ reader[k].event = e /\ turn[t].pc = "open"
           /\ Len(turn[t].channel) < Room
           /\ \A u \in Turns : u # t => turn'[u] = turn[u]
           /\ turn'[t].channel = Append(turn[t].channel, e)
           /\ turn'[t].pc = turn[t].pc /\ turn'[t].key = turn[t].key /\ turn'[t].got = turn[t].got
           /\ turn'[t].messages = turn[t].messages /\ turn'[t].results = turn[t].results
           /\ turn'[t].saved = turn[t].saved
           /\ reader'[k] = None /\ \A j \in Turns : j # k => reader'[j] = reader[j]
           /\ UNCHANGED <<run, proc, answer, file, archive>>
<1>1. /\ Sends(k) /\ turn[reader[k].to].pc = "open" /\ Len(turn[reader[k].to].channel) < Room
      /\ turn' = [turn EXCEPT ![reader[k].to].channel = Append(@, reader[k].event)]
      /\ reader' = [reader EXCEPT ![k] = None]
      /\ UNCHANGED <<run, proc, answer, file, archive>>
  BY DEF Send
<1>2. reader[k].to \in Turns /\ reader[k].event \in Event
  BY <1>1, ReaderTypes
<1>3. PICK t \in Turns : t = reader[k].to
  BY <1>2
<1>4. PICK e \in Event : e = reader[k].event
  BY <1>2
<1>5. PICK channel : channel = Append(turn[t].channel, e)
  OBVIOUS
<1>6. turn[t] \in Turn /\ turn \in [Turns -> Turn] /\ reader \in [Turns -> Sending \cup Saving \cup {None}]
  BY DEF Types
<1>7. /\ turn'[t] = [turn[t] EXCEPT !.channel = channel]
      /\ \A u \in Turns : u # t => turn'[u] = turn[u]
  BY <1>1, <1>3, <1>4, <1>5, <1>6
<1>8. /\ turn'[t].channel = channel
      /\ turn'[t].pc = turn[t].pc /\ turn'[t].key = turn[t].key /\ turn'[t].got = turn[t].got
      /\ turn'[t].messages = turn[t].messages /\ turn'[t].results = turn[t].results
      /\ turn'[t].saved = turn[t].saved
  BY <1>6, <1>7 DEF Turn
<1>9. reader'[k] = None /\ \A j \in Turns : j # k => reader'[j] = reader[j]
  BY <1>1, <1>6
<1>10. /\ reader[k].to = t /\ reader[k].event = e /\ turn[t].pc = "open"
       /\ Len(turn[t].channel) < Room
       /\ turn'[t].channel = Append(turn[t].channel, e)
  BY <1>1, <1>3, <1>4, <1>5, <1>8
<1> WITNESS t \in Turns
<1> WITNESS e \in Event
<1> QED BY <1>1, <1>7, <1>8, <1>9, <1>10

LEMMA SendTable ==
  ASSUME TableInv, NEW k \in Turns, Send(k)
  PROVE  TableInv' /\ Passed
<1>1. PICK t \in Turns : \E e \in Event :
           /\ Sends(k) /\ reader[k].to = t /\ reader[k].event = e /\ turn[t].pc = "open"
           /\ \A u \in Turns : u # t => turn'[u] = turn[u]
           /\ turn'[t].channel = Append(turn[t].channel, e)
           /\ turn'[t].pc = turn[t].pc /\ turn'[t].key = turn[t].key /\ turn'[t].got = turn[t].got
           /\ turn'[t].messages = turn[t].messages
           /\ reader'[k] = None /\ \A j \in Turns : j # k => reader'[j] = reader[j]
           /\ UNCHANGED <<run, proc, answer, file, archive>>
  BY SendFacts DEF TableInv
<1>2. PICK e \in Event :
           /\ Sends(k) /\ reader[k].to = t /\ reader[k].event = e /\ turn[t].pc = "open"
           /\ \A u \in Turns : u # t => turn'[u] = turn[u]
           /\ turn'[t].channel = Append(turn[t].channel, e)
           /\ turn'[t].pc = turn[t].pc /\ turn'[t].key = turn[t].key /\ turn'[t].got = turn[t].got
           /\ turn'[t].messages = turn[t].messages
           /\ reader'[k] = None /\ \A j \in Turns : j # k => reader'[j] = reader[j]
           /\ UNCHANGED <<run, proc, answer, file, archive>>
  BY <1>1
<1>3. turn' \in [Turns -> Turn] /\ reader' \in [Turns -> Sending \cup Saving \cup {None}]
  BY SendTypes DEF TableInv
<1>4. Types'
  BY <1>2, <1>3 DEF TableInv, Types
<1>5. PICK old, new : old = turn[t].channel /\ new = turn'[t].channel
  OBVIOUS
<1>6. old \in Seq(Event) /\ new = Append(old, e)
  BY <1>2, <1>5, TurnTypes DEF TableInv
<1>7. /\ DOMAIN old = 1 .. Len(old) /\ Len(old) \in Nat /\ DOMAIN new = 1 .. Len(old) + 1
      /\ \A i \in DOMAIN old : new[i] = old[i]
      /\ new[Len(old) + 1] = e
  BY <1>6
<1>8. \A i \in DOMAIN new : (i \in DOMAIN old /\ new[i] = old[i]) \/ new[i] = e
  BY <1>7
<1>9. /\ turn[t].key = k /\ NoLast(t)
      /\ e.answer \in Replies
  BY <1>2 DEF TableInv, ReaderSound, Known
<1>10. /\ Live' = Live /\ Replies' = Replies
       /\ \A j \in Turns : /\ Stops(j)' = Stops(j) /\ \A i : Of(j, i)' = Of(j, i)
                           /\ Sends(j)' => j # k /\ Sends(j) /\ reader'[j] = reader[j]
                           /\ Saves(j)' => Saves(j) /\ reader'[j] = reader[j]
                           /\ reader'[j] \in {reader[j], None}
  <2>1. Live' = Live /\ Replies' = Replies
    BY <1>2 DEF Live, Replies
  <2>2. \A j \in Turns : Stops(j)' = Stops(j) /\ \A i : Of(j, i)' = Of(j, i)
    BY <1>2, Kept
  <2>3. \A j \in Turns : /\ Sends(j)' => j # k /\ Sends(j) /\ reader'[j] = reader[j]
                         /\ Saves(j)' => Saves(j) /\ reader'[j] = reader[j]
                         /\ reader'[j] \in {reader[j], None}
    BY <1>2 DEF Sends, Saves
  <2> QED BY <2>1, <2>2, <2>3
<1>11. /\ \A a : \A j \in Turns : Unread(a, j)' <=> Unread(a, j)
       /\ \A a : \A u \in Turns : At(a, u)' => At(a, u)
  <2>1. \A a : \A j \in Turns : Unread(a, j)' <=> Unread(a, j)
    BY <1>10 DEF Unread
  <2>2. ASSUME NEW a, NEW u \in Turns, At(a, u)'
        PROVE  At(a, u)
    <3>1. CASE \E j \in Turns : Sends(j)' /\ reader'[j].to = u /\ reader'[j].event.last /\ reader'[j].event.answer = a
      BY <1>10, <3>1 DEF At
    <3>2. CASE \E i \in DOMAIN turn'[u].channel : turn'[u].channel[i].last /\ turn'[u].channel[i].answer = a
      <4>1. CASE u # t BY <1>2, <3>2, <4>1 DEF At
      <4>2. CASE u = t
        <5>1. PICK i \in DOMAIN new : new[i].last /\ new[i].answer = a
          BY <1>5, <3>2, <4>2
        <5>2. CASE i \in DOMAIN old /\ new[i] = old[i] BY <1>5, <4>2, <5>1, <5>2 DEF At
        <5>3. CASE new[i] = e BY <1>2, <4>2, <5>1, <5>3 DEF At
        <5> QED BY <1>8, <5>2, <5>3
      <4> QED BY <4>1, <4>2
    <3>3. CASE turn'[u].pc = "done" /\ turn'[u].got = a BY <1>2, <3>3 DEF At
    <3> QED BY <2>2, <3>1, <3>2, <3>3 DEF At
  <2> QED BY <2>1, <2>2
<1>12. Known'
  <2>1. \A j \in Turns : \A i \in DOMAIN proc'[j].stdout :
          Of(j, i)' \in Replies' /\ (proc'[j].stdout[i].kind = "call" => proc'[j].stdout[i].call # None)
    BY <1>2, <1>10 DEF TableInv, Known
  <2>2. \A j \in Turns : Sends(j)' => reader'[j].event.answer \in Replies'
    BY <1>10 DEF TableInv, Known
  <2>3. ASSUME NEW u \in Turns, NEW i \in DOMAIN turn'[u].channel
        PROVE  turn'[u].channel[i].answer \in Replies'
    <3>1. CASE u # t BY <1>2, <1>10, <2>3, <3>1 DEF TableInv, Known
    <3>2. CASE u = t
      <4>1. \A h \in DOMAIN old : old[h].answer \in Replies
        BY <1>5 DEF TableInv, Known
      <4> QED BY <1>5, <1>8, <1>9, <1>10, <2>3, <3>2, <4>1
    <3> QED BY <3>1, <3>2
  <2>4. \A u \in Turns : turn'[u].got # None => turn'[u].got \in Replies'
    BY <1>2, <1>10 DEF TableInv, Known
  <2>5. \A a \in Replies' : \A c \in answer'[a].calls : c[1] = a
    BY <1>2, <1>10 DEF TableInv, Known
  <2> QED BY <2>1, <2>2, <2>3, <2>4, <2>5 DEF Known
<1>13. Once'
  <2>1. \A j \in Turns : \A h, i \in Stops(j)' : Of(j, h)' = Of(j, i)' => h = i
    BY <1>10 DEF TableInv, Once
  <2>2. \A a \in Replies' : \A i, j \in Turns : Unread(a, i)' /\ Unread(a, j)' => i = j
    BY <1>10, <1>11 DEF TableInv, Once
  <2>3. \A a \in Replies' : \A j, u \in Turns : Unread(a, j)' => ~At(a, u)'
    BY <1>10, <1>11 DEF TableInv, Once
  <2>4. \A a \in Replies' : \A u, v \in Turns : At(a, u)' /\ At(a, v)' => u = v
    BY <1>10, <1>11 DEF TableInv, Once
  <2> QED BY <2>1, <2>2, <2>3, <2>4 DEF Once
<1>14. DeadGone' /\ AskedFull' /\ InputSound'
  BY <1>2 DEF TableInv, DeadGone, AskedFull, InputSound
<1>15. Begun'
  <2> SUFFICES ASSUME NEW u \in Turns, turn'[u].pc \in {"new", "asked"}
               PROVE  /\ run[u] = None /\ reader'[u] = None /\ \A v \in Turns : turn'[v].key # u
                      /\ turn'[u].key = None /\ turn'[u].channel = <<>> /\ turn'[u].got = None
    BY <1>2 DEF Begun
  <2>1. u # t /\ turn'[u] = turn[u] /\ \A v \in Turns : turn'[v].key = turn[v].key
    BY <1>2
  <2>2. /\ run[u] = None /\ reader[u] = None /\ \A v \in Turns : turn[v].key # u
        /\ turn[u].key = None /\ turn[u].channel = <<>> /\ turn[u].got = None
    BY <2>1 DEF TableInv, Begun
  <2>3. reader'[u] = None
    BY <1>10, <2>2
  <2> QED BY <2>1, <2>2, <2>3
<1>16. Sessions'
  BY <1>2, <1>10 DEF TableInv, Sessions
<1>17. SenderSound'
  <2> SUFFICES ASSUME NEW j \in Live, NEW u \in Turns, run[j].sender = u
               PROVE  /\ turn'[u].pc = "open" /\ turn'[u].key = j /\ NoLast(u)'
                      /\ (Sends(j)' /\ reader'[j].to = u) => ~reader'[j].event.last
    BY <1>2, <1>10 DEF SenderSound
  <2>1. /\ turn[u].pc = "open" /\ turn[u].key = j /\ NoLast(u)
        /\ Sends(j) /\ reader[j].to = u => ~reader[j].event.last
    BY DEF TableInv, SenderSound
  <2>2. j \in Turns
    BY DEF Live
  <2>3. NoLast(u)'
    <3>1. CASE u # t
      <4>1. turn'[u].channel = turn[u].channel
        BY <1>2, <3>1
      <4> QED BY <2>1, <4>1, Kept
    <3>2. CASE u = t
      <4>1. ~e.last
        BY <1>2, <1>9, <2>1, <3>2
      <4>2. \A i \in DOMAIN old : ~old[i].last
        BY <1>5, <2>1, <3>2 DEF NoLast
      <4>3. \A i \in DOMAIN new : ~new[i].last
        BY <1>8, <4>1, <4>2
      <4> QED BY <1>5, <3>2, <4>3 DEF NoLast
    <3> QED BY <3>1, <3>2
  <2> QED BY <1>2, <1>10, <2>1, <2>2, <2>3
<1>18. ReaderSound'
  <2> SUFFICES ASSUME NEW j \in Turns, NEW u \in Turns, Sends(j)', reader'[j].to = u
               PROVE  \/ turn'[u].pc = "open" /\ turn'[u].key = j /\ NoLast(u)'
                      \/ turn'[u].pc = "failed" /\ j \notin Live
    BY <1>10 DEF ReaderSound
  <2>1. j # k /\ Sends(j) /\ reader[j].to = u
    BY <1>10
  <2>2. \/ turn[u].pc = "open" /\ turn[u].key = j /\ NoLast(u)
        \/ turn[u].pc = "failed" /\ j \notin Live
    BY <2>1 DEF TableInv, ReaderSound
  <2>3. u # t
    BY <1>2, <1>9, <2>1, <2>2
  <2>4. turn'[u] = turn[u]
    BY <1>2, <2>3
  <2> QED BY <2>2, <2>4, Kept
<1>19. RestSound' /\ FinalSound' /\ IdleSound'
  BY <1>2, RunsKept DEF TableInv
<1>20. Passed
  BY <1>2, <1>10, <1>11 DEF Passed
<1> QED BY <1>20, <1>4, <1>12, <1>13, <1>14, <1>15, <1>16, <1>17, <1>18, <1>19 DEF TableInv

LEMMA SaveTable ==
  ASSUME TableInv, NEW k \in Turns, SaveCheckpoint(k)
  PROVE  TableInv' /\ Passed
<1>1. /\ Saves(k) /\ reader' = [reader EXCEPT ![k] = None]
      /\ UNCHANGED <<turn, run, proc, answer, file>>
  BY DEF SaveCheckpoint
<1>2. Types'
  BY <1>1, SaveTypes DEF TableInv, Types
<1>3. reader \in [Turns -> Sending \cup Saving \cup {None}]
  BY DEF TableInv, Types
<1>4. \A j \in Turns : reader'[j] \in {reader[j], None}
  BY <1>1, <1>3
<1>5. \A j \in Turns : /\ (Sends(j)' => Sends(j) /\ reader'[j] = reader[j])
                       /\ (Saves(j)' => Saves(j) /\ reader'[j] = reader[j])
  BY <1>4 DEF Sends, Saves
<1>6. Quiet
  BY <1>1, <1>5 DEF Quiet
<1>7. Known' /\ Once'
  BY <1>6, QuietKeeps DEF TableInv
<1>8. DeadGone' /\ AskedFull' /\ InputSound'
  BY <1>1 DEF TableInv, DeadGone, AskedFull, InputSound
<1>9. Begun'
  BY <1>1, <1>4 DEF TableInv, Begun
<1>10. Live' = Live /\ Live \subseteq Turns /\ \A t \in Turns : NoLast(t)' <=> NoLast(t)
  BY <1>1, Kept DEF Live
<1>11. Sessions'
  BY <1>1, <1>5, <1>10 DEF TableInv, Sessions
<1>12. SenderSound'
  BY <1>1, <1>5, <1>10 DEF TableInv, SenderSound
<1>13. ReaderSound'
  BY <1>1, <1>5, <1>10 DEF TableInv, ReaderSound
<1>14. RestSound' /\ FinalSound' /\ IdleSound'
  BY <1>1, RunsKept DEF TableInv
<1> QED BY <1>6, QuietPasses, <1>2, <1>7, <1>8, <1>9, <1>11, <1>12, <1>13, <1>14 DEF TableInv

\* The client takes an event; the last one ends the stream.
LEMMA ReceiveFacts ==
  ASSUME Types, NEW t \in Turns, Receive(t)
  PROVE  \E e \in Event :
           /\ turn[t].pc = "open" /\ turn[t].channel # <<>> /\ e = turn[t].channel[1]
           /\ \A u \in Turns : u # t => turn'[u] = turn[u]
           /\ turn'[t].channel = Tail(turn[t].channel) /\ turn'[t].got = e.answer
           /\ turn'[t].pc = (IF e.last THEN "done" ELSE "open")
           /\ turn'[t].key = turn[t].key
           /\ turn'[t].messages = turn[t].messages /\ turn'[t].results = turn[t].results
           /\ turn'[t].saved = turn[t].saved
           /\ UNCHANGED <<run, proc, reader, answer, file, archive>>
<1>1. PICK e, rest : e = Head(turn[t].channel) /\ rest = Tail(turn[t].channel)
  OBVIOUS
<1>2. /\ turn[t].pc = "open" /\ turn[t].channel # <<>>
      /\ turn' = [turn EXCEPT ![t] = [turn[t] EXCEPT !.channel = rest, !.got = e.answer,
                                        !.pc = IF e.last THEN "done" ELSE "open"]]
      /\ UNCHANGED <<run, proc, reader, answer, file, archive>>
  BY <1>1 DEF Receive
<1>3. turn[t] \in Turn /\ turn \in [Turns -> Turn] /\ turn[t].channel \in Seq(Event)
  BY TurnTypes DEF Types
<1>4. e \in Event /\ e = turn[t].channel[1]
  BY <1>1, <1>2, <1>3
<1>5. /\ turn'[t] = [turn[t] EXCEPT !.channel = rest, !.got = e.answer,
                                    !.pc = IF e.last THEN "done" ELSE "open"]
      /\ \A u \in Turns : u # t => turn'[u] = turn[u]
  BY <1>2, <1>3
<1>6. /\ turn'[t].channel = rest /\ turn'[t].got = e.answer
      /\ turn'[t].pc = (IF e.last THEN "done" ELSE "open")
      /\ turn'[t].key = turn[t].key
      /\ turn'[t].messages = turn[t].messages /\ turn'[t].results = turn[t].results
      /\ turn'[t].saved = turn[t].saved
  BY <1>3, <1>5 DEF Turn
<1> QED BY <1>1, <1>2, <1>4, <1>5, <1>6

LEMMA ReceiveTable ==
  ASSUME TableInv, NEW t \in Turns, Receive(t)
  PROVE  TableInv' /\ Passed
<1>1. PICK e \in Event :
           /\ turn[t].pc = "open" /\ turn[t].channel # <<>> /\ e = turn[t].channel[1]
           /\ \A u \in Turns : u # t => turn'[u] = turn[u]
           /\ turn'[t].channel = Tail(turn[t].channel) /\ turn'[t].got = e.answer
           /\ turn'[t].pc = (IF e.last THEN "done" ELSE "open")
           /\ turn'[t].key = turn[t].key
           /\ turn'[t].messages = turn[t].messages
           /\ UNCHANGED <<run, proc, reader, answer, file, archive>>
  BY ReceiveFacts DEF TableInv
<1>2. Types'
  BY <1>1, ReceiveTypes DEF TableInv, Types
<1>3. PICK old, new : old = turn[t].channel /\ new = turn'[t].channel
  OBVIOUS
<1>4. old \in Seq(Event) /\ new = Tail(old) /\ old # <<>>
  BY <1>1, <1>3, TurnTypes DEF TableInv
<1>5. /\ Len(old) \in Nat \ {0} /\ DOMAIN old = 1 .. Len(old) /\ DOMAIN new = 1 .. Len(old) - 1
      /\ \A i \in DOMAIN new : new[i] = old[i + 1] /\ i + 1 \in DOMAIN old
      /\ 1 \in DOMAIN old /\ e = old[1]
  BY <1>1, <1>3, <1>4
<1>6. e.answer \in Replies
  BY <1>3, <1>5 DEF TableInv, Known
<1>7. /\ Live' = Live /\ Replies' = Replies /\ Live \subseteq Turns
      /\ \A j \in Turns : /\ Stops(j)' = Stops(j) /\ \A i : Of(j, i)' = Of(j, i)
                          /\ (Sends(j)' <=> Sends(j)) /\ (Saves(j)' <=> Saves(j))
  BY <1>1, Kept DEF Live, Replies
<1>8. /\ \A a : \A j \in Turns : Unread(a, j)' <=> Unread(a, j)
      /\ \A a : \A u \in Turns : At(a, u)' => At(a, u)
  <2>1. \A a : \A j \in Turns : Unread(a, j)' <=> Unread(a, j)
    BY <1>7 DEF Unread
  <2>2. ASSUME NEW a, NEW u \in Turns, At(a, u)'
        PROVE  At(a, u)
    <3>1. CASE \E j \in Turns : Sends(j)' /\ reader'[j].to = u /\ reader'[j].event.last /\ reader'[j].event.answer = a
      BY <1>1, <1>7, <3>1 DEF At
    <3>2. CASE \E i \in DOMAIN turn'[u].channel : turn'[u].channel[i].last /\ turn'[u].channel[i].answer = a
      <4>1. CASE u # t BY <1>1, <3>2, <4>1 DEF At
      <4>2. CASE u = t
        <5>1. PICK i \in DOMAIN new : new[i].last /\ new[i].answer = a
          BY <1>3, <3>2, <4>2
        <5>2. i + 1 \in DOMAIN old /\ old[i + 1].last /\ old[i + 1].answer = a
          BY <1>5, <5>1
        <5> QED BY <1>3, <4>2, <5>2 DEF At
      <4> QED BY <4>1, <4>2
    <3>3. CASE turn'[u].pc = "done" /\ turn'[u].got = a
      <4>1. CASE u # t BY <1>1, <3>3, <4>1 DEF At
      <4>2. CASE u = t
        <5>1. e.last /\ e.answer = a
          BY <1>1, <3>3, <4>2
        <5>2. turn[u].channel[1].last /\ turn[u].channel[1].answer = a /\ 1 \in DOMAIN turn[u].channel
          BY <1>3, <1>5, <4>2, <5>1
        <5> QED BY <5>2 DEF At
      <4> QED BY <4>1, <4>2
    <3> QED BY <2>2, <3>1, <3>2, <3>3 DEF At
  <2> QED BY <2>1, <2>2
<1>9. Known'
  <2>1. \A j \in Turns : \A i \in DOMAIN proc'[j].stdout :
          Of(j, i)' \in Replies' /\ (proc'[j].stdout[i].kind = "call" => proc'[j].stdout[i].call # None)
    BY <1>1, <1>7 DEF TableInv, Known
  <2>2. \A j \in Turns : Sends(j)' => reader'[j].event.answer \in Replies'
    BY <1>1, <1>7 DEF TableInv, Known
  <2>3. ASSUME NEW u \in Turns, NEW i \in DOMAIN turn'[u].channel
        PROVE  turn'[u].channel[i].answer \in Replies'
    <3>1. CASE u # t BY <1>1, <1>7, <2>3, <3>1 DEF TableInv, Known
    <3>2. CASE u = t
      <4>1. \A h \in DOMAIN old : old[h].answer \in Replies
        BY <1>3 DEF TableInv, Known
      <4> QED BY <1>3, <1>5, <1>7, <2>3, <3>2, <4>1
    <3> QED BY <3>1, <3>2
  <2>4. \A u \in Turns : turn'[u].got # None => turn'[u].got \in Replies'
    BY <1>1, <1>6, <1>7 DEF TableInv, Known
  <2>5. \A a \in Replies' : \A c \in answer'[a].calls : c[1] = a
    BY <1>1, <1>7 DEF TableInv, Known
  <2> QED BY <2>1, <2>2, <2>3, <2>4, <2>5 DEF Known
<1>10. Once'
  <2>1. \A j \in Turns : \A h, i \in Stops(j)' : Of(j, h)' = Of(j, i)' => h = i
    BY <1>7 DEF TableInv, Once
  <2>2. \A a \in Replies' : \A i, j \in Turns : Unread(a, i)' /\ Unread(a, j)' => i = j
    BY <1>7, <1>8 DEF TableInv, Once
  <2>3. \A a \in Replies' : \A j, u \in Turns : Unread(a, j)' => ~At(a, u)'
    BY <1>7, <1>8 DEF TableInv, Once
  <2>4. \A a \in Replies' : \A u, v \in Turns : At(a, u)' /\ At(a, v)' => u = v
    BY <1>7, <1>8 DEF TableInv, Once
  <2> QED BY <2>1, <2>2, <2>3, <2>4 DEF Once
<1>11. DeadGone' /\ AskedFull' /\ InputSound'
  BY <1>1 DEF TableInv, DeadGone, AskedFull, InputSound
<1>12. Begun'
  <2> SUFFICES ASSUME NEW u \in Turns, turn'[u].pc \in {"new", "asked"}
               PROVE  /\ run[u] = None /\ reader[u] = None /\ \A v \in Turns : turn'[v].key # u
                      /\ turn'[u].key = None /\ turn'[u].channel = <<>> /\ turn'[u].got = None
    BY <1>1 DEF Begun
  <2>1. u # t /\ turn'[u] = turn[u] /\ \A v \in Turns : turn'[v].key = turn[v].key
    BY <1>1
  <2>2. /\ run[u] = None /\ reader[u] = None /\ \A v \in Turns : turn[v].key # u
        /\ turn[u].key = None /\ turn[u].channel = <<>> /\ turn[u].got = None
    BY <2>1 DEF TableInv, Begun
  <2> QED BY <2>1, <2>2
<1>13. Sessions'
  BY <1>1, <1>7 DEF TableInv, Sessions
<1>14. ASSUME NEW u \in Turns, turn[u].pc = "open", NoLast(u)
       PROVE  turn'[u].pc = "open" /\ turn'[u].key = turn[u].key /\ NoLast(u)'
  <2>1. CASE u # t
    <3>1. turn'[u] = turn[u]
      BY <1>1, <2>1
    <3> QED BY <1>14, <3>1, Kept
  <2>2. CASE u = t
    <3>1. \A i \in DOMAIN old : ~old[i].last
      BY <1>3, <1>14, <2>2 DEF NoLast
    <3>2. ~e.last /\ \A i \in DOMAIN new : ~new[i].last
      BY <1>5, <3>1
    <3> QED BY <1>1, <1>3, <2>2, <3>2 DEF NoLast
  <2> QED BY <2>1, <2>2
<1>15. SenderSound'
  <2> SUFFICES ASSUME NEW j \in Live, NEW u \in Turns, run[j].sender = u
               PROVE  /\ turn'[u].pc = "open" /\ turn'[u].key = j /\ NoLast(u)'
                      /\ (Sends(j)' /\ reader[j].to = u) => ~reader[j].event.last
    BY <1>1, <1>7 DEF SenderSound
  <2>1. /\ turn[u].pc = "open" /\ turn[u].key = j /\ NoLast(u)
        /\ Sends(j) /\ reader[j].to = u => ~reader[j].event.last
    BY DEF TableInv, SenderSound
  <2> QED BY <1>7, <1>14, <2>1
<1>16. ReaderSound'
  <2> SUFFICES ASSUME NEW j \in Turns, NEW u \in Turns, Sends(j)', reader[j].to = u
               PROVE  \/ turn'[u].pc = "open" /\ turn'[u].key = j /\ NoLast(u)'
                      \/ turn'[u].pc = "failed" /\ j \notin Live
    BY <1>1, <1>7 DEF ReaderSound
  <2>1. \/ turn[u].pc = "open" /\ turn[u].key = j /\ NoLast(u)
        \/ turn[u].pc = "failed" /\ j \notin Live
    BY <1>7 DEF TableInv, ReaderSound
  <2>2. turn[u].pc = "failed" => turn'[u] = turn[u]
    BY <1>1
  <2> QED BY <1>14, <2>1, <2>2
<1>17. RestSound' /\ FinalSound' /\ IdleSound'
  BY <1>1, RunsKept DEF TableInv
<1>30. Passed
  BY <1>1, <1>7, <1>8 DEF Passed
<1> QED BY <1>30, <1>2, <1>9, <1>10, <1>11, <1>12, <1>13, <1>15, <1>16, <1>17 DEF TableInv

-----------------------------------------------------------------------------
(* The table of runs is sound in every state *)

LEMMA InitTable ==
  Init => TableInv
<1> SUFFICES ASSUME Init PROVE TableInv
  OBVIOUS
<1>1. Types
  BY InitTypes
<1>2. /\ answer = <<>>
      /\ \A t \in Turns : turn[t] = NewTurn /\ run[t] = None /\ proc[t] = NoProcess /\ reader[t] = None
  BY DEF Init
<1>3. \A t \in Turns :
        /\ turn[t].pc = "new" /\ turn[t].channel = <<>> /\ turn[t].got = None /\ turn[t].key = None
        /\ proc[t].stdin = <<>> /\ proc[t].stdout = <<>> /\ proc[t].session = None
        /\ ~Sends(t) /\ ~Saves(t) /\ Stops(t) = {}
        /\ DOMAIN turn[t].channel = {} /\ DOMAIN proc[t].stdout = {}
  BY <1>2 DEF NewTurn, NoProcess, Sends, Saves, Stops
<1>4. Live = {}
  BY <1>2 DEF Live
<1>5. Replies = {}
  BY <1>2 DEF Replies
<1>6. \A t \in Turns : turn[t].key # t
  BY <1>3, Kinds
<1>7. Known
  BY <1>3, <1>5, Kinds DEF Known
<1>8. Once
  BY <1>3, <1>5 DEF Once, Unread
<1>9. DeadGone /\ Sessions /\ AskedFull /\ SenderSound /\ ReaderSound
  BY <1>2, <1>3, <1>4 DEF DeadGone, Sessions, AskedFull, SenderSound, ReaderSound
<1>10. Begun
  <2>1. \A t, u \in Turns : turn[u].key # t
    BY <1>3, Kinds
  <2> QED BY <2>1, <1>2, <1>3 DEF Begun
<1>11. InputSound
  BY <1>3 DEF InputSound
<1>12. RestSound /\ FinalSound /\ IdleSound
  BY <1>4 DEF RestSound, FinalSound, IdleSound
<1> QED BY <1>1, <1>7, <1>8, <1>9, <1>10, <1>11, <1>12 DEF TableInv

LEMMA StutterTable ==
  ASSUME TableInv, UNCHANGED vars
  PROVE  TableInv' /\ Passed
<1>1. /\ turn' = turn /\ run' = run /\ proc' = proc /\ reader' = reader
      /\ answer' = answer /\ file' = file /\ archive' = archive
  BY DEF vars
<1>2. Types'
  BY <1>1 DEF TableInv, Types
<1>3. Dropped({}, {})
  <2>1. /\ run = [k \in Turns |-> run[k]] /\ proc = [k \in Turns |-> proc[k]]
        /\ turn = [t \in Turns |-> turn[t]]
    BY DEF TableInv, Types
  <2> QED BY <1>1, <2>1 DEF Dropped
<1> QED BY <1>1, <1>2, <1>3, DroppedTable

LEMMA StepTable ==
  TableInv /\ [Next]_vars => TableInv' /\ Passed
<1> SUFFICES ASSUME TableInv, [Next]_vars PROVE TableInv' /\ Passed
  OBVIOUS
<1>1. ASSUME NEW t \in Turns, NEW prev \in Turns \cup {None}, Asks(t, prev) PROVE TableInv' /\ Passed
  BY <1>1, AsksTable
<1>2. ASSUME NEW t \in Turns, Open(t) PROVE TableInv' /\ Passed
  BY <1>2, ReturnTable, ContinueTable, SpawnTable, EndsTable DEF Open
<1>3. ASSUME NEW t \in Turns, Process(t) PROVE TableInv' /\ Passed
  BY <1>3, GenerateTable, ProcessTable DEF Process
<1>4. ASSUME NEW t \in Turns, Reader(t) PROVE TableInv' /\ Passed
  BY <1>4, ReadingTable, SendTable, SaveTable, EndsTable DEF Reader
<1>5. ASSUME NEW t \in Turns, Receive(t) \/ Broken(t) \/ Leave(t) \/ Reap(t) \/ Revoke(t)
      PROVE  TableInv' /\ Passed
  BY <1>5, ReceiveTable, EndsTable
<1>6. CASE UNCHANGED vars BY <1>6, StutterTable
<1> QED BY <1>1, <1>2, <1>3, <1>4, <1>5, <1>6 DEF Next

\* The table of runs, its readers and the streams are sound in every state.
THEOREM TableHolds ==
  Spec => []TableInv
<1> QED BY InitTable, StepTable, PTL DEF Spec

\* Served: a turn does not wait for a process that has nothing to do, whatever
\* message or results open_report gave to the run and whatever the helper of
\* run_mcp_helper did on a deadline: the process has something to read, or the
\* end of its answer has yet to be read.
THEOREM ServedHolds ==
  Spec => []Served
<1>1. TableInv => Served
  BY DEF TableInv, Served, IdleSound, Stops
<1> QED BY <1>1, TableHolds, PTL

-----------------------------------------------------------------------------
(* The bounds *)

Bounded == Cardinality(Live) <= MaxRuns
Roomy == \A t \in Turns : Len(turn[t].channel) <= Room

LEMMA LiveFinite ==
  ASSUME NEW L \in SUBSET Turns
  PROVE  IsFiniteSet(L) /\ Cardinality(L) \in Nat
<1>1. IsFiniteSet(Turns)
  BY FS_Interval, BridgeConstants DEF Turns
<1> QED BY <1>1, FS_Subset, FS_CardinalityType

\* No step but the start of a run adds to the table.
LEMMA LiveShrinks ==
  ASSUME TableInv, NEW t \in Turns, NEW prev \in Turns \cup {None},
         \/ Asks(t, prev) \/ ReturnResults(t) \/ Continue(t) \/ Refuse(t) \/ Process(t) \/ Reader(t)
         \/ Receive(t) \/ Broken(t) \/ Leave(t) \/ Reap(t) \/ Revoke(t)
  PROVE  Live' \subseteq Live
<1>0. Types /\ Known
  BY DEF TableInv
<1>1. ASSUME run' = run PROVE Live' \subseteq Live
  BY <1>1 DEF Live
<1>2. ASSUME NEW K, NEW D, Dropped(K, D) PROVE Live' \subseteq Live
  BY <1>0, <1>2, DroppedFacts
<1>3. ASSUME NEW k \in Live, \A j \in Turns \ {k} : run'[j] = run[j] PROVE Live' \subseteq Live
  BY <1>3 DEF Live
<1>4. CASE Asks(t, prev) \/ Receive(t) BY <1>1, <1>4 DEF Asks, Receive
<1>5. CASE ReturnResults(t) BY <1>0, <1>5, ReturnFacts, TakenFacts
<1>6. CASE Continue(t)
  <2>1. <<>> \in Seq(ToolCall)
    OBVIOUS
  <2> QED BY <1>0, <1>6, <2>1, ContinueFacts, TakenFacts
<1>7. CASE Refuse(t) \/ Broken(t) \/ Leave(t) \/ Reap(t) \/ Revoke(t) \/ ReaderEnds(t)
  BY <1>2, <1>7, RefuseShape, BrokenShape, LeaveShape, EndShape
<1>8. CASE TakeInput(t) \/ Generate(t) \/ Poll(t) \/ HelperGivesUp(t) \/ Exit(t)
  BY <1>1, <1>8 DEF TakeInput, Generate, Poll, HelperGivesUp, Exit
<1>9. CASE Claim(t) BY <1>0, <1>3, <1>9, ClaimFacts
<1>10. CASE ReadEvent(t) BY <1>0, <1>3, <1>10, ReadEventFacts DEF EventRead
<1>11. CASE Send(t) \/ ReadResult(t) \/ SaveCheckpoint(t)
  BY <1>1, <1>11 DEF Send, ReadResult, SaveCheckpoint
<1> QED BY <1>4, <1>5, <1>6, <1>7, <1>8, <1>9, <1>10, <1>11 DEF Process, Reader

LEMMA SpawnLive ==
  ASSUME TableInv, NEW t \in Turns, Spawn(t)
  PROVE  \E K \in SUBSET Idle : ~Full(K) /\ Live' = (Live \ K) \cup {t}
<1>1. PICK K \in SUBSET Idle :
           /\ turn[t].pc = "asked" /\ turn[t].results = {} /\ ~Full(K) /\ Reusable(t) = {}
           /\ Live' = (Live \ K) \cup {t}
           /\ UNCHANGED <<reader, answer, archive>>
  BY SpawnFacts
<1> QED BY <1>1

LEMMA BoundedStep ==
  TableInv /\ Bounded /\ [Next]_vars => Bounded'
<1> SUFFICES ASSUME TableInv, Bounded, [Next]_vars PROVE Bounded'
  OBVIOUS
<1>0. Types /\ Live \subseteq Turns /\ MaxRuns \in Nat
  BY LiveTypes, BridgeConstants DEF TableInv
<1>1. ASSUME Live' \subseteq Live PROVE Bounded'
  <2>1. PICK L : L = Live'
    OBVIOUS
  <2>2. IsFiniteSet(Live) /\ Cardinality(Live) \in Nat /\ Cardinality(L) \in Nat
        /\ Cardinality(L) <= Cardinality(Live)
    BY <1>0, <1>1, <2>1, LiveFinite, FS_Subset
  <2>3. Cardinality(L) <= MaxRuns
    BY <1>0, <2>2 DEF Bounded
  <2> QED BY <2>1, <2>3 DEF Bounded
<1>2. ASSUME NEW t \in Turns, Spawn(t) PROVE Bounded'
  <2>1. PICK K \in SUBSET Idle : ~Full(K) /\ Live' = (Live \ K) \cup {t}
    BY <1>2, SpawnLive
  <2>2. PICK L : L = Live \ K
    OBVIOUS
  <2>3. IsFiniteSet(L) /\ Cardinality(L) \in Nat
    BY <1>0, <2>2, LiveFinite
  <2>4. Cardinality(L) < MaxRuns
    BY <1>0, <2>1, <2>2, <2>3 DEF Full
  <2>5. Cardinality(L \cup {t}) \in {Cardinality(L), Cardinality(L) + 1}
    <3>1. Cardinality(L \cup {t}) = IF t \in L THEN Cardinality(L) ELSE Cardinality(L) + 1
      BY <2>3, FS_AddElement, Zenon
    <3> QED BY <3>1
  <2>6. Cardinality(L \cup {t}) <= MaxRuns
    <3>1. PICK n : n = Cardinality(L)
      OBVIOUS
    <3>2. IsFiniteSet(L \cup {t})
      BY <2>3, FS_AddElement
    <3>3. Cardinality(L \cup {t}) \in Nat
      BY <3>2, FS_CardinalityType
    <3> QED BY <1>0, <2>3, <2>4, <2>5, <3>1, <3>3
  <2> QED BY <2>1, <2>2, <2>6 DEF Bounded
<1>3. CASE UNCHANGED vars BY <1>1, <1>3 DEF vars, Live
<1> QED BY <1>1, <1>2, <1>3, LiveShrinks DEF Next, Open

LEMMA RoomyStep ==
  TableInv /\ Roomy /\ [Next]_vars => Roomy'
<1> SUFFICES ASSUME TableInv, Roomy, [Next]_vars PROVE Roomy'
  OBVIOUS
<1>0. /\ Types /\ Known /\ Room \in Nat
      /\ \A t \in Turns : turn[t].channel \in Seq(Event) /\ Len(turn[t].channel) \in Nat
  BY TurnTypes, Kinds DEF TableInv
<1>1. ASSUME \A t \in Turns : turn'[t].channel \in {turn[t].channel, <<>>} PROVE Roomy'
  BY <1>0, <1>1 DEF Roomy
<1>2. ASSUME turn' = turn PROVE Roomy'
  BY <1>1, <1>2
<1>3. ASSUME NEW K, NEW D, Dropped(K, D) PROVE Roomy'
  BY <1>0, <1>1, <1>3, DroppedFacts
<1>4. ASSUME NEW t \in Turns, NEW prev \in Turns \cup {None}, Asks(t, prev) PROVE Roomy'
  BY <1>0, <1>1, <1>4, AsksFacts
<1>5. ASSUME NEW t \in Turns, ReturnResults(t) PROVE Roomy'
  <2>1. PICK k \in Live : \E calls \in Seq(ToolCall) : Taken(k, t, calls)
    BY <1>0, <1>5, ReturnFacts
  <2>2. PICK calls \in Seq(ToolCall) : Taken(k, t, calls)
    BY <2>1
  <2> QED BY <1>0, <1>1, <2>2, TakenFacts
<1>6. ASSUME NEW t \in Turns, Continue(t) PROVE Roomy'
  <2>1. PICK k \in Live : Taken(k, t, <<>>)
    BY <1>0, <1>6, ContinueFacts
  <2>2. <<>> \in Seq(ToolCall)
    OBVIOUS
  <2> QED BY <1>0, <1>1, <2>1, <2>2, TakenFacts
<1>7. ASSUME NEW t \in Turns, Spawn(t) PROVE Roomy'
  BY <1>1, <1>7, SpawnFacts
<1>8. ASSUME NEW t \in Turns,
             Refuse(t) \/ Broken(t) \/ Leave(t) \/ Reap(t) \/ Revoke(t) \/ ReaderEnds(t)
      PROVE  Roomy'
  BY <1>3, <1>8, RefuseShape, BrokenShape, LeaveShape, EndShape
<1>9. ASSUME NEW t \in Turns, Process(t) PROVE Roomy'
  BY <1>2, <1>9 DEF Process, TakeInput, Generate, Claim, Poll, HelperGivesUp, Exit
<1>10. ASSUME NEW t \in Turns, Send(t) PROVE Roomy'
  <2>1. PICK u \in Turns : \E e \in Event :
          /\ Len(turn[u].channel) < Room /\ turn'[u].channel = Append(turn[u].channel, e)
          /\ \A v \in Turns : v # u => turn'[v] = turn[v]
    BY <1>0, <1>10, SendFacts
  <2>2. Len(turn'[u].channel) <= Room
    BY <1>0, <2>1
  <2> QED BY <2>1, <2>2 DEF Roomy
<1>11. ASSUME NEW t \in Turns, ReadEvent(t) \/ ReadResult(t) \/ SaveCheckpoint(t) PROVE Roomy'
  BY <1>2, <1>11 DEF ReadEvent, ReadResult, SaveCheckpoint
<1>12. ASSUME NEW t \in Turns, Receive(t) PROVE Roomy'
  <2>1. /\ turn[t].channel # <<>> /\ turn'[t].channel = Tail(turn[t].channel)
        /\ \A v \in Turns : v # t => turn'[v] = turn[v]
    BY <1>0, <1>12, ReceiveFacts
  <2>2. Len(turn'[t].channel) <= Len(turn[t].channel)
    BY <1>0, <2>1
  <2>3. Len(turn[t].channel) <= Room /\ Len(turn'[t].channel) \in Nat
    BY <1>0, <2>1 DEF Roomy
  <2>4. Len(turn'[t].channel) <= Room
    BY <1>0, <2>2, <2>3
  <2> QED BY <2>1, <2>4 DEF Roomy
<1>13. CASE UNCHANGED vars BY <1>2, <1>13 DEF vars
<1> QED BY <1>4, <1>5, <1>6, <1>7, <1>8, <1>9, <1>10, <1>11, <1>12, <1>13 DEF Next, Open, Reader

\* TypeOK: each variable holds a value of its kind, whatever mixture of threads
\* has run; open_report keeps the number of processes within MAX_RUNS, evicted
\* runs counted out, and blocking_send a channel within its capacity.
THEOREM TypesHold ==
  Spec => []TypeOK
<1>1. Init => Bounded /\ Roomy
  <2> SUFFICES ASSUME Init PROVE Bounded /\ Roomy
    OBVIOUS
  <2>1. Live = {} /\ \A t \in Turns : turn[t].channel = <<>>
    BY DEF Init, Live, NewTurn
  <2>2. Cardinality({}) = 0 /\ Len(<<>>) = 0 /\ MaxRuns \in Nat /\ Room \in Nat
    BY FS_EmptySet, BridgeConstants
  <2> QED BY <2>1, <2>2 DEF Bounded, Roomy
<1>2. TableInv /\ Bounded /\ Roomy => TypeOK
  BY DEF TableInv, Types, Bounded, Roomy, TypeOK
<1> QED BY <1>1, <1>2, InitTable, StepTable, BoundedStep, RoomyStep, PTL DEF Spec

-----------------------------------------------------------------------------
(* Which turns may still end a run *)

\* A turn that has received the end of its answer.
Finished(t) == turn[t].pc = "done" /\ turn[t].got \in Replies

\* What a request goes on from.
Follows(t, prev) ==
  /\ prev # None => Finished(prev)
  /\ Front(turn[t].messages) = Prior(prev)
  /\ turn[t].results # {} => prev # None /\ turn[t].results = answer[turn[prev].got].calls

AskedSound ==
  \A t \in Turns : turn[t].pc = "asked" => \E prev \in Turns \cup {None} : Follows(t, prev)

\* The calls, among those recorded, that wait for a result.
WaitingIn(calls) == CallIds({c \in Range(calls) : c.result = None})
Waiting(k) == WaitingIn(run[k].calls)

\* A call is recorded before the end of its message is read.
Recorded(k) ==
  \A i \in Stops(k) : \A c \in answer[Of(k, i)].calls :
    \/ \E j \in DOMAIN proc[k].stdout :
         j < i /\ proc[k].stdout[j].kind = "call" /\ proc[k].stdout[j].call = c
    \/ c \in Waiting(k)

CallsSound == \A k \in Live : Recorded(k)

\* The run has ended an answer whose end no turn but t has or will have.
Drained(t, k) ==
  \E m \in Replies :
    /\ run[k].history # <<>> /\ Last(run[k].history) = <<"a", m>>
    /\ \A p \in Turns : (At(m, p) => p = t) /\ ~Unread(m, p)
    /\ run[k].parked => \E c \in Waiting(k) : c[1] = m

\* A stream that may still drop a run it does not belong to any more: the run is
\* nobody's, and cannot be given to a turn before that stream has ended.
Draining(t, k) ==
  turn[t].pc = "open" /\ turn[t].key = k /\ k \in Live /\ run[k].sender # t =>
    run[k].sender = None /\ Drained(t, k)

DrainSound == \A t, k \in Turns : Draining(t, k)

StreamInv == AskedSound /\ CallsSound /\ DrainSound

-----------------------------------------------------------------------------
(* What a step leaves *)

LEMMA WaitingFacts ==
  /\ \A calls : \A id : id \in WaitingIn(calls) <=>
       \E i \in DOMAIN calls : calls[i].id = id /\ calls[i].result = None
<1> QED BY DEF WaitingIn, CallIds, Range

\* A turn that is done stays so, and a request is what it was asked.
Followed ==
  /\ \A t \in Turns : turn[t].pc = "done" => turn'[t] = turn[t]
  /\ \A t \in Turns : turn'[t].pc = "asked" => turn'[t] = turn[t]

LEMMA FollowsKept ==
  ASSUME TableInv, Passed, NEW t \in Turns, NEW prev \in Turns \cup {None}, Follows(t, prev),
         turn'[t] = turn[t], \A u \in Turns : turn[u].pc = "done" => turn'[u] = turn[u]
  PROVE  Follows(t, prev)'
<1>1. CASE prev = None BY <1>1 DEF Follows, Prior
<1>2. CASE prev # None
  <2>1. prev \in Turns /\ Finished(prev) /\ turn'[prev] = turn[prev]
    BY <1>2 DEF Follows, Finished
  <2>2. Finished(prev)' /\ answer'[turn[prev].got] = answer[turn[prev].got]
    BY <2>1 DEF Finished, Passed
  <2>3. Prior(prev)' = Prior(prev)
    BY <2>1 DEF Prior, Talk
  <2> QED BY <2>1, <2>2, <2>3 DEF Follows
<1> QED BY <1>1, <1>2

LEMMA AskedKept ==
  ASSUME TableInv, AskedSound, Passed, Followed
  PROVE  AskedSound'
<1> SUFFICES ASSUME NEW t \in Turns, turn'[t].pc = "asked"
             PROVE  \E prev \in Turns \cup {None} : Follows(t, prev)'
  BY DEF AskedSound
<1>1. turn'[t] = turn[t] /\ turn[t].pc = "asked" /\ \A u \in Turns : turn[u].pc = "done" => turn'[u] = turn[u]
  BY DEF Followed
<1>2. PICK prev \in Turns \cup {None} : Follows(t, prev)
  BY <1>1 DEF AskedSound
<1>3. Follows(t, prev)'
  BY <1>1, <1>2, FollowsKept
<1> QED BY <1>3

\* A run whose output is as it was, and whose calls wait as before.
LEMMA RecordedKept ==
  ASSUME TableInv, Passed, NEW k \in Turns, Recorded(k),
         proc'[k].stdout = proc[k].stdout, Waiting(k) \subseteq Waiting(k)'
  PROVE  Recorded(k)'
<1>1. Stops(k)' = Stops(k) /\ \A i : Of(k, i)' = Of(k, i)
  BY Kept
<1>2. \A i \in Stops(k) : answer'[Of(k, i)] = answer[Of(k, i)]
  BY DEF TableInv, Known, Passed, Stops
<1> QED BY <1>1, <1>2 DEF Recorded

LEMMA DrainingKept ==
  ASSUME TableInv, Passed, NEW t \in Turns, NEW k \in Turns, Draining(t, k),
         turn'[t].pc = "open" => turn[t].pc = "open" /\ turn'[t].key = turn[t].key,
         run'[k] # None =>
           /\ run[k] # None /\ run'[k].sender = run[k].sender /\ run'[k].history = run[k].history
           /\ run'[k].parked = run[k].parked /\ Waiting(k) \subseteq Waiting(k)'
  PROVE  Draining(t, k)'
<1> SUFFICES ASSUME turn'[t].pc = "open", turn'[t].key = k, k \in Live', run'[k].sender # t
             PROVE  run'[k].sender = None /\ Drained(t, k)'
  BY DEF Draining
<1>1. run[k] # None /\ run'[k] # None /\ k \in Live
  BY DEF Live
<1>2. run[k].sender = None /\ Drained(t, k)
  BY <1>1 DEF Draining
<1>3. PICK m \in Replies :
        /\ run[k].history # <<>> /\ Last(run[k].history) = <<"a", m>>
        /\ \A p \in Turns : (At(m, p) => p = t) /\ ~Unread(m, p)
        /\ run[k].parked => \E c \in Waiting(k) : c[1] = m
  BY <1>2 DEF Drained
<1>4. m \in Replies' /\ \A p \in Turns : (At(m, p)' => p = t) /\ ~Unread(m, p)'
  BY <1>3 DEF Passed
<1>5. run'[k].parked => \E c \in Waiting(k)' : c[1] = m
  BY <1>1, <1>3
<1>6. Drained(t, k)'
  BY <1>1, <1>3, <1>4, <1>5 DEF Drained
<1> QED BY <1>1, <1>2, <1>6

LEMMA WaitingKept ==
  ASSUME NEW k \in Turns, run'[k] = run[k]
  PROVE  Waiting(k)' = Waiting(k)
<1> QED BY DEF Waiting

LEMMA StreamKept ==
  ASSUME TableInv, StreamInv, Passed, Followed,
         \A t \in Turns : turn'[t].pc = "open" => turn[t].pc = "open" /\ turn'[t].key = turn[t].key,
         \A k \in Turns : run'[k] # None =>
           /\ run[k] # None /\ run'[k].sender = run[k].sender /\ run'[k].history = run[k].history
           /\ run'[k].parked = run[k].parked /\ Waiting(k) \subseteq Waiting(k)',
         \A k \in Live : Recorded(k) /\ run'[k] # None => Recorded(k)'
  PROVE  StreamInv'
<1>1. AskedSound'
  BY AskedKept DEF StreamInv
<1>2. ASSUME NEW t \in Turns, NEW k \in Turns
      PROVE  Draining(t, k)'
  <2>1. Draining(t, k)
    BY DEF StreamInv, DrainSound
  <2> QED BY <2>1, DrainingKept
<1>3. ASSUME NEW k \in Turns, run'[k] # None
      PROVE  Recorded(k)'
  <2>1. run[k] # None /\ k \in Live
    BY <1>3 DEF Live
  <2>2. Recorded(k)
    BY <2>1 DEF StreamInv, CallsSound
  <2> QED BY <1>3, <2>1, <2>2
<1>4. CallsSound' /\ DrainSound'
  BY <1>2, <1>3 DEF CallsSound, DrainSound, Live
<1> QED BY <1>1, <1>4 DEF StreamInv

LEMMA FollowedFacts ==
  /\ turn' = turn => Followed
  /\ \A t \in Turns : turn[t].pc = "open" /\ turn'[t].pc # "asked" /\ (\A u \in Turns : u # t => turn'[u] = turn[u]) =>
       Followed
<1> QED BY DEF Followed

\* The steps that only end runs and turns.
LEMMA DroppedStream ==
  ASSUME TableInv, StreamInv, Passed, NEW K, NEW D, Dropped(K, D),
         \A t \in Turns : t \in D => turn[t].pc \in {"asked", "open"}
  PROVE  StreamInv'
<1>1. /\ \A j \in Turns : j \in K => run'[j] = None /\ proc'[j] = NoProcess
      /\ \A j \in Turns : j \notin K => run'[j] = run[j] /\ proc'[j] = proc[j]
      /\ \A u \in Turns : u \notin D => turn'[u] = turn[u]
      /\ \A u \in Turns : u \in D => turn'[u].pc = "failed"
  BY DroppedFacts DEF TableInv
<1>2. Followed
  BY <1>1 DEF Followed
<1>3. \A t \in Turns : turn'[t].pc = "open" => turn[t].pc = "open" /\ turn'[t].key = turn[t].key
  BY <1>1
<1>4. ASSUME NEW k \in Turns, run'[k] # None
      PROVE  /\ run'[k] = run[k] /\ proc'[k] = proc[k] /\ Waiting(k)' = Waiting(k)
  BY <1>1, <1>4, WaitingKept
<1>5. ASSUME NEW k \in Live, Recorded(k), run'[k] # None
      PROVE  Recorded(k)'
  <2>1. k \in Turns
    BY DEF Live
  <2> QED BY <1>4, <1>5, <2>1, RecordedKept
<1> QED BY <1>2, <1>3, <1>4, <1>5, StreamKept

\* The steps that leave the runs as they are, and the output.
LEMMA StillStream ==
  ASSUME TableInv, StreamInv, Passed, Followed, UNCHANGED run,
         \A k \in Turns : proc'[k].stdout = proc[k].stdout,
         \A t \in Turns : turn'[t].pc = "open" => turn[t].pc = "open" /\ turn'[t].key = turn[t].key
  PROVE  StreamInv'
<1>1. \A k \in Turns : Waiting(k)' = Waiting(k)
  BY WaitingKept
<1>2. ASSUME NEW k \in Live, Recorded(k)
      PROVE  Recorded(k)'
  <2>1. k \in Turns
    BY DEF Live
  <2> QED BY <1>1, <1>2, <2>1, RecordedKept
<1> QED BY <1>1, <1>2, StreamKept

LEMMA EndsStream ==
  ASSUME TableInv, StreamInv, NEW t \in Turns,
         Refuse(t) \/ Broken(t) \/ Leave(t) \/ Reap(t) \/ Revoke(t) \/ ReaderEnds(t)
  PROVE  StreamInv'
<1>1. Passed
  BY EndsTable
<1>2. CASE Refuse(t)
  <2>1. PICK K \in SUBSET Idle : Dropped(K, {t}) /\ turn[t].pc = "asked"
    BY <1>2, RefuseShape
  <2> QED BY <1>1, <2>1, DroppedStream
<1>3. CASE Broken(t)
  <2>1. Dropped({}, {t}) /\ turn[t].pc = "open"
    BY <1>3, BrokenShape
  <2> QED BY <1>1, <2>1, DroppedStream
<1>4. CASE Leave(t)
  <2>1. Dropped({turn[t].key}, {t}) /\ turn[t].pc = "open"
    BY <1>4, LeaveShape
  <2> QED BY <1>1, <2>1, DroppedStream
<1>5. CASE Reap(t) \/ Revoke(t) \/ ReaderEnds(t)
  <2>1. Dropped({t}, {})
    BY <1>5, EndShape
  <2> QED BY <1>1, <2>1, DroppedStream
<1> QED BY <1>2, <1>3, <1>4, <1>5

LEMMA ProcessStream ==
  ASSUME TableInv, StreamInv, NEW k \in Turns,
         TakeInput(k) \/ Claim(k) \/ Poll(k) \/ HelperGivesUp(k) \/ Exit(k)
  PROVE  StreamInv'
<1>0. Passed
  BY ProcessTable
<1>1. turn' = turn /\ Followed
  BY FollowedFacts DEF TakeInput, Claim, Poll, HelperGivesUp, Exit
<1>2. Types /\ proc \in [Turns -> Tool]
  BY DEF TableInv, Types
<1>3. CASE TakeInput(k) \/ Poll(k) \/ HelperGivesUp(k) \/ Exit(k)
  <2>1. run' = run
    BY <1>3 DEF TakeInput, Poll, HelperGivesUp, Exit
  <2>2. \A j \in Turns : proc'[j].stdout = proc[j].stdout
    <3>1. CASE TakeInput(k) BY <1>2, <3>1, TakeInputFacts
    <3>2. CASE Poll(k) \/ HelperGivesUp(k)
      <4>1. PICK token \in Message : Settle(k, token)
        BY <1>2, <3>2, HelperTypes DEF TableInv
      <4> QED BY <1>2, <4>1, SettleFacts
    <3>3. CASE Exit(k)
      <4>1. proc' = [proc EXCEPT ![k] = [NoProcess EXCEPT !.session = proc[k].session, !.stdout = proc[k].stdout]]
        BY <3>3 DEF Exit
      <4>2. /\ \A j \in Turns : j # k => proc'[j] = proc[j]
            /\ proc'[k] = [NoProcess EXCEPT !.session = proc[k].session, !.stdout = proc[k].stdout]
        BY <1>2, <4>1
      <4>3. proc'[k].stdout = proc[k].stdout
        BY <4>2 DEF NoProcess
      <4> QED BY <4>2, <4>3
    <3> QED BY <1>3, <3>1, <3>2, <3>3
  <2> QED BY <1>0, <1>1, <2>1, <2>2, StillStream
<1>4. CASE Claim(k)
  <2>1. PICK i \in DOMAIN run[k].calls :
          /\ k \in Live /\ run'[k].calls = Claimed(k, i)
          /\ \A j \in Turns : j # k => proc'[j] = proc[j] /\ run'[j] = run[j]
          /\ proc'[k].stdout = proc[k].stdout
          /\ run'[k] # None /\ run'[k].sender = run[k].sender /\ run'[k].parked = run[k].parked
          /\ run'[k].history = run[k].history
    BY <1>2, <1>4, ClaimFacts
  <2>2. Waiting(k) \subseteq Waiting(k)'
    <3>1. PICK new : new = Claimed(k, i)
      OBVIOUS
    <3>2. run[k].calls \in Seq(ToolCall)
      BY <1>2, <2>1, LiveTypes
    <3>3. \A j \in DOMAIN run[k].calls : /\ j \in DOMAIN new /\ new[j].id = run[k].calls[j].id
                                         /\ new[j].result = run[k].calls[j].result
      BY <3>1, <3>2 DEF Claimed, ToolCall
    <3>4. WaitingIn(run[k].calls) \subseteq WaitingIn(new)
      BY <3>3, WaitingFacts
    <3> QED BY <2>1, <3>1, <3>4 DEF Waiting
  <2>3. ASSUME NEW j \in Turns, run'[j] # None
        PROVE  /\ run[j] # None /\ run'[j].sender = run[j].sender /\ run'[j].history = run[j].history
               /\ run'[j].parked = run[j].parked /\ Waiting(j) \subseteq Waiting(j)'
               /\ proc'[j].stdout = proc[j].stdout
    <3>1. CASE j = k BY <2>1, <2>2, <3>1 DEF Live
    <3>2. CASE j # k BY <2>1, <2>3, <3>2, WaitingKept
    <3> QED BY <3>1, <3>2
  <2>4. ASSUME NEW j \in Live, Recorded(j), run'[j] # None
        PROVE  Recorded(j)'
    <3>1. j \in Turns
      BY DEF Live
    <3> QED BY <1>0, <2>3, <2>4, <3>1, RecordedKept
  <2> QED BY <1>0, <1>1, <2>3, <2>4, StreamKept
<1> QED BY <1>3, <1>4

LEMMA SendStream ==
  ASSUME TableInv, StreamInv, NEW k \in Turns, Send(k)
  PROVE  StreamInv'
<1>1. PICK t \in Turns : \E e \in Event :
        /\ turn[t].pc = "open" /\ \A u \in Turns : u # t => turn'[u] = turn[u]
        /\ turn'[t].pc = turn[t].pc /\ turn'[t].key = turn[t].key
        /\ UNCHANGED <<run, proc, answer, file, archive>>
  BY SendFacts DEF TableInv
<1>2. Followed
  BY <1>1, FollowedFacts
<1> QED BY <1>1, <1>2, SendTable, StillStream

LEMMA ReceiveStream ==
  ASSUME TableInv, StreamInv, NEW t \in Turns, Receive(t)
  PROVE  StreamInv'
<1>1. PICK e \in Event :
        /\ turn[t].pc = "open" /\ \A u \in Turns : u # t => turn'[u] = turn[u]
        /\ turn'[t].pc = (IF e.last THEN "done" ELSE "open") /\ turn'[t].key = turn[t].key
        /\ UNCHANGED <<run, proc, reader, answer, file, archive>>
  BY ReceiveFacts DEF TableInv
<1>2. Followed
  BY <1>1, FollowedFacts
<1> QED BY <1>1, <1>2, ReceiveTable, StillStream

LEMMA SaveStream ==
  ASSUME TableInv, StreamInv, NEW k \in Turns, SaveCheckpoint(k)
  PROVE  StreamInv'
<1>1. UNCHANGED <<turn, run, proc, answer, file>>
  BY DEF SaveCheckpoint
<1>2. Followed
  BY <1>1, FollowedFacts
<1> QED BY <1>1, <1>2, SaveTable, StillStream

LEMMA AsksStream ==
  ASSUME TableInv, StreamInv, ~Eager, NEW t \in Turns, NEW prev \in Turns \cup {None}, Asks(t, prev)
  PROVE  StreamInv'
<1>0. Passed
  BY AsksTable
<1>1. /\ turn[t].pc = "new" /\ turn'[t].pc = "asked"
      /\ \A u \in Turns : u # t => turn'[u] = turn[u]
      /\ UNCHANGED <<run, proc, reader, answer, file, archive>>
  BY AsksFacts DEF TableInv
<1>2. \A u \in Turns : turn[u].pc = "done" => turn'[u] = turn[u]
  BY <1>1
<1>3. Follows(t, prev)'
  <2>1. PICK tools \in BOOLEAN : \E saved \in Checkpoint \cup {None} : Asking(t, prev, tools, saved)
    BY AsksShape DEF TableInv
  <2>2. PICK saved \in Checkpoint \cup {None} : Asking(t, prev, tools, saved)
    BY <2>1
  <2>3. /\ turn'[t].messages = Append(Prior(prev), <<IF tools THEN "r" ELSE "u", t>>)
        /\ turn'[t].results = Wanted(tools, prev)
        /\ Prior(prev) \in Seq(Message) /\ <<IF tools THEN "r" ELSE "u", t>> \in Message
        /\ tools => prev # None
    <3>1. turn \in [Turns -> Turn] /\ turn[t] \in Turn
      BY DEF TableInv, Types
    <3> QED BY <2>2, <3>1 DEF Asking, Turn
  <2>4. Front(turn'[t].messages) = Prior(prev)
    BY <2>3, Appended
  <2>5. CASE prev = None
    <3>1. Prior(prev)' = <<>> /\ Prior(prev) = <<>>
      BY <2>5 DEF Prior
    <3>2. Wanted(tools, prev) = {}
      BY <2>3, <2>5 DEF Wanted
    <3> QED BY <2>3, <2>4, <2>5, <3>1, <3>2 DEF Follows
  <2>6. CASE prev # None
    <3>1. prev \in Turns /\ turn[prev].pc = "done" /\ turn[prev].got # None
      BY <2>6 DEF Asks, Answered
    <3>2. turn[prev].got \in Replies /\ turn'[prev] = turn[prev]
      BY <1>2, <3>1 DEF TableInv, Known
    <3>3. Finished(prev)' /\ Prior(prev)' = Prior(prev)
      BY <1>0, <3>1, <3>2 DEF Finished, Prior, Talk, Passed
    <3>4. turn'[t].results # {} => turn'[t].results = answer'[turn'[prev].got].calls
      BY <1>1, <2>3, <3>2 DEF Wanted
    <3> QED BY <2>4, <2>6, <3>3, <3>4 DEF Follows
  <2> QED BY <2>5, <2>6
<1>4. AskedSound'
  <2> SUFFICES ASSUME NEW u \in Turns, turn'[u].pc = "asked"
               PROVE  \E p \in Turns \cup {None} : Follows(u, p)'
    BY DEF AskedSound
  <2>1. CASE u = t BY <1>3, <2>1
  <2>2. CASE u # t
    <3>1. turn'[u] = turn[u]
      BY <1>1, <2>2
    <3>2. PICK p \in Turns \cup {None} : Follows(u, p)
      BY <3>1 DEF StreamInv, AskedSound
    <3>3. Follows(u, p)'
      BY <1>0, <1>2, <3>1, <3>2, FollowsKept
    <3> QED BY <3>3
  <2> QED BY <2>1, <2>2
<1>5. \A k \in Turns : Waiting(k)' = Waiting(k)
  BY <1>1, WaitingKept
<1>6. ASSUME NEW k \in Live
      PROVE  Recorded(k)'
  <2>1. k \in Turns /\ Recorded(k)
    BY DEF Live, StreamInv, CallsSound
  <2> QED BY <1>0, <1>1, <1>5, <2>1, RecordedKept
<1>7. ASSUME NEW u \in Turns, NEW k \in Turns
      PROVE  Draining(u, k)'
  <2>1. Draining(u, k)
    BY DEF StreamInv, DrainSound
  <2>2. turn'[u].pc = "open" => turn[u].pc = "open" /\ turn'[u].key = turn[u].key
    BY <1>1
  <2> QED BY <1>0, <1>1, <1>5, <2>1, <2>2, DrainingKept
<1>8. Live' = Live
  BY <1>1 DEF Live
<1> QED BY <1>4, <1>6, <1>7, <1>8 DEF StreamInv, CallsSound, DrainSound

\* A run that is given to a turn is not what another turn still drains: the end of
\* the answer that turn waits for has not been received, and so nobody asks on.
LEMMA TakenStream ==
  ASSUME TableInv, StreamInv, Passed, NEW t \in Turns, NEW k \in Live, NEW calls \in Seq(ToolCall),
         turn[t].pc = "asked", run[k].sender = None, Taken(k, t, calls),
         \A j \in Turns : proc'[j].stdout = proc[j].stdout,
         \/ ~run[k].parked /\ run[k].history = Front(turn[t].messages)
         \/ /\ run[k].parked /\ turn[t].results # {} /\ turn[t].results = Waiting(k)
  PROVE  StreamInv'
<1>1. /\ \A u \in Turns : u # t => turn'[u] = turn[u]
      /\ turn'[t].pc = "open" /\ turn'[t].key = k
      /\ \A j \in Turns : j # k => run'[j] = run[j]
      /\ run'[k].sender = t /\ run'[k] # None /\ Live' = Live
      /\ UNCHANGED <<reader, answer, file, archive>>
  BY TakenFacts DEF TableInv
<1>2. Followed
  BY <1>1 DEF Followed
<1>3. PICK prev \in Turns \cup {None} : Follows(t, prev)
  BY DEF StreamInv, AskedSound
<1>4. k \in Turns /\ Recorded(k)
  BY DEF Live, StreamInv, CallsSound
\* The answer the request goes on from.
<1>5. prev # None => /\ prev \in Turns /\ turn[prev].pc = "done" /\ turn[prev].got \in Replies
                     /\ At(turn[prev].got, prev)
                     /\ Last(Prior(prev)) = <<"a", turn[prev].got>>
  <2> SUFFICES ASSUME prev # None
               PROVE  /\ prev \in Turns /\ turn[prev].pc = "done" /\ turn[prev].got \in Replies
                      /\ At(turn[prev].got, prev)
                      /\ Last(Prior(prev)) = <<"a", turn[prev].got>>
    OBVIOUS
  <2>1. prev \in Turns /\ turn[prev].pc = "done" /\ turn[prev].got \in Replies
    BY <1>3 DEF Follows, Finished
  <2>2. At(turn[prev].got, prev)
    BY <2>1 DEF At
  <2>3. turn[prev].messages \in Seq(Message) /\ turn[prev].got \in Nat
    <3>1. Types
      BY DEF TableInv
    <3>2. turn[prev].got \in Nat
      BY <2>1 DEF Replies
    <3> QED BY <2>1, <3>1, <3>2, TurnTypes
  <2>4. <<"a", turn[prev].got>> \in Message
    BY <2>3, Messages
  <2>5. Last(turn[prev].messages \o <<<<"a", turn[prev].got>>>>) = <<"a", turn[prev].got>>
    <3>1. PICK c : c = turn[prev].messages
      OBVIOUS
    <3>2. PICK m : m = <<"a", turn[prev].got>>
      OBVIOUS
    <3>3. c \o <<m>> = Append(c, m) /\ Last(Append(c, m)) = m
      BY <2>3, <2>4, <3>1, <3>2, Appended
    <3>4. Last(c \o <<m>>) = m
      BY <3>3
    <3> QED BY <3>1, <3>2, <3>4
  <2>6. Last(Prior(prev)) = <<"a", turn[prev].got>>
    BY <2>1, <2>5, Kinds DEF Prior, Talk
  <2> QED BY <2>1, <2>2, <2>6
<1>6. ASSUME NEW u \in Turns, turn[u].pc = "open", turn[u].key = k
      PROVE  FALSE
  <2>0. run[k].sender # u
    BY Kinds
  <2>1. Drained(u, k)
    BY <1>4, <1>6, <2>0 DEF StreamInv, DrainSound, Draining
  <2>2. PICK m \in Replies :
          /\ run[k].history # <<>> /\ Last(run[k].history) = <<"a", m>>
          /\ \A p \in Turns : (At(m, p) => p = u) /\ ~Unread(m, p)
          /\ run[k].parked => \E c \in Waiting(k) : c[1] = m
    BY <2>1 DEF Drained
  <2>3. prev # None /\ turn[prev].got = m
    <3>1. CASE ~run[k].parked /\ run[k].history = Front(turn[t].messages)
      <4>1. Prior(prev) # <<>> /\ Last(Prior(prev)) = <<"a", m>>
        BY <1>3, <2>2, <3>1 DEF Follows
      <4>2. prev # None
        BY <4>1 DEF Prior
      <4> QED BY <1>5, <4>1, <4>2
    <3>2. CASE run[k].parked /\ turn[t].results # {} /\ turn[t].results = Waiting(k)
      <4>1. prev # None /\ Waiting(k) = answer[turn[prev].got].calls
        BY <1>3, <3>2 DEF Follows
      <4>2. PICK c \in answer[turn[prev].got].calls : c[1] = m
        BY <2>2, <3>2, <4>1
      <4>3. c[1] = turn[prev].got
        BY <1>5, <4>1, <4>2 DEF TableInv, Known
      <4> QED BY <4>1, <4>2, <4>3
    <3> QED BY <3>1, <3>2
  <2> QED BY <1>5, <1>6, <2>2, <2>3
<1>7. Recorded(k)'
  <2>1. Stops(k)' = Stops(k) /\ \A i : Of(k, i)' = Of(k, i)
    BY <1>4, Kept
  <2>2. CASE ~run[k].parked
    <3>1. Stops(k) = {}
      BY <2>2 DEF TableInv, RestSound, Stops
    <3> QED BY <2>1, <3>1 DEF Recorded
  <2>3. CASE run[k].parked /\ turn[t].results # {} /\ turn[t].results = Waiting(k)
    <3> SUFFICES ASSUME NEW i \in Stops(k), NEW c \in answer[Of(k, i)].calls
                 PROVE  \E j \in DOMAIN proc[k].stdout :
                          j < i /\ proc[k].stdout[j].kind = "call" /\ proc[k].stdout[j].call = c
      BY <1>1, <1>4, <2>1 DEF Recorded
    <3>1. CASE c \in Waiting(k)
      <4>1. PICK n : n = Of(k, i)
        OBVIOUS
      <4>2. n \in Replies /\ Unread(n, k)
        BY <1>4, <4>1 DEF TableInv, Known, Unread, Stops
      <4>3. prev # None /\ c \in answer[turn[prev].got].calls
        BY <1>3, <2>3, <3>1 DEF Follows
      <4>4. c[1] = n /\ c[1] = turn[prev].got
        BY <1>5, <4>1, <4>2, <4>3 DEF TableInv, Known
      <4> QED BY <1>4, <1>5, <4>2, <4>3, <4>4 DEF TableInv, Once
    <3>2. CASE c \notin Waiting(k) BY <1>4, <3>2 DEF Recorded
    <3> QED BY <3>1, <3>2
  <2> QED BY <2>2, <2>3
<1>8. ASSUME NEW j \in Turns, j # k
      PROVE  Waiting(j)' = Waiting(j)
  BY <1>1, <1>8, WaitingKept
<1>9. CallsSound'
  <2> SUFFICES ASSUME NEW j \in Live PROVE Recorded(j)'
    BY <1>1 DEF CallsSound
  <2>1. CASE j # k
    <3>1. j \in Turns /\ Recorded(j)
      BY DEF Live, StreamInv, CallsSound
    <3> QED BY <1>8, <2>1, <3>1, RecordedKept
  <2> QED BY <1>7, <2>1
<1>10. DrainSound'
  <2> SUFFICES ASSUME NEW u \in Turns, NEW j \in Turns PROVE Draining(u, j)'
    BY DEF DrainSound
  <2>1. CASE u = t BY <1>1, <2>1 DEF Draining
  <2>2. CASE u # t /\ j = k BY <1>1, <1>6, <2>2 DEF Draining
  <2>3. CASE u # t /\ j # k
    <3>1. Draining(u, j)
      BY DEF StreamInv, DrainSound
    <3>2. turn'[u] = turn[u] /\ run'[j] = run[j]
      BY <1>1, <2>3
    <3> QED BY <1>8, <2>3, <3>1, <3>2, DrainingKept
  <2> QED BY <2>1, <2>2, <2>3
<1> QED BY <1>2, <1>9, <1>10, AskedKept DEF StreamInv

LEMMA ReturnStream ==
  ASSUME TableInv, StreamInv, NEW t \in Turns, ReturnResults(t)
  PROVE  StreamInv'
<1>0. Passed
  BY ReturnTable
<1>1. PICK k \in Live : \E calls \in Seq(ToolCall) :
        /\ turn[t].pc = "asked" /\ turn[t].results # {} /\ run[k].sender = None /\ run[k].parked
        /\ turn[t].results = CallIds(Unanswered(k))
        /\ Taken(k, t, calls) /\ proc' = proc
  BY ReturnFacts DEF TableInv
<1>2. PICK calls \in Seq(ToolCall) :
        /\ turn[t].pc = "asked" /\ turn[t].results # {} /\ run[k].sender = None /\ run[k].parked
        /\ turn[t].results = CallIds(Unanswered(k))
        /\ Taken(k, t, calls) /\ proc' = proc
  BY <1>1
<1>3. CallIds(Unanswered(k)) = Waiting(k)
  BY DEF Unanswered, Waiting, WaitingIn
<1>4. \A j \in Turns : proc'[j].stdout = proc[j].stdout
  BY <1>2
<1>5. run[k].parked /\ turn[t].results # {} /\ turn[t].results = Waiting(k)
  BY <1>2, <1>3
<1> QED BY <1>0, <1>2, <1>4, <1>5, TakenStream

LEMMA ContinueStream ==
  ASSUME TableInv, StreamInv, NEW t \in Turns, Continue(t)
  PROVE  StreamInv'
<1>0. Passed
  BY ContinueTable
<1>1. PICK k \in Live :
        /\ turn[t].pc = "asked" /\ run[k].sender = None /\ ~run[k].parked
        /\ run[k].history = Front(turn[t].messages)
        /\ Taken(k, t, <<>>)
        /\ proc' = [proc EXCEPT ![k].stdin = Append(@, <<"u", t>>)]
  BY ContinueFacts DEF TableInv
<1>2. /\ k \in Turns /\ proc[k] \in Tool /\ proc \in [Turns -> Tool]
  BY LiveTypes DEF TableInv, Types
<1>3. PICK stdin : stdin = Append(proc[k].stdin, <<"u", t>>)
  OBVIOUS
<1>4. /\ \A j \in Turns \ {k} : proc'[j] = proc[j]
      /\ proc'[k] = [proc[k] EXCEPT !.stdin = stdin]
  BY <1>1, <1>2, <1>3
<1>5. proc'[k].stdout = proc[k].stdout
  BY <1>2, <1>4 DEF Tool
<1>6. \A j \in Turns : proc'[j].stdout = proc[j].stdout
  BY <1>4, <1>5
<1>7. <<>> \in Seq(ToolCall)
  OBVIOUS
<1> QED BY <1>0, <1>1, <1>6, <1>7, TakenStream

\* A new run has nothing behind it.
LEMMA SpawnStream ==
  ASSUME TableInv, StreamInv, NEW t \in Turns, Spawn(t)
  PROVE  StreamInv'
<1>0. Passed
  BY SpawnTable
<1>1. PICK K \in SUBSET Idle :
           /\ turn[t].pc = "asked" /\ turn[t].results = {} /\ ~Full(K) /\ Reusable(t) = {}
           /\ Types'
           /\ \A u \in Turns : u # t => turn'[u] = turn[u]
           /\ turn'[t].pc = "open" /\ turn'[t].key = t /\ turn'[t].saved = None
           /\ turn'[t].channel = turn[t].channel /\ turn'[t].got = turn[t].got
           /\ turn'[t].messages = turn[t].messages /\ turn'[t].results = turn[t].results
           /\ \A j \in Turns : j # t /\ j \in K => run'[j] = None /\ proc'[j] = NoProcess
           /\ \A j \in Turns : j # t /\ j \notin K => run'[j] = run[j] /\ proc'[j] = proc[j]
           /\ run'[t] = [sender |-> t, history |-> turn[t].messages, calls |-> <<>>,
                         parked |-> FALSE, terminal |-> FALSE]
           /\ proc'[t] = Fresh(t)
           /\ Live' = (Live \ K) \cup {t}
           /\ UNCHANGED <<reader, answer, archive>>
  BY SpawnFacts
<1>2. Followed
  BY <1>1 DEF Followed
<1>3. AskedSound'
  BY <1>0, <1>2, AskedKept DEF StreamInv
<1>4. Stops(t)' = {}
  <2>1. turn[t].messages # <<>> /\ Types
    BY <1>1 DEF TableInv, AskedFull
  <2>2. Fresh(t).stdout = <<>>
    BY <2>1, FreshFacts
  <2>3. DOMAIN proc'[t].stdout = {}
    BY <1>1, <2>2
  <2> QED BY <2>3 DEF Stops
<1>5. run'[t].sender = t
  BY <1>1
<1>6. ASSUME NEW j \in Turns, j # t, run'[j] # None
      PROVE  run'[j] = run[j] /\ run[j] # None /\ proc'[j] = proc[j] /\ Waiting(j)' = Waiting(j)
  <2>1. run'[j] = run[j] /\ proc'[j] = proc[j]
    BY <1>1, <1>6
  <2> QED BY <1>6, <2>1, WaitingKept
<1>7. CallsSound'
  <2> SUFFICES ASSUME NEW j \in Turns, run'[j] # None PROVE Recorded(j)'
    BY DEF CallsSound, Live
  <2>1. CASE j = t BY <1>4, <2>1 DEF Recorded
  <2>2. CASE j # t
    <3>1. run[j] # None /\ proc'[j].stdout = proc[j].stdout /\ Waiting(j) \subseteq Waiting(j)'
      BY <1>6, <2>2
    <3>2. Recorded(j)
      BY <3>1 DEF StreamInv, CallsSound, Live
    <3> QED BY <1>0, <3>1, <3>2, RecordedKept
  <2> QED BY <2>1, <2>2
<1>8. DrainSound'
  <2> SUFFICES ASSUME NEW u \in Turns, NEW j \in Turns PROVE Draining(u, j)'
    BY DEF DrainSound
  <2>1. CASE u # t /\ j # t
    <3>1. Draining(u, j)
      BY DEF StreamInv, DrainSound
    <3>2. turn'[u] = turn[u]
      BY <1>1, <2>1
    <3>3. run'[j] # None =>
           /\ run[j] # None /\ run'[j].sender = run[j].sender /\ run'[j].history = run[j].history
           /\ run'[j].parked = run[j].parked /\ Waiting(j) \subseteq Waiting(j)'
      BY <1>6, <2>1
    <3> QED BY <1>0, <3>1, <3>2, <3>3, DrainingKept
  <2>2. CASE u # t /\ j = t
    <3>1. turn[u].key # t
      BY <1>1, AskedFacts
    <3>2. turn'[u].key # t
      BY <1>1, <2>2, <3>1
    <3> QED BY <2>2, <3>2 DEF Draining
  <2>3. CASE u = t BY <1>1, <1>5, <2>3 DEF Draining
  <2> QED BY <2>1, <2>2, <2>3
<1> QED BY <1>3, <1>7, <1>8 DEF StreamInv

\* The calls of a new answer come before its end.
LEMMA GenerateStream ==
  ASSUME TableInv, StreamInv, NEW k \in Turns, Generate(k)
  PROVE  StreamInv'
<1>0. Passed
  BY GenerateTable
<1>1. PICK size \in Nat : \E n \in Nat : Generating(k, size, n) /\ Written(k, size, n)
  BY GenerateShape DEF TableInv
<1>2. PICK n \in Nat : Generating(k, size, n) /\ Written(k, size, n)
  BY <1>1
<1>3. PICK m \in Nat : Extended(k, size, n, m)
  BY <1>2, GeneratedStops DEF TableInv
<1>4. /\ answer'[n].calls = {<<n, i>> : i \in 1 .. size}
      /\ \A j \in Turns : j # k => proc'[j] = proc[j]
      /\ UNCHANGED <<turn, run>>
  BY <1>2 DEF Generating
<1>5. Followed
  BY <1>4, FollowedFacts
<1>6. /\ DOMAIN proc[k].stdout = 1 .. m
      /\ DOMAIN proc'[k].stdout = 1 .. m + size + (IF size = 0 THEN 2 ELSE 1)
      /\ \A i \in 1 .. m : proc'[k].stdout[i] = proc[k].stdout[i] /\ Of(k, i)' = Of(k, i)
      /\ \A i \in 1 .. size : proc'[k].stdout[m + i] = OutputLine("call", n, <<n, i>>)
      /\ Of(k, m + size + 1)' = n
      /\ Stops(k)' = Stops(k) \cup {m + size + 1}
  BY <1>3 DEF Extended
<1>7. \A j \in Turns : Waiting(j)' = Waiting(j)
  BY <1>4, WaitingKept
<1>8. ASSUME NEW j \in Live, Recorded(j)
      PROVE  Recorded(j)'
  <2>1. j \in Turns
    BY DEF Live
  <2>2. CASE j # k BY <1>0, <1>4, <1>7, <1>8, <2>1, <2>2, RecordedKept
  <2>3. CASE j = k
    <3> SUFFICES ASSUME NEW i \in Stops(k)', NEW c \in answer'[Of(k, i)'].calls
                 PROVE  \/ \E l \in DOMAIN proc'[k].stdout :
                             l < i /\ proc'[k].stdout[l].kind = "call" /\ proc'[k].stdout[l].call = c
                        \/ c \in Waiting(k)'
      BY <2>3 DEF Recorded
    <3>1. CASE i \in Stops(k)
      <4>1. i \in 1 .. m
        BY <1>6, <3>1 DEF Stops
      <4>2. Of(k, i) \in Replies
        BY <3>1 DEF TableInv, Known, Stops
      <4>3. c \in answer[Of(k, i)].calls
        BY <1>0, <1>6, <4>1, <4>2 DEF Passed
      <4>4. CASE c \in Waiting(k) BY <1>7, <4>4
      <4>5. CASE c \notin Waiting(k)
        <5>1. PICK l \in DOMAIN proc[k].stdout :
                l < i /\ proc[k].stdout[l].kind = "call" /\ proc[k].stdout[l].call = c
          BY <1>8, <2>3, <3>1, <4>3, <4>5 DEF Recorded
        <5>2. l \in 1 .. m /\ l \in DOMAIN proc'[k].stdout
          BY <1>6, <5>1
        <5>3. proc'[k].stdout[l] = proc[k].stdout[l]
          BY <1>6, <5>2
        <5> QED BY <5>1, <5>2, <5>3
      <4> QED BY <4>4, <4>5
    <3>2. CASE i = m + size + 1
      <4>1. PICK x \in 1 .. size : c = <<n, x>>
        BY <1>4, <1>6, <3>2
      <4>2. PICK l : l = m + x
        OBVIOUS
      <4>3. l < i /\ l \in DOMAIN proc'[k].stdout
        BY <1>6, <3>2, <4>2
      <4>4. proc'[k].stdout[l] = OutputLine("call", n, c)
        BY <1>6, <4>1, <4>2
      <4>5. proc'[k].stdout[l].kind = "call" /\ proc'[k].stdout[l].call = c
        BY <4>4 DEF OutputLine
      <4> QED BY <4>3, <4>5
    <3> QED BY <1>6, <3>1, <3>2
  <2> QED BY <2>2, <2>3
<1>9. \A j \in Turns : run'[j] # None =>
        /\ run[j] # None /\ run'[j].sender = run[j].sender /\ run'[j].history = run[j].history
        /\ run'[j].parked = run[j].parked /\ Waiting(j) \subseteq Waiting(j)'
  BY <1>4, <1>7
<1>10. \A t \in Turns : turn'[t].pc = "open" => turn[t].pc = "open" /\ turn'[t].key = turn[t].key
  BY <1>4
<1> QED BY <1>0, <1>5, <1>8, <1>9, <1>10, StreamKept

\* A call that is read waits for a result; the end that is read is the last one
\* of the turn the run was of.
LEMMA ReadStream ==
  ASSUME TableInv, StreamInv, Passed, NEW k \in Live, UNCHANGED <<turn, answer>>,
         proc[k].stdout # <<>>, proc'[k].stdout = Tail(proc[k].stdout),
         \A j \in Turns \ {k} : proc'[j] = proc[j] /\ run'[j] = run[j],
         run'[k] # None, Waiting(k) \subseteq Waiting(k)',
         Line(k).kind = "call" => Line(k).call \in Waiting(k)',
         \A n : Line(k).kind = "stop" /\ n = Line(k).answer =>
           /\ n \in Replies /\ \A t \in Turns : At(n, t)' => t = run[k].sender
           /\ \A j \in Turns : ~Unread(n, j)',
         IF Line(k).kind = "stop"
         THEN /\ run'[k].sender = None /\ (run'[k].parked <=> answer[Line(k).answer].calls # {})
              /\ run'[k].history = Append(run[k].history, <<"a", Line(k).answer>>)
         ELSE run'[k].sender = run[k].sender /\ run'[k].parked = run[k].parked /\ run'[k].history = run[k].history
  PROVE  StreamInv'
<1>1. k \in Turns /\ Live' = Live
  BY DEF Live
<1>2. Types /\ Followed
  BY FollowedFacts DEF TableInv
<1>3. Shifts(k)
  BY <1>1, <1>2, Shifted
<1>4. DOMAIN proc[k].stdout \subseteq Nat \ {0}
  <2>1. proc[k].stdout \in Seq(Output)
    BY <1>2, <1>1, LiveTypes
  <2> QED BY <2>1
<1>5. AskedSound'
  BY <1>2, AskedKept DEF StreamInv
<1>6. \A j \in Turns : j # k => run'[j] = run[j] /\ proc'[j] = proc[j] /\ Waiting(j)' = Waiting(j)
  BY WaitingKept
<1>7. Recorded(k)
  BY DEF StreamInv, CallsSound
<1>8. Recorded(k)'
  <2> SUFFICES ASSUME NEW i \in Stops(k)', NEW c \in answer'[Of(k, i)'].calls, c \notin Waiting(k)'
               PROVE  \E j \in DOMAIN proc'[k].stdout :
                        j < i /\ proc'[k].stdout[j].kind = "call" /\ proc'[k].stdout[j].call = c
    BY DEF Recorded
  <2>1. i \in Nat \ {0} /\ i + 1 \in Stops(k) /\ Of(k, i)' = Of(k, i + 1)
    BY <1>3 DEF Shifts
  <2>2. c \in answer[Of(k, i + 1)].calls /\ c \notin Waiting(k)
    BY <2>1
  <2>3. PICK j \in DOMAIN proc[k].stdout :
          j < i + 1 /\ proc[k].stdout[j].kind = "call" /\ proc[k].stdout[j].call = c
    BY <1>7, <2>1, <2>2 DEF Recorded
  <2>4. j # 1
    BY <1>3, <2>3 DEF Shifts
  <2>5. PICK l \in Nat \ {0} : j = l + 1
    <3>1. j \in Nat \ {0}
      BY <1>4
    <3>2. j - 1 \in Nat \ {0} /\ j = (j - 1) + 1
      BY <2>4, <3>1
    <3> QED BY <3>2
  <2>6. l \in DOMAIN proc'[k].stdout /\ proc'[k].stdout[l] = proc[k].stdout[j]
    BY <1>3, <2>5 DEF Shifts
  <2>7. l < i
    BY <2>1, <2>3, <2>5
  <2> QED BY <2>3, <2>6, <2>7
<1>9. CallsSound'
  <2> SUFFICES ASSUME NEW j \in Live PROVE Recorded(j)'
    BY <1>1 DEF CallsSound
  <2>1. j \in Turns /\ Recorded(j)
    BY DEF Live, StreamInv, CallsSound
  <2>2. CASE j # k BY <1>6, <2>1, <2>2, RecordedKept
  <2> QED BY <1>8, <2>2
<1>10. ASSUME NEW u \in Turns, Line(k).kind = "stop", turn'[u].pc = "open", turn'[u].key = k
       PROVE  Drained(u, k)'
  <2>1. PICK n : n = Line(k).answer
    OBVIOUS
  <2>2. n \in Replies /\ n \in Replies' /\ \A j \in Turns : ~Unread(n, j)'
    BY <1>10, <2>1 DEF Passed
  <2>3. \A p \in Turns : At(n, p)' => p = u
    <3>1. CASE run[k].sender = u BY <1>10, <2>1, <3>1
    <3>2. CASE run[k].sender # u
      <4>1. run[k].sender = None
        BY <1>1, <1>10, <3>2 DEF StreamInv, DrainSound, Draining
      <4> QED BY <1>10, <2>1, <4>1, Kinds
    <3> QED BY <3>1, <3>2
  <2>4. run'[k].history # <<>> /\ Last(run'[k].history) = <<"a", n>>
    <3>1. PICK h : h = run[k].history
      OBVIOUS
    <3>2. h \in Seq(Message) /\ n \in Nat
      BY <1>2, <2>2, <3>1, LiveTypes DEF Replies
    <3>3. PICK msg : msg = <<"a", n>>
      OBVIOUS
    <3>4. msg \in Message
      BY <3>2, <3>3, Messages
    <3>5. Append(h, msg) # <<>> /\ Last(Append(h, msg)) = msg
      BY <3>2, <3>4, Appended
    <3>6. run'[k].history = Append(h, msg)
      BY <1>10, <2>1, <3>1, <3>3
    <3> QED BY <3>3, <3>5, <3>6
  <2>5. ASSUME run'[k].parked
        PROVE  \E c \in Waiting(k)' : c[1] = n
    <3>1. PICK c \in answer[n].calls : TRUE
      BY <1>10, <2>1, <2>5
    <3>2. c[1] = n
      BY <2>2, <3>1 DEF TableInv, Known
    <3>3. 1 \in Stops(k) /\ Of(k, 1) = n
      BY <1>3, <1>10, <2>1 DEF Shifts
    <3>4. ~\E j \in DOMAIN proc[k].stdout : j < 1
      BY <1>4
    <3>5. c \in Waiting(k)
      BY <1>7, <3>1, <3>3, <3>4 DEF Recorded
    <3> QED BY <3>2, <3>5
  <2> QED BY <2>2, <2>3, <2>4, <2>5 DEF Drained
<1>11. DrainSound'
  <2> SUFFICES ASSUME NEW u \in Turns, NEW j \in Turns PROVE Draining(u, j)'
    BY DEF DrainSound
  <2>1. Draining(u, j)
    BY DEF StreamInv, DrainSound
  <2>2. CASE j # k
    <3>1. run'[j] = run[j] /\ Waiting(j)' = Waiting(j)
      BY <1>6, <2>2
    <3> QED BY <2>1, <3>1, DrainingKept
  <2>3. CASE j = k /\ Line(k).kind = "stop" BY <1>10, <2>3 DEF Draining
  <2>4. CASE j = k /\ Line(k).kind # "stop"
    <3>1. run[j] # None
      BY <2>4 DEF Live
    <3> QED BY <2>1, <2>4, <3>1, DrainingKept
  <2> QED BY <2>2, <2>3, <2>4
<1> QED BY <1>5, <1>9, <1>11 DEF StreamInv

LEMMA ReadingStream ==
  ASSUME TableInv, StreamInv, NEW k \in Turns, ReadEvent(k) \/ ReadResult(k)
  PROVE  StreamInv'
<1>0. /\ Passed
      /\ \A n : Line(k).kind = "stop" /\ n = Line(k).answer =>
           /\ n \in Replies /\ \A t \in Turns : At(n, t)' => t = run[k].sender
           /\ \A j \in Turns : ~Unread(n, j)'
  BY ReadingTable
<1>1. CASE ReadEvent(k)
  <2>1. /\ k \in Live /\ proc[k].stdout # <<>> /\ Line(k).kind # "result"
        /\ proc'[k].stdout = Tail(proc[k].stdout)
        /\ \A j \in Turns \ {k} : proc'[j] = proc[j] /\ run'[j] = run[j]
        /\ IF Line(k).kind = "stop"
            THEN /\ run'[k].sender = None /\ (run'[k].parked <=> answer[Line(k).answer].calls # {})
                 /\ run'[k].history = Append(run[k].history, <<"a", Line(k).answer>>)
                 /\ run'[k].calls = run[k].calls
            ELSE /\ run'[k].sender = run[k].sender /\ run'[k].parked = run[k].parked
                 /\ run'[k].history = run[k].history
                 /\ run'[k].calls = Append(run[k].calls, [id |-> Line(k).call, claimed |-> FALSE, result |-> None])
        /\ UNCHANGED <<turn, answer>>
    BY <1>1, ReadEventFacts DEF TableInv, EventRead
  <2>2. run'[k] # None
    BY <1>1, ReadEventTypes, Kinds DEF TableInv
  <2>3. Line(k).kind \in {"call", "stop", "result"}
    <3>1. proc[k].stdout \in Seq(Output)
      BY <2>1, LiveTypes DEF TableInv
    <3>2. Line(k) \in Output
      BY <2>1, <3>1 DEF Line
    <3> QED BY <3>2 DEF Output
  <2>4. /\ Waiting(k) \subseteq Waiting(k)'
        /\ Line(k).kind = "call" => Line(k).call \in Waiting(k)'
    <3>1. CASE Line(k).kind = "stop" BY <2>1, <3>1 DEF Waiting
    <3>2. CASE Line(k).kind = "call"
      <4>1. PICK old, entry, new :
              /\ old = run[k].calls /\ entry = [id |-> Line(k).call, claimed |-> FALSE, result |-> None]
              /\ new = Append(old, entry)
        OBVIOUS
      <4>2. old \in Seq(ToolCall)
        BY <2>1, <4>1, LiveTypes DEF TableInv
      <4>3. /\ \A i \in DOMAIN old : i \in DOMAIN new /\ new[i] = old[i]
            /\ Len(old) + 1 \in DOMAIN new /\ new[Len(old) + 1] = entry
        BY <4>1, <4>2
      <4>4. entry.id = Line(k).call /\ entry.result = None
        BY <4>1
      <4>5. WaitingIn(old) \subseteq WaitingIn(new) /\ Line(k).call \in WaitingIn(new)
        BY <4>3, <4>4, WaitingFacts
      <4> QED BY <2>1, <3>2, <4>1, <4>5 DEF Waiting
    <3> QED BY <2>1, <2>3, <3>1, <3>2
  <2> QED BY <1>0, <2>1, <2>2, <2>4, ReadStream
<1>2. CASE ReadResult(k)
  <2>1. /\ k \in Live /\ proc[k].stdout # <<>> /\ Line(k).kind = "result"
        /\ proc'[k].stdout = Tail(proc[k].stdout)
        /\ \A j \in Turns \ {k} : proc'[j] = proc[j]
        /\ UNCHANGED <<turn, run, answer>>
    BY <1>2, ReadResultFacts DEF TableInv, ResultRead
  <2>2. run'[k] # None /\ \A j \in Turns \ {k} : run'[j] = run[j]
    BY <2>1 DEF Live
  <2>3. Waiting(k)' = Waiting(k)
    BY <2>1 DEF Waiting
  <2> QED BY <1>0, <2>1, <2>2, <2>3, ReadStream
<1> QED BY <1>1, <1>2

-----------------------------------------------------------------------------
(* A run that answers a turn is kept *)

LEMMA InitStream ==
  Init => StreamInv
<1> SUFFICES ASSUME Init PROVE StreamInv
  OBVIOUS
<1>1. \A t \in Turns : turn[t].pc = "new" /\ run[t] = None
  BY DEF Init, NewTurn
<1>2. Live = {}
  BY <1>1 DEF Live
<1> QED BY <1>1, <1>2 DEF StreamInv, AskedSound, CallsSound, DrainSound, Draining

LEMMA StutterStream ==
  ASSUME TableInv, StreamInv, UNCHANGED vars
  PROVE  StreamInv'
<1>1. turn' = turn /\ run' = run /\ proc' = proc
  BY DEF vars
<1>2. Followed
  BY <1>1, FollowedFacts
<1>3. Passed
  BY StutterTable
<1> QED BY <1>1, <1>2, <1>3, StillStream

LEMMA StepStream ==
  TableInv /\ StreamInv /\ ~Eager /\ [Next]_vars => StreamInv'
<1> SUFFICES ASSUME TableInv, StreamInv, ~Eager, [Next]_vars PROVE StreamInv'
  OBVIOUS
<1>1. ASSUME NEW t \in Turns, NEW prev \in Turns \cup {None}, Asks(t, prev) PROVE StreamInv'
  BY <1>1, AsksStream
<1>2. ASSUME NEW t \in Turns, Open(t) PROVE StreamInv'
  BY <1>2, ReturnStream, ContinueStream, SpawnStream, EndsStream DEF Open
<1>3. ASSUME NEW t \in Turns, Process(t) PROVE StreamInv'
  BY <1>3, GenerateStream, ProcessStream DEF Process
<1>4. ASSUME NEW t \in Turns, Reader(t) PROVE StreamInv'
  BY <1>4, ReadingStream, SendStream, SaveStream, EndsStream DEF Reader
<1>5. ASSUME NEW t \in Turns, Receive(t) \/ Broken(t) \/ Leave(t) \/ Reap(t) \/ Revoke(t)
      PROVE  StreamInv'
  BY <1>5, ReceiveStream, EndsStream
<1>6. CASE UNCHANGED vars BY <1>6, StutterStream
<1> QED BY <1>1, <1>2, <1>3, <1>4, <1>5, <1>6 DEF Next

\* The end of a run in use.
Ends(k) ==
  run[k].sender # None /\ run'[k] = None =>
    \/ turn'[run[k].sender].pc # "open"
    \/ proc[k].pc = "dead"
    \/ Revoke(k)

LEMMA OpenEnds ==
  ASSUME TableInv, NEW k \in Live, NEW t \in Turns, Open(t)
  PROVE  Ends(k)
<1>1. k \in Turns /\ run[k] # None
  BY DEF Live
<1>2. CASE ReturnResults(t)
  <2>1. PICK j \in Live : \E calls \in Seq(ToolCall) :
          /\ turn[t].pc = "asked" /\ turn[t].results # {} /\ run[j].sender = None /\ run[j].parked
          /\ turn[t].results = CallIds(Unanswered(j))
          /\ Taken(j, t, calls) /\ proc' = proc
    BY <1>2, ReturnFacts DEF TableInv
  <2>2. PICK calls \in Seq(ToolCall) : Taken(j, t, calls)
    BY <2>1
  <2>3. Live' = Live
    BY <2>2, TakenFacts DEF TableInv
  <2> QED BY <1>1, <2>3 DEF Ends, Live
<1>3. CASE Continue(t)
  <2>1. PICK j \in Live : Taken(j, t, <<>>)
    BY <1>3, ContinueFacts DEF TableInv
  <2>2. <<>> \in Seq(ToolCall)
    OBVIOUS
  <2>3. Live' = Live
    BY <2>1, <2>2, TakenFacts DEF TableInv
  <2> QED BY <1>1, <2>3 DEF Ends, Live
<1>4. CASE Spawn(t)
  <2>1. PICK K \in SUBSET Idle : ~Full(K) /\ Live' = (Live \ K) \cup {t}
    BY <1>4, SpawnLive
  <2>2. K \subseteq Idle
    BY <2>1
  <2>3. run'[k] = None => k \in K
    BY <1>1, <2>1 DEF Live
  <2> QED BY <2>2, <2>3 DEF Ends, Idle
<1>5. CASE Refuse(t)
  <2>1. PICK K \in SUBSET Idle : Dropped(K, {t})
    BY <1>5, RefuseShape
  <2>2. \A j \in Turns : j \notin K => run'[j] = run[j]
    BY <2>1, DroppedFacts DEF TableInv
  <2> QED BY <1>1, <2>2 DEF Ends, Idle
<1> QED BY <1>2, <1>3, <1>4, <1>5 DEF Open

LEMMA ProcessEnds ==
  ASSUME TableInv, NEW k \in Live, NEW j \in Turns, Process(j) \/ Send(j) \/ ReadEvent(j) \/ ReadResult(j) \/ SaveCheckpoint(j)
  PROVE  Ends(k)
<1>1. k \in Turns /\ run[k] # None
  BY DEF Live
<1>2. CASE Claim(j)
  <2>1. PICK i \in DOMAIN run[j].calls :
          /\ \A l \in Turns : l # j => proc'[l] = proc[l] /\ run'[l] = run[l]
          /\ run'[j] # None
    BY <1>2, ClaimFacts DEF TableInv
  <2> QED BY <1>1, <2>1 DEF Ends
<1>3. CASE ReadEvent(j)
  <2>1. \A l \in Turns \ {j} : run'[l] = run[l]
    BY <1>3, ReadEventFacts DEF TableInv, EventRead
  <2>2. run'[j] # None
    BY <1>3, ReadEventTypes, Kinds DEF TableInv
  <2> QED BY <1>1, <2>1, <2>2 DEF Ends
<1>4. CASE TakeInput(j) \/ Generate(j) \/ Poll(j) \/ HelperGivesUp(j) \/ Exit(j) \/ Send(j) \/ ReadResult(j) \/ SaveCheckpoint(j)
  <2>1. run' = run
    BY <1>4 DEF TakeInput, Generate, Poll, HelperGivesUp, Exit, Send, ReadResult, SaveCheckpoint
  <2> QED BY <1>1, <2>1 DEF Ends
<1> QED BY <1>2, <1>3, <1>4 DEF Process

LEMMA DropEnds ==
  ASSUME TableInv, StreamInv, NEW k \in Live, NEW t \in Turns,
         ReaderEnds(t) \/ Broken(t) \/ Leave(t) \/ Reap(t) \/ Revoke(t)
  PROVE  Ends(k)
<1>1. k \in Turns /\ run[k] # None
  BY DEF Live
<1>2. CASE Leave(t)
  <2>1. Dropped({turn[t].key}, {t}) /\ turn[t].pc = "open"
    BY <1>2, LeaveShape
  <2>2. /\ \A j \in Turns : j \notin {turn[t].key} => run'[j] = run[j]
        /\ turn'[t].pc = "failed"
    BY <2>1, DroppedFacts DEF TableInv
  <2>3. CASE turn[t].key # k BY <1>1, <2>2, <2>3 DEF Ends
  <2>4. CASE turn[t].key = k /\ run[k].sender = t BY <2>2, <2>4 DEF Ends
  <2>5. CASE turn[t].key = k /\ run[k].sender # t
    <3>1. run[k].sender = None
      BY <1>1, <2>1, <2>5 DEF StreamInv, DrainSound, Draining
    <3> QED BY <3>1 DEF Ends
  <2> QED BY <2>3, <2>4, <2>5
<1>3. CASE Broken(t)
  <2>1. run' = run
    BY <1>3 DEF Broken
  <2> QED BY <1>1, <2>1 DEF Ends
<1>4. CASE Reap(t) \/ Revoke(t) \/ ReaderEnds(t)
  <2>1. Dropped({t}, {})
    BY <1>4, EndShape
  <2>2. \A j \in Turns : j \notin {t} => run'[j] = run[j]
    BY <2>1, DroppedFacts DEF TableInv
  <2>3. CASE k # t BY <1>1, <2>2, <2>3 DEF Ends
  <2>4. CASE k = t /\ Reap(t) BY <2>4 DEF Ends, Reap, Idle
  <2>5. CASE k = t /\ Revoke(t) BY <2>5 DEF Ends
  <2>6. CASE k = t /\ ReaderEnds(t)
    <3>1. CASE proc[t].pc = "dead" BY <2>6, <3>1 DEF Ends
    <3>2. CASE Sends(t) /\ turn[reader[t].to].pc # "open"
      <4>1. reader[t].to \in Turns
        BY <3>2, ReaderTypes DEF TableInv
      <4>2. FALSE
        BY <2>6, <3>2, <4>1 DEF TableInv, ReaderSound
      <4> QED BY <4>2
    <3> QED BY <2>6, <3>1, <3>2 DEF ReaderEnds
  <2> QED BY <1>4, <2>3, <2>4, <2>5, <2>6
<1> QED BY <1>2, <1>3, <1>4

LEMMA StepEnds ==
  TableInv /\ StreamInv /\ [Next]_vars => [\A k \in Live : Ends(k)]_vars
<1> SUFFICES ASSUME TableInv, StreamInv, Next, NEW k \in Live PROVE Ends(k)
  OBVIOUS
<1>1. ASSUME NEW t \in Turns, NEW prev \in Turns \cup {None}, Asks(t, prev) PROVE Ends(k)
  <2>1. run' = run /\ run[k] # None
    BY <1>1 DEF Asks, Live
  <2> QED BY <2>1 DEF Ends
<1>2. ASSUME NEW t \in Turns, Open(t) PROVE Ends(k)
  BY <1>2, OpenEnds
<1>3. ASSUME NEW t \in Turns, Process(t) \/ Reader(t) PROVE Ends(k)
  BY <1>3, ProcessEnds, DropEnds DEF Reader
<1>4. ASSUME NEW t \in Turns, Receive(t) PROVE Ends(k)
  <2>1. run' = run /\ run[k] # None
    BY <1>4 DEF Receive, Live
  <2> QED BY <2>1 DEF Ends
<1>5. ASSUME NEW t \in Turns, Broken(t) \/ Leave(t) \/ Reap(t) \/ Revoke(t) PROVE Ends(k)
  BY <1>5, DropEnds
<1> QED BY <1>1, <1>2, <1>3, <1>4, <1>5 DEF Next

\* Where each client reads an answer to its end before it goes on, a request goes
\* on from a finished answer, the calls of an answer are recorded before its end
\* is read, and a stream whose run is no longer its own keeps that run from all
\* others until it ends (open_report, read_events, SegmentStream).
THEOREM StreamsHold ==
  ~Eager => (Spec => []StreamInv)
<1> SUFFICES ASSUME ~Eager PROVE Spec => []StreamInv
  OBVIOUS
<1>1. TableInv /\ StreamInv /\ [Next]_vars => StreamInv'
  BY StepStream
<1> QED BY <1>1, InitStream, TableHolds, PTL DEF Spec

\* ActiveKept: no other turn takes a run that answers one: not by eviction, the
\* reaper, or the late drop of the stream of an earlier turn
\* (open_report, SegmentStream::drop).
THEOREM ActiveStays ==
  ~Eager => (Spec => ActiveKept)
<1> SUFFICES ASSUME ~Eager PROVE Spec => ActiveKept
  OBVIOUS
<1>1. Spec => []StreamInv
  BY StreamsHold
<1>2. TableInv /\ StreamInv /\ [Next]_vars =>
        [\A k \in Live :
           run[k].sender # None /\ run'[k] = None =>
             \/ turn'[run[k].sender].pc # "open"
             \/ proc[k].pc = "dead"
             \/ Revoke(k)]_vars
  BY StepEnds DEF Ends
<1> QED BY <1>1, <1>2, TableHolds, PTL DEF Spec, ActiveKept

-----------------------------------------------------------------------------
(* Whose conversation an answer is to *)

\* An error of the helper is in the conversation.
HasX(c) == \E i \in DOMAIN c : c[i][1] = "x"

\* One answer after another: what a process that went on by itself leaves.
Twice(c) == \E i \in 2 .. Len(c) : c[i - 1][1] = "a" /\ c[i][1] = "a"

\* The last message came from the helper: an error, or what followed one.
Given(own) == own # <<>> /\ (Last(own)[1] = "x" \/ (Last(own)[1] = "s" /\ HasX(Front(own))))

\* The conversation a process has after answer n.
Said(n) == Append(answer[n].to, <<"a", n>>)

\* The messages of a request end with its own.
ClientSound ==
  \A t \in Turns : turn[t].pc \in {"asked", "open", "done"} =>
    /\ turn[t].messages # <<>> /\ ~Twice(turn[t].messages)
    /\ Last(turn[t].messages) = <<IF Text(t) THEN "u" ELSE "r", t>>

SavedSound ==
  \A t \in Turns : turn[t].saved # None =>
    turn[t].pc = "asked" /\ Same(turn[t].saved.transcript.tip, Front(turn[t].messages))

SentSound ==
  \A k \in Turns : Sends(k) /\ turn[reader[k].to].pc = "open" =>
    Same(answer[reader[k].event.answer].to, turn[reader[k].to].messages)

SaveSound ==
  \A k \in Turns : Saves(k) =>
    /\ reader[k].answer \in Replies
    /\ Twice(reader[k].history) \/ Same(Said(reader[k].answer), reader[k].history)

\* A transcript that ends with an answer ends with all that came before it.
FileSound ==
  \A s \in Turns : \A n \in Nat :
    file[s].tip # <<>> /\ Last(file[s].tip) = <<"a", n>> => n \in Replies /\ file[s].tip = Said(n)

ArchiveSound ==
  \A c \in archive : Twice(c.history) \/ Same(c.transcript.tip, c.history)

-----------------------------------------------------------------------------
(* A run and its process *)

\* The run is nobody's, at the end of answer e.
RestsAt(k, e) ==
  /\ run[k].history # <<>> /\ Last(run[k].history) = <<"a", e>>
  /\ Twice(run[k].history) \/ Same(answer[e].to, Front(run[k].history))
  /\ run[k].parked <=> answer[e].calls # {}
  /\ run[k].parked => /\ answer[e].calls \subseteq Waiting(k)
                      /\ Twice(run[k].history) => \E c \in Waiting(k) : c[1] # e
  /\ \A j \in Turns : ~Unread(e, j)
  /\ \A p \in Turns : At(e, p) /\ turn[p].pc \in {"open", "done"} =>
       run[k].history = Append(turn[p].messages, <<"a", e>>)

Posted(k) ==
  IF run[k].sender = None THEN \E e \in Replies : RestsAt(k, e)
  ELSE run[k].history = turn[run[k].sender].messages /\ ~run[k].parked /\ ~run[k].terminal

\* A message on its way to the process is the last one of the request.
InputTalk(k) ==
  proc[k].stdin # <<>> =>
    Stops(k) = {} /\ run[k].sender # None /\ proc[k].stdin = <<Last(run[k].history)>>

FirstStop(k, i) == i \in Stops(k) /\ \A j \in Stops(k) : i <= j
LastStop(k, i) == i \in Stops(k) /\ \A j \in Stops(k) : j <= i

\* What the next end of an answer is to, and the run's conversation.
Fits(own, k) ==
  IF run[k].sender # None THEN Same(own, run[k].history)
  ELSE Twice(run[k].history) \/ (Given(own) /\ Same(Front(own), run[k].history))

\* What has been said, where no answer is on its way.
Reached(own, k) ==
  IF run[k].sender # None THEN Same(own, Front(run[k].history))
  ELSE Twice(run[k].history) \/ Same(own, run[k].history)

Ahead(k) ==
  /\ \A i \in Stops(k) : FirstStop(k, i) => Fits(answer[Of(k, i)].to, k)
  /\ Stops(k) = {} =>
       /\ proc[k].pc = "busy" => Fits(proc[k].talk, k)
       /\ proc[k].pc \in {"tools", "idle"} => Reached(proc[k].talk, k)
       /\ proc[k].pc = "tools" /\ run[k].sender # None => Last(run[k].history)[1] = "r"

\* One answer follows another in the output only where the process went on by
\* itself in between.
Linked(k) ==
  \A j \in Stops(k) : FirstStop(k, j) \/
    \E i \in Stops(k) : /\ i < j /\ \A s \in Stops(k) : s < j => s <= i
                        /\ Given(answer[Of(k, j)].to) /\ Front(answer[Of(k, j)].to) = Said(Of(k, i))

Tied(k) ==
  Stops(k) # {} =>
    \E i \in Stops(k) :
      /\ LastStop(k, i)
      /\ proc[k].pc = "busy" => Given(proc[k].talk) /\ Front(proc[k].talk) = Said(Of(k, i))
      /\ proc[k].pc \in {"tools", "idle"} => proc[k].talk = Said(Of(k, i))

\* The lines of an answer: the calls, the end, the result.
LinesTalk(k) ==
  \A i \in DOMAIN proc[k].stdout :
    /\ proc[k].stdout[i].kind = "call" =>
         /\ proc[k].stdout[i].call[1] = Of(k, i)
         /\ \E j \in Stops(k) : /\ i < j /\ Of(k, j) = Of(k, i)
                                /\ \A s \in Stops(k) : i < s => j <= s
    /\ proc[k].stdout[i].kind = "result" =>
         IF i = 1 THEN run[k].terminal /\ ~run[k].parked => Last(run[k].history) = <<"a", Of(k, 1)>>
         ELSE i - 1 \in Stops(k) /\ Of(k, i - 1) = Of(k, i)

\* The helper works through the calls of the last answer, in order; an error
\* marks the results of all of them.
Works(k, n) ==
  /\ proc[k].talk = Said(n) /\ proc[k].todo # <<>>
  /\ \A i \in DOMAIN proc[k].todo : proc[k].todo[i] = <<n, proc[k].todo[1][2] + i - 1>>
  /\ \/ proc[k].token \in {None, <<"x", 0>>}
     \/ proc[k].token = <<"s", 0>> /\ HasX(proc[k].talk)
     \/ run[k].sender # None /\ proc[k].token = <<"r", run[k].sender>> /\ Stops(k) = {}
  /\ Stops(k) = {} => \A c \in Range(run[k].calls) : c.id[1] = n /\ c.result # None => c.result = run[k].sender

HelperTalk(k) ==
  IF proc[k].pc = "tools" THEN \E n \in Replies : Works(k, n)
  ELSE proc[k].todo = <<>> /\ proc[k].held = None /\ proc[k].token = None

\* The calls recorded are of known answers; those of an unread answer have no result.
CallsTalk(k) ==
  \A c \in Range(run[k].calls) :
    c.id[1] \in Replies /\ (Unread(c.id[1], k) => c.result = None)

\* The calls that are not claimed yet, recorded (from d + 1 on) or in the output
\* (after o lines), are those of answer n from first to last, in order.
Lined(calls, out, n, first, last, d, o) ==
  /\ d <= Len(calls)
  /\ \A i \in DOMAIN calls : i <= d => calls[i].claimed
  /\ \A i \in DOMAIN calls : i > d =>
       /\ ~calls[i].claimed /\ calls[i].id = <<n, first + i - d - 1>> /\ first + i - d - 1 <= last
  /\ \A j \in DOMAIN out : out[j].kind = "call" =>
       /\ out[j].call = <<n, first + Len(calls) - d + j - o - 1>>
       /\ first + Len(calls) - d + j - o - 1 <= last

Aligned(k, n, first, last, d, o) == Lined(run[k].calls, proc[k].stdout, n, first, last, d, o)

\* A result that has not been read comes before what is counted.
Offset(k) == IF proc[k].stdout # <<>> /\ proc[k].stdout[1].kind = "result" THEN 1 ELSE 0

Align(k) ==
  ~HasX(proc[k].talk) =>
    /\ proc[k].pc = "tools" /\ proc[k].token # <<"x", 0>> =>
         /\ proc[k].held # None => proc[k].held = proc[k].todo[1]
         /\ \E d \in Nat :
              Aligned(k, proc[k].todo[1][1],
                      proc[k].todo[1][2] + (IF proc[k].held = None THEN 0 ELSE 1),
                      proc[k].todo[1][2] + Len(proc[k].todo) - 1, d, Offset(k))
    /\ proc[k].pc \in {"idle", "busy"} =>
         /\ \A i \in DOMAIN run[k].calls : run[k].calls[i].claimed
         /\ \A j \in DOMAIN proc[k].stdout : proc[k].stdout[j].kind # "call"

RunTalk(k) ==
  /\ Posted(k) /\ InputTalk(k) /\ Ahead(k) /\ Linked(k) /\ Tied(k) /\ LinesTalk(k)
  /\ HelperTalk(k) /\ CallsTalk(k) /\ Align(k)

RunsTalk == \A k \in Live : RunTalk(k)

TalkInv ==
  /\ ClientSound /\ SavedSound /\ SentSound /\ SaveSound /\ FileSound /\ ArchiveSound
  /\ RunsTalk /\ Continuity

-----------------------------------------------------------------------------
(* Conversations that are the same *)

\* One message more.
IsGrown(c, m, n, d) ==
  /\ d \in Seq(Message) /\ d # <<>> /\ n = Len(c)
  /\ DOMAIN c = 1 .. n /\ DOMAIN d = 1 .. n + 1 /\ Len(d) = n + 1
  /\ \A i \in 1 .. n : d[i] = c[i]
  /\ d[n + 1] = m /\ Last(d) = m /\ Front(d) = c
  /\ (n > 0 => c # <<>> /\ Last(c) = c[n]) /\ (n = 0 => c = <<>>)

LEMMA Grown ==
  ASSUME NEW c \in Seq(Message), NEW m \in Message
  PROVE  \E n \in Nat : IsGrown(c, m, n, Append(c, m))
<1>1. PICK n \in Nat : n = Len(c)
  OBVIOUS
<1>2. PICK d : d = Append(c, m)
  OBVIOUS
<1>3. /\ DOMAIN c = 1 .. n /\ DOMAIN d = 1 .. n + 1 /\ d[n + 1] = m
      /\ (n = 0 => c = <<>>)
  BY <1>1, <1>2
<1>4. n > 0 => c # <<>> /\ Last(c) = c[n]
  BY <1>1 DEF Last
<1>5. /\ d \in Seq(Message) /\ d # <<>> /\ Len(d) = n + 1
      /\ Last(d) = m /\ Front(d) = c /\ \A i \in 1 .. n : d[i] = c[i]
  BY <1>1, <1>2, Appended
<1>6. IsGrown(c, m, n, d)
  BY <1>1, <1>3, <1>4, <1>5 DEF IsGrown
<1> QED BY <1>2, <1>6

LEMMA TwiceGrown ==
  ASSUME NEW c \in Seq(Message), NEW m \in Message
  PROVE  Twice(Append(c, m)) <=> Twice(c) \/ (c # <<>> /\ Last(c)[1] = "a" /\ m[1] = "a")
<1>1. PICK n \in Nat : IsGrown(c, m, n, Append(c, m))
  BY Grown
<1>2. PICK d : d = Append(c, m) /\ IsGrown(c, m, n, d)
  BY <1>1
<1>3. ASSUME Twice(c) PROVE Twice(d)
  <2>1. PICK i \in 2 .. n : c[i - 1][1] = "a" /\ c[i][1] = "a"
    BY <1>2, <1>3 DEF Twice, IsGrown
  <2>2. i - 1 \in 1 .. n /\ i \in 1 .. n /\ i \in 2 .. Len(d)
    BY <1>2, <2>1 DEF IsGrown
  <2>3. d[i - 1][1] = "a" /\ d[i][1] = "a"
    BY <1>2, <2>1, <2>2 DEF IsGrown
  <2> QED BY <2>2, <2>3 DEF Twice
<1>4. ASSUME c # <<>>, Last(c)[1] = "a", m[1] = "a" PROVE Twice(d)
  <2>1. n > 0
    BY <1>2, <1>4 DEF IsGrown
  <2>2. n + 1 \in 2 .. Len(d) /\ n \in 1 .. n /\ (n + 1) - 1 = n
    BY <1>2, <2>1 DEF IsGrown
  <2>3. d[n][1] = "a" /\ d[n + 1][1] = "a"
    BY <1>2, <1>4, <2>1, <2>2 DEF IsGrown
  <2> QED BY <2>2, <2>3 DEF Twice
<1>5. ASSUME Twice(d) PROVE Twice(c) \/ (c # <<>> /\ Last(c)[1] = "a" /\ m[1] = "a")
  <2>1. PICK i \in 2 .. n + 1 : d[i - 1][1] = "a" /\ d[i][1] = "a"
    BY <1>2, <1>5 DEF Twice, IsGrown
  <2>2. CASE i = n + 1
    <3>1. n > 0 /\ n \in 1 .. n /\ i - 1 = n
      BY <2>1, <2>2
    <3> QED BY <1>2, <2>1, <2>2, <3>1 DEF IsGrown
  <2>3. CASE i # n + 1
    <3>1. i \in 2 .. n /\ i - 1 \in 1 .. n /\ i \in 1 .. n
      BY <2>1, <2>3
    <3>2. c[i - 1][1] = "a" /\ c[i][1] = "a"
      BY <1>2, <2>1, <3>1 DEF IsGrown
    <3>3. i \in 2 .. Len(c)
      BY <1>2, <3>1 DEF IsGrown
    <3> QED BY <3>2, <3>3 DEF Twice
  <2> QED BY <2>2, <2>3
<1> QED BY <1>2, <1>3, <1>4, <1>5

LEMMA HasXGrown ==
  ASSUME NEW c \in Seq(Message), NEW m \in Message
  PROVE  HasX(Append(c, m)) <=> HasX(c) \/ m[1] = "x"
<1>1. PICK n \in Nat : IsGrown(c, m, n, Append(c, m))
  BY Grown
<1>2. PICK d : d = Append(c, m) /\ IsGrown(c, m, n, d)
  BY <1>1
<1>3. DOMAIN d = DOMAIN c \cup {n + 1}
  BY <1>2 DEF IsGrown
<1>4. HasX(d) <=> HasX(c) \/ m[1] = "x"
  BY <1>2, <1>3 DEF HasX, IsGrown
<1> QED BY <1>2, <1>4

LEMMA GivenGrown ==
  ASSUME NEW c \in Seq(Message), NEW m \in Message
  PROVE  Given(Append(c, m)) <=> m[1] = "x" \/ (m[1] = "s" /\ HasX(c))
<1>1. PICK d : d = Append(c, m)
  OBVIOUS
<1>2. d # <<>> /\ Last(d) = m /\ Front(d) = c
  BY <1>1, Appended
<1>3. Given(d) <=> m[1] = "x" \/ (m[1] = "s" /\ HasX(c))
  BY <1>2 DEF Given
<1> QED BY <1>1, <1>3

LEMMA GivenHasX ==
  ASSUME NEW c \in Seq(Message), Given(c)
  PROVE  HasX(c)
<1>1. c # <<>>
  BY DEF Given
<1>2. PICK b, m : b = Front(c) /\ m = Last(c)
  OBVIOUS
<1>3. b \in Seq(Message) /\ m \in Message /\ c = Append(b, m)
  BY <1>1, <1>2, FrontAndLast
<1>4. m[1] = "x" \/ HasX(b)
  BY <1>2 DEF Given
<1> QED BY <1>3, <1>4, HasXGrown

LEMMA SameSelf ==
  ASSUME NEW c \in Seq(Message)
  PROVE  Same(c, c)
<1> QED BY DEF Same

\* Both go on with the same message, or one with results and the other with what
\* the helper said instead.
LEMMA SameGrown ==
  ASSUME NEW own \in Seq(Message), NEW client \in Seq(Message), NEW m \in Message, NEW r \in Message,
         Same(own, client),
         m = r \/ (r[1] = "r" /\ (m[1] = "x" \/ (m[1] = "s" /\ HasX(own))))
  PROVE  Same(Append(own, m), Append(client, r))
<1>1. PICK n \in Nat : IsGrown(own, m, n, Append(own, m))
  BY Grown
<1>2. PICK a : a = Append(own, m) /\ IsGrown(own, m, n, a)
  BY <1>1
<1>3. PICK l \in Nat : IsGrown(client, r, l, Append(client, r))
  BY Grown
<1>4. PICK b : b = Append(client, r) /\ IsGrown(client, r, l, b)
  BY <1>3
<1>5. /\ n = l /\ Len(a) = n + 1 /\ Len(b) = n + 1 /\ DOMAIN a = 1 .. n + 1
      /\ DOMAIN own = 1 .. n
      /\ \A i \in 1 .. n : a[i] = own[i] /\ b[i] = client[i]
      /\ a[n + 1] = m /\ b[n + 1] = r
  BY <1>2, <1>4 DEF IsGrown, Same
<1>6. ASSUME NEW i \in 1 .. n + 1
      PROVE  \/ a[i] = b[i]
             \/ b[i][1] = "r" /\ a[i][1] = "x"
             \/ b[i][1] = "r" /\ a[i][1] = "s" /\ \E j \in 1 .. i - 1 : a[j][1] = "x"
  <2>1. CASE i = n + 1
    <3>1. i - 1 = n
      BY <2>1
    <3>2. HasX(own) => \E j \in 1 .. i - 1 : a[j][1] = "x"
      BY <1>5, <3>1 DEF HasX
    <3> QED BY <1>5, <2>1, <3>2
  <2>2. CASE i # n + 1
    <3>1. i \in 1 .. n
      BY <2>2
    <3>2. \/ own[i] = client[i]
          \/ client[i][1] = "r" /\ own[i][1] = "x"
          \/ client[i][1] = "r" /\ own[i][1] = "s" /\ \E j \in 1 .. i - 1 : own[j][1] = "x"
      BY <1>5, <3>1 DEF Same
    <3>3. (\E j \in 1 .. i - 1 : own[j][1] = "x") => \E j \in 1 .. i - 1 : a[j][1] = "x"
      <4>1. \A j \in 1 .. i - 1 : j \in 1 .. n
        BY <3>1
      <4> QED BY <1>5, <4>1
    <3> QED BY <1>5, <3>1, <3>2, <3>3
  <2> QED BY <2>1, <2>2
<1>7. Same(a, b)
  BY <1>5, <1>6 DEF Same
<1> QED BY <1>2, <1>4, <1>7

\* The client's results take the place of what the helper said instead.
LEMMA SameGiven ==
  ASSUME NEW own \in Seq(Message), NEW client \in Seq(Message), NEW r \in Message, r[1] = "r",
         Given(own), Same(Front(own), client)
  PROVE  Same(own, Append(client, r))
<1>1. PICK b, m : b = Front(own) /\ m = Last(own)
  OBVIOUS
<1>2. own # <<>>
  BY DEF Given
<1>3. b \in Seq(Message) /\ m \in Message /\ own = Append(b, m)
  BY <1>1, <1>2, FrontAndLast
<1>4. m[1] = "x" \/ (m[1] = "s" /\ HasX(b))
  BY <1>1 DEF Given
<1>5. Same(Append(b, m), Append(client, r))
  BY <1>1, <1>3, <1>4, SameGrown
<1> QED BY <1>3, <1>5

\* What a process has said, and the conversation that continues with it.
LEMMA SaidFacts ==
  ASSUME Types, NEW n \in Replies
  PROVE  /\ answer[n].to \in Seq(Message) /\ <<"a", n>> \in Message /\ n \in Nat
         /\ Said(n) \in Seq(Message) /\ Said(n) # <<>> /\ Last(Said(n)) = <<"a", n>>
         /\ Front(Said(n)) = answer[n].to
         /\ HasX(Said(n)) <=> HasX(answer[n].to)
<1>1. n \in Nat /\ answer[n] \in Reply
  BY DEF Types, Replies
<1>2. answer[n].to \in Seq(Message)
  BY <1>1 DEF Reply, Conversation
<1>3. PICK m : m = <<"a", n>>
  OBVIOUS
<1>4. m \in Message /\ m[1] = "a"
  BY <1>1, <1>3, Messages
<1>5. PICK c : c = answer[n].to
  OBVIOUS
<1>6. /\ Append(c, m) \in Seq(Message) /\ Append(c, m) # <<>> /\ Last(Append(c, m)) = m
      /\ Front(Append(c, m)) = c
      /\ HasX(Append(c, m)) <=> HasX(c)
  BY <1>2, <1>4, <1>5, Appended, HasXGrown
<1>7. Said(n) = Append(c, m)
  BY <1>3, <1>5 DEF Said
<1> QED BY <1>1, <1>2, <1>3, <1>4, <1>5, <1>6, <1>7

LEMMA SameSaid ==
  ASSUME Types, NEW n \in Replies, NEW c \in Seq(Message), Same(answer[n].to, c)
  PROVE  Same(Said(n), Append(c, <<"a", n>>))
<1>1. answer[n].to \in Seq(Message) /\ <<"a", n>> \in Message
  BY SaidFacts
<1> QED BY <1>1, SameGrown DEF Said

\* One answer is said once.
LEMMA SaidOnce ==
  ASSUME Types, NEW n \in Replies, NEW m \in Replies, Said(n) = Said(m)
  PROVE  n = m
<1>1. <<"a", n>> = <<"a", m>>
  BY SaidFacts
<1> QED BY <1>1

-----------------------------------------------------------------------------
(* What a step leaves as it is *)

\* The requests that have been told of are those there were.
Told ==
  \A p \in Turns : turn'[p].pc \in {"open", "done"} =>
    turn[p].pc \in {"asked", "open", "done"} /\ turn'[p].messages = turn[p].messages

\* No request is new.
Heard ==
  \A t \in Turns : turn'[t].pc \in {"asked", "open", "done"} =>
    /\ turn[t].pc \in {"asked", "open", "done"}
    /\ turn'[t].messages = turn[t].messages /\ turn'[t].results = turn[t].results

LEMMA HeardTold ==
  Heard => Told
<1> QED BY DEF Heard, Told

LEMMA ClientKept ==
  ASSUME ClientSound, Heard
  PROVE  ClientSound'
<1> SUFFICES ASSUME NEW t \in Turns, turn'[t].pc \in {"asked", "open", "done"}
             PROVE  /\ turn'[t].messages # <<>> /\ ~Twice(turn'[t].messages)
                    /\ Last(turn'[t].messages) = <<IF turn'[t].results = {} THEN "u" ELSE "r", t>>
  BY DEF ClientSound, Text
<1>1. /\ turn[t].pc \in {"asked", "open", "done"}
      /\ turn'[t].messages = turn[t].messages /\ turn'[t].results = turn[t].results
  BY DEF Heard
<1>2. /\ turn[t].messages # <<>> /\ ~Twice(turn[t].messages)
      /\ Last(turn[t].messages) = <<IF turn[t].results = {} THEN "u" ELSE "r", t>>
  BY <1>1 DEF ClientSound, Text
<1> QED BY <1>1, <1>2

LEMMA SavedKept ==
  ASSUME SavedSound,
         \A t \in Turns : turn'[t].saved # None =>
           /\ turn'[t].saved = turn[t].saved /\ turn'[t].pc = turn[t].pc
           /\ turn'[t].messages = turn[t].messages
  PROVE  SavedSound'
<1> SUFFICES ASSUME NEW t \in Turns, turn'[t].saved # None
             PROVE  turn'[t].pc = "asked" /\ Same(turn'[t].saved.transcript.tip, Front(turn'[t].messages))
  BY DEF SavedSound
<1>1. /\ turn'[t].saved = turn[t].saved /\ turn'[t].pc = turn[t].pc
      /\ turn'[t].messages = turn[t].messages
  OBVIOUS
<1>2. turn[t].pc = "asked" /\ Same(turn[t].saved.transcript.tip, Front(turn[t].messages))
  BY <1>1 DEF SavedSound
<1> QED BY <1>1, <1>2

LEMMA SaidKept ==
  ASSUME Passed, NEW n \in Replies
  PROVE  n \in Replies' /\ answer'[n].to = answer[n].to /\ answer'[n].calls = answer[n].calls
         /\ Said(n)' = Said(n)
<1>1. n \in Replies' /\ answer'[n] = answer[n]
  BY DEF Passed
<1> QED BY <1>1 DEF Said

LEMMA SentKept ==
  ASSUME TableInv, SentSound, Passed, Told,
         \A k \in Turns : Sends(k)' => Sends(k) /\ reader'[k] = reader[k]
  PROVE  SentSound'
<1> SUFFICES ASSUME NEW k \in Turns, Sends(k)', turn'[reader'[k].to].pc = "open"
             PROVE  Same(answer'[reader'[k].event.answer].to, turn'[reader'[k].to].messages)
  BY DEF SentSound
<1>1. Sends(k) /\ reader'[k] = reader[k]
  OBVIOUS
<1>2. PICK t, n : t = reader[k].to /\ n = reader[k].event.answer
  OBVIOUS
<1>3. t \in Turns
  BY <1>1, <1>2, ReaderTypes DEF TableInv
<1>4. turn[t].pc \in {"asked", "open", "done"} /\ turn'[t].messages = turn[t].messages
  BY <1>1, <1>2, <1>3 DEF Told
<1>5. turn[t].pc = "open"
  BY <1>1, <1>2, <1>3, <1>4 DEF TableInv, ReaderSound
<1>6. n \in Replies
  BY <1>1, <1>2 DEF TableInv, Known
<1>7. Same(answer[n].to, turn[t].messages)
  BY <1>1, <1>2, <1>5 DEF SentSound
<1> QED BY <1>1, <1>2, <1>4, <1>6, <1>7, SaidKept

LEMMA SaveKept ==
  ASSUME SaveSound, Passed,
         \A k \in Turns : Saves(k)' => Saves(k) /\ reader'[k] = reader[k]
  PROVE  SaveSound'
<1>1. ASSUME NEW k \in Turns, Saves(k)'
      PROVE  /\ reader'[k].answer \in Replies'
             /\ Twice(reader'[k].history) \/ Same(Append(answer'[reader'[k].answer].to, <<"a", reader'[k].answer>>), reader'[k].history)
  <2>1. Saves(k) /\ reader'[k] = reader[k]
    BY <1>1
  <2>2. PICK n : n = reader[k].answer
    OBVIOUS
  <2>3. n \in Replies /\ (Twice(reader[k].history) \/ Same(Said(n), reader[k].history))
    BY <2>1, <2>2 DEF SaveSound
  <2>4. n \in Replies' /\ answer'[n].to = answer[n].to
    BY <2>3, SaidKept
  <2> QED BY <2>1, <2>2, <2>3, <2>4 DEF Said
<1> QED BY <1>1 DEF SaveSound, Said

\* A transcript that is written to, kept, or gone.
LEMMA FileKept ==
  ASSUME FileSound, Passed,
         \A s \in Turns :
           \/ file'[s] \in {file[s], NoFile}
           \/ file'[s].tip # <<>> /\ Last(file'[s].tip)[1] # "a"
           \/ \E n \in Nat : /\ n \in Replies' /\ file'[s].tip = Said(n)'
                             /\ Last(file'[s].tip) = <<"a", n>>
  PROVE  FileSound'
<1> SUFFICES ASSUME NEW s \in Turns, NEW n \in Nat, file'[s].tip # <<>>, Last(file'[s].tip) = <<"a", n>>
             PROVE  n \in Replies' /\ file'[s].tip = Said(n)'
  BY DEF FileSound
<1>1. CASE file'[s] \in {file[s], NoFile}
  <2>1. file'[s] = file[s]
    BY <1>1 DEF NoFile
  <2>2. n \in Replies /\ file[s].tip = Said(n)
    BY <2>1 DEF FileSound
  <2> QED BY <2>1, <2>2, SaidKept
<1>2. CASE Last(file'[s].tip)[1] # "a" BY <1>2
<1>3. CASE \E m \in Nat : /\ m \in Replies' /\ file'[s].tip = Said(m)'
                          /\ Last(file'[s].tip) = <<"a", m>>
  <2>1. PICK m \in Nat : m \in Replies' /\ file'[s].tip = Said(m)' /\ Last(file'[s].tip) = <<"a", m>>
    BY <1>3
  <2>2. m = n
    BY <2>1
  <2> QED BY <2>1, <2>2
<1> QED BY <1>1, <1>2, <1>3

LEMMA ContinuityKept ==
  ASSUME TableInv, Continuity, Passed,
         \A t \in Turns : \/ turn'[t].channel = <<>>
                          \/ turn'[t].channel = turn[t].channel /\ turn'[t].messages = turn[t].messages
                          \/ \A e \in Range(turn'[t].channel) : Same(answer'[e.answer].to, turn'[t].messages)
  PROVE  Continuity'
<1> SUFFICES ASSUME NEW t \in Turns, NEW e \in Range(turn'[t].channel)
             PROVE  Same(answer'[e.answer].to, turn'[t].messages)
  BY DEF Continuity
<1>1. PICK i \in DOMAIN turn'[t].channel : e = turn'[t].channel[i]
  BY DEF Range
<1>2. turn'[t].channel # <<>>
  BY <1>1
<1>3. CASE \A f \in Range(turn'[t].channel) : Same(answer'[f.answer].to, turn'[t].messages) BY <1>3
<1>4. CASE turn'[t].channel = turn[t].channel /\ turn'[t].messages = turn[t].messages
  <2>1. e \in Range(turn[t].channel) /\ e.answer \in Replies
    BY <1>1, <1>4 DEF Range, TableInv, Known
  <2>2. Same(answer[e.answer].to, turn[t].messages)
    BY <2>1 DEF Continuity
  <2> QED BY <1>4, <2>1, <2>2, SaidKept
<1> QED BY <1>2, <1>3, <1>4

\* A turn with the last event of an answer was open.
LEMMA AtOpen ==
  ASSUME TableInv, NEW n, NEW p \in Turns, At(n, p)
  PROVE  turn[p].pc \notin {"new", "asked"}
<1> SUFFICES ASSUME turn[p].pc \in {"new", "asked"} PROVE FALSE
  OBVIOUS
<1>1. turn[p].channel = <<>> /\ \A j \in Turns : Sends(j) => reader[j].to # p
  BY AskedFacts
<1>2. DOMAIN turn[p].channel = {}
  BY <1>1
<1> QED BY <1>1, <1>2 DEF At

LEMMA RestsKept ==
  ASSUME TableInv, Passed, Told, NEW k \in Turns, NEW e \in Replies, RestsAt(k, e),
         run'[k].history = run[k].history, run'[k].parked = run[k].parked,
         Waiting(k) \subseteq Waiting(k)'
  PROVE  RestsAt(k, e)'
<1>1. e \in Replies' /\ answer'[e].to = answer[e].to /\ answer'[e].calls = answer[e].calls
  BY SaidKept
<1>2. /\ run[k].history # <<>> /\ Last(run[k].history) = <<"a", e>>
      /\ Twice(run[k].history) \/ Same(answer[e].to, Front(run[k].history))
      /\ run[k].parked <=> answer[e].calls # {}
      /\ run[k].parked => /\ answer[e].calls \subseteq Waiting(k)
                          /\ Twice(run[k].history) => \E c \in Waiting(k) : c[1] # e
      /\ \A j \in Turns : ~Unread(e, j)
      /\ \A p \in Turns : At(e, p) /\ turn[p].pc \in {"open", "done"} =>
           run[k].history = Append(turn[p].messages, <<"a", e>>)
  BY DEF RestsAt
<1>3. \A j \in Turns : ~Unread(e, j)'
  BY <1>2 DEF Passed
<1>4. ASSUME NEW p \in Turns, At(e, p)', turn'[p].pc \in {"open", "done"}
      PROVE  run[k].history = Append(turn'[p].messages, <<"a", e>>)
  <2>1. At(e, p)
    BY <1>2, <1>4 DEF Passed
  <2>2. turn[p].pc \in {"open", "done"} /\ turn'[p].messages = turn[p].messages
    BY <1>4, <2>1, AtOpen DEF Told
  <2> QED BY <1>2, <2>1, <2>2
<1>5. /\ Twice(run'[k].history) \/ Same(answer'[e].to, Front(run'[k].history))
      /\ run'[k].parked <=> answer'[e].calls # {}
      /\ run'[k].parked => /\ answer'[e].calls \subseteq Waiting(k)'
                           /\ Twice(run'[k].history) => \E c \in Waiting(k)' : c[1] # e
  BY <1>1, <1>2
<1> QED BY <1>2, <1>3, <1>4, <1>5 DEF RestsAt

LEMMA PostedKept ==
  ASSUME TableInv, TableInv', Passed, Told, NEW k \in Live, Posted(k),
         run'[k] # None, run'[k].sender = run[k].sender, run'[k].history = run[k].history,
         run'[k].parked = run[k].parked, run'[k].terminal = run[k].terminal,
         Waiting(k) \subseteq Waiting(k)'
  PROVE  Posted(k)'
<1>0. k \in Turns
  BY DEF Live
<1>1. CASE run[k].sender = None
  <2>1. PICK e \in Replies : RestsAt(k, e)
    BY <1>1 DEF Posted
  <2>2. RestsAt(k, e)' /\ e \in Replies'
    BY <1>0, <2>1, RestsKept, SaidKept
  <2> QED BY <1>1, <2>2 DEF Posted
<1>2. CASE run[k].sender # None
  <2>1. PICK t : t = run[k].sender
    OBVIOUS
  <2>2. t \in Turns
    BY <1>2, <2>1, LiveTypes DEF TableInv
  <2>3. k \in Live'
    BY <1>0 DEF Live
  <2>4. turn'[t].pc = "open"
    BY <2>1, <2>2, <2>3 DEF TableInv, SenderSound
  <2>5. turn'[t].messages = turn[t].messages
    BY <2>2, <2>4 DEF Told
  <2>6. run[k].history = turn[t].messages /\ ~run[k].parked /\ ~run[k].terminal
    BY <1>2, <2>1 DEF Posted
  <2>7. PICK u : u = run'[k].sender
    OBVIOUS
  <2> QED BY <1>2, <2>1, <2>5, <2>6 DEF Posted
<1> QED BY <1>1, <1>2

\* The output is as it was, and so are the answers it ends.
LEMMA OutputKept ==
  ASSUME TableInv, Passed, NEW k \in Turns, proc'[k].stdout = proc[k].stdout
  PROVE  /\ Stops(k)' = Stops(k) /\ \A i : Of(k, i)' = Of(k, i)
         /\ \A i : (FirstStop(k, i)' <=> FirstStop(k, i)) /\ (LastStop(k, i)' <=> LastStop(k, i))
         /\ \A i \in Stops(k) : /\ Of(k, i) \in Replies /\ answer'[Of(k, i)].to = answer[Of(k, i)].to
                                /\ Said(Of(k, i))' = Said(Of(k, i))
         /\ Offset(k)' = Offset(k)
<1>1. Stops(k)' = Stops(k) /\ \A i : Of(k, i)' = Of(k, i)
  BY Kept
<1>2. \A i : (FirstStop(k, i)' <=> FirstStop(k, i)) /\ (LastStop(k, i)' <=> LastStop(k, i))
  BY <1>1 DEF FirstStop, LastStop
<1>3. ASSUME NEW i \in Stops(k)
      PROVE  /\ Of(k, i) \in Replies /\ answer'[Of(k, i)].to = answer[Of(k, i)].to
             /\ Append(answer'[Of(k, i)].to, <<"a", Of(k, i)>>) = Append(answer[Of(k, i)].to, <<"a", Of(k, i)>>)
  <2>1. Of(k, i) \in Replies
    BY DEF Stops, TableInv, Known
  <2> QED BY <2>1 DEF Passed
<1>4. \A i \in Stops(k) : Said(Of(k, i))' = Said(Of(k, i))
  BY <1>1, <1>3 DEF Said
<1>5. Offset(k)' = Offset(k)
  BY DEF Offset
<1> QED BY <1>1, <1>2, <1>3, <1>4, <1>5

LEMMA AheadKept ==
  ASSUME TableInv, Passed, NEW k \in Turns, Ahead(k), proc'[k].stdout = proc[k].stdout,
         proc'[k].pc = proc[k].pc, proc'[k].talk = proc[k].talk,
         run'[k].sender = run[k].sender, run'[k].history = run[k].history
  PROVE  Ahead(k)'
<1>1. /\ Stops(k)' = Stops(k) /\ \A i : Of(k, i)' = Of(k, i)
      /\ \A i : FirstStop(k, i)' <=> FirstStop(k, i)
      /\ \A i \in Stops(k) : answer'[Of(k, i)].to = answer[Of(k, i)].to
  BY OutputKept
<1>2. \A own : (Fits(own, k)' <=> Fits(own, k)) /\ (Reached(own, k)' <=> Reached(own, k))
  BY DEF Fits, Reached
<1>3. \A i \in Stops(k)' : FirstStop(k, i)' => Fits(answer[Of(k, i)].to, k)'
  BY <1>1, <1>2 DEF Ahead, Fits
<1> QED BY <1>1, <1>2, <1>3 DEF Ahead

LEMMA LinkedKept ==
  ASSUME TableInv, Passed, NEW k \in Turns, Linked(k), proc'[k].stdout = proc[k].stdout
  PROVE  Linked(k)'
<1>1. /\ Stops(k)' = Stops(k) /\ \A i : Of(k, i)' = Of(k, i)
      /\ \A i : FirstStop(k, i)' <=> FirstStop(k, i)
      /\ \A i \in Stops(k) : answer'[Of(k, i)].to = answer[Of(k, i)].to /\ Said(Of(k, i))' = Said(Of(k, i))
  BY OutputKept
<1>2. SUFFICES ASSUME NEW j \in Stops(k)', ~FirstStop(k, j)'
               PROVE  \E i \in Stops(k)' :
                        /\ i < j /\ \A s \in Stops(k)' : s < j => s <= i
                        /\ Given(answer'[Of(k, j)'].to) /\ Front(answer'[Of(k, j)'].to) = Said(Of(k, i))'
  BY DEF Linked
<1>3. PICK i \in Stops(k) :
        /\ i < j /\ \A s \in Stops(k) : s < j => s <= i
        /\ Given(answer[Of(k, j)].to) /\ Front(answer[Of(k, j)].to) = Said(Of(k, i))
  BY <1>1, <1>2 DEF Linked
<1>4. answer'[Of(k, j)'].to = answer[Of(k, j)].to /\ Said(Of(k, i))' = Said(Of(k, i))
  BY <1>1, <1>2
<1> QED BY <1>1, <1>2, <1>3, <1>4

LEMMA TiedKept ==
  ASSUME TableInv, Passed, NEW k \in Turns, Tied(k), proc'[k].stdout = proc[k].stdout,
         proc'[k].pc = "dead" \/ (proc'[k].pc = proc[k].pc /\ proc'[k].talk = proc[k].talk)
  PROVE  Tied(k)'
<1>1. /\ Stops(k)' = Stops(k) /\ \A i : Of(k, i)' = Of(k, i)
      /\ \A i : LastStop(k, i)' <=> LastStop(k, i)
      /\ \A i \in Stops(k) : Said(Of(k, i))' = Said(Of(k, i))
  BY OutputKept
<1>2. ASSUME Stops(k) # {}
      PROVE  \E i \in Stops(k) :
               /\ LastStop(k, i)'
               /\ proc'[k].pc = "busy" => Given(proc'[k].talk) /\ Front(proc'[k].talk) = Said(Of(k, i))'
               /\ proc'[k].pc \in {"tools", "idle"} => proc'[k].talk = Said(Of(k, i))'
  <2>1. PICK i \in Stops(k) :
          /\ LastStop(k, i)
          /\ proc[k].pc = "busy" => Given(proc[k].talk) /\ Front(proc[k].talk) = Said(Of(k, i))
          /\ proc[k].pc \in {"tools", "idle"} => proc[k].talk = Said(Of(k, i))
    BY <1>2 DEF Tied
  <2> QED BY <1>1, <2>1
<1> QED BY <1>1, <1>2 DEF Tied, Said

LEMMA LinesKept ==
  ASSUME TableInv, Passed, NEW k \in Turns, LinesTalk(k), proc'[k].stdout = proc[k].stdout,
         \/ run'[k].history = run[k].history /\ run'[k].parked = run[k].parked /\ run'[k].terminal = run[k].terminal
         \/ ~run'[k].terminal
  PROVE  LinesTalk(k)'
<1>1. Stops(k)' = Stops(k) /\ \A i : Of(k, i)' = Of(k, i)
  BY OutputKept
<1> QED BY <1>1 DEF LinesTalk

LEMMA CallsKept ==
  ASSUME TableInv, Passed, NEW k \in Turns, CallsTalk(k),
         \A c \in Range(run'[k].calls) : \E b \in Range(run[k].calls) :
            c.id = b.id /\ (c.result = b.result \/ ~Unread(c.id[1], k))
  PROVE  CallsTalk(k)'
<1> SUFFICES ASSUME NEW c \in Range(run'[k].calls)
             PROVE  c.id[1] \in Replies' /\ (Unread(c.id[1], k)' => c.result = None)
  BY DEF CallsTalk
<1>1. PICK b \in Range(run[k].calls) : c.id = b.id /\ (c.result = b.result \/ ~Unread(c.id[1], k))
  OBVIOUS
<1>2. b.id[1] \in Replies /\ (Unread(b.id[1], k) => b.result = None)
  BY DEF CallsTalk
<1>3. PICK n : n = c.id[1]
  OBVIOUS
<1>4. n \in Replies /\ n \in Replies' /\ (Unread(n, k)' => Unread(n, k))
  BY <1>1, <1>2, <1>3 DEF Passed
<1> QED BY <1>1, <1>2, <1>3, <1>4

LEMMA WorksKept ==
  ASSUME TableInv, Passed, NEW k \in Turns, NEW n \in Replies, Works(k, n), proc'[k].stdout = proc[k].stdout,
         proc'[k].talk = proc[k].talk, proc'[k].todo = proc[k].todo, proc'[k].token = proc[k].token,
         run'[k].sender = run[k].sender,
         \A c \in Range(run'[k].calls) : \E b \in Range(run[k].calls) : c.id = b.id /\ c.result = b.result
  PROVE  Works(k, n)'
<1>1. Stops(k)' = Stops(k) /\ Said(n)' = Said(n)
  BY OutputKept, SaidKept
<1>2. Stops(k) = {} => \A c \in Range(run'[k].calls) : c.id[1] = n /\ c.result # None => c.result = run[k].sender
  BY DEF Works
<1>3. /\ proc[k].talk = Said(n) /\ proc[k].todo # <<>>
      /\ \A i \in DOMAIN proc[k].todo : proc[k].todo[i] = <<n, proc[k].todo[1][2] + i - 1>>
      /\ \/ proc[k].token \in {None, <<"x", 0>>}
         \/ proc[k].token = <<"s", 0>> /\ HasX(proc[k].talk)
         \/ run[k].sender # None /\ proc[k].token = <<"r", run[k].sender>> /\ Stops(k) = {}
  BY DEF Works
<1>4. PICK p : p = proc'[k]
  OBVIOUS
<1>5. /\ p.talk = Said(n)' /\ p.todo # <<>>
      /\ \A i \in DOMAIN p.todo : p.todo[i] = <<n, p.todo[1][2] + i - 1>>
      /\ \/ p.token \in {None, <<"x", 0>>}
         \/ p.token = <<"s", 0>> /\ HasX(p.talk)
         \/ run'[k].sender # None /\ p.token = <<"r", run'[k].sender>> /\ Stops(k)' = {}
  BY <1>1, <1>3, <1>4
<1> QED BY <1>1, <1>2, <1>4, <1>5 DEF Works

LEMMA HelperKept ==
  ASSUME TableInv, Passed, NEW k \in Turns, HelperTalk(k), proc'[k].stdout = proc[k].stdout,
         proc'[k].pc = proc[k].pc,
         proc'[k].talk = proc[k].talk, proc'[k].todo = proc[k].todo, proc'[k].token = proc[k].token,
         proc'[k].held = proc[k].held \/ proc[k].pc = "tools",
         run'[k].sender = run[k].sender,
         \A c \in Range(run'[k].calls) : \E b \in Range(run[k].calls) : c.id = b.id /\ c.result = b.result
  PROVE  HelperTalk(k)'
<1>1. CASE proc[k].pc = "tools"
  <2>1. PICK n \in Replies : Works(k, n)
    BY <1>1 DEF HelperTalk
  <2>2. Works(k, n)'
    BY <2>1, WorksKept
  <2>3. n \in Replies'
    BY <2>1, SaidKept
  <2> QED BY <1>1, <2>2, <2>3 DEF HelperTalk
<1>2. CASE proc[k].pc # "tools" BY <1>2 DEF HelperTalk
<1> QED BY <1>1, <1>2

LEMMA LinedSame ==
  ASSUME NEW calls, NEW new, NEW out, NEW n, NEW first, NEW last, NEW d, NEW o,
         Lined(calls, out, n, first, last, d, o),
         Len(new) = Len(calls), DOMAIN new = DOMAIN calls,
         \A i \in DOMAIN calls : new[i].claimed = calls[i].claimed /\ new[i].id = calls[i].id
  PROVE  Lined(new, out, n, first, last, d, o)
<1> QED BY DEF Lined

LEMMA AlignedKept ==
  ASSUME NEW k \in Turns, NEW n, NEW first, NEW last, NEW d, NEW o,
         Aligned(k, n, first, last, d, o), proc'[k].stdout = proc[k].stdout,
         Len(run'[k].calls) = Len(run[k].calls), DOMAIN run'[k].calls = DOMAIN run[k].calls,
         \A i \in DOMAIN run[k].calls : /\ run'[k].calls[i].claimed = run[k].calls[i].claimed
                                        /\ run'[k].calls[i].id = run[k].calls[i].id
  PROVE  Aligned(k, n, first, last, d, o)'
<1>1. PICK calls, new, out : calls = run[k].calls /\ new = run'[k].calls /\ out = proc[k].stdout
  OBVIOUS
<1>2. Lined(calls, out, n, first, last, d, o)
  BY <1>1 DEF Aligned
<1>3. Lined(new, out, n, first, last, d, o)
  BY <1>1, <1>2, LinedSame
<1> QED BY <1>1, <1>3 DEF Aligned

LEMMA AlignKept ==
  ASSUME NEW k \in Turns, Align(k), proc'[k] = proc[k],
         Len(run'[k].calls) = Len(run[k].calls), DOMAIN run'[k].calls = DOMAIN run[k].calls,
         \A i \in DOMAIN run[k].calls : /\ run'[k].calls[i].claimed = run[k].calls[i].claimed
                                        /\ run'[k].calls[i].id = run[k].calls[i].id
  PROVE  Align(k)'
<1>1. Offset(k)' = Offset(k)
  BY DEF Offset
<1>2. \A n, first, last, d, o : Aligned(k, n, first, last, d, o) => Aligned(k, n, first, last, d, o)'
  BY AlignedKept
<1>3. PICK p : p = proc[k] /\ p = proc'[k]
  OBVIOUS
<1>4. ASSUME ~HasX(p.talk), p.pc = "tools" /\ p.token # <<"x", 0>>
      PROVE  /\ p.held # None => p.held = p.todo[1]
             /\ \E d \in Nat :
                  Aligned(k, p.todo[1][1], p.todo[1][2] + (IF p.held = None THEN 0 ELSE 1),
                          p.todo[1][2] + Len(p.todo) - 1, d, Offset(k))'
  <2>1. p.held # None => p.held = p.todo[1]
    BY <1>3, <1>4 DEF Align
  <2>2. PICK d \in Nat :
          Aligned(k, p.todo[1][1], p.todo[1][2] + (IF p.held = None THEN 0 ELSE 1),
                  p.todo[1][2] + Len(p.todo) - 1, d, Offset(k))
    BY <1>3, <1>4 DEF Align
  <2>3. PICK n, first, last, o : /\ n = p.todo[1][1] /\ first = p.todo[1][2] + (IF p.held = None THEN 0 ELSE 1)
                                 /\ last = p.todo[1][2] + Len(p.todo) - 1 /\ o = Offset(k)
    OBVIOUS
  <2>4. Aligned(k, n, first, last, d, o)'
    BY <1>2, <2>2, <2>3
  <2> QED BY <1>1, <2>1, <2>3, <2>4
<1>5. ASSUME ~HasX(p.talk), p.pc \in {"idle", "busy"}
      PROVE  /\ \A i \in DOMAIN run'[k].calls : run'[k].calls[i].claimed
             /\ \A j \in DOMAIN p.stdout : p.stdout[j].kind # "call"
  BY <1>3, <1>5 DEF Align
<1> QED BY <1>3, <1>4, <1>5 DEF Align

\* A run and a process that the step does not touch.
LEMMA RunTalkKept ==
  ASSUME TableInv, TableInv', Passed, Told, NEW k \in Live, RunTalk(k), run'[k] = run[k], proc'[k] = proc[k]
  PROVE  RunTalk(k)'
<1>0. k \in Turns /\ run[k] # None /\ Waiting(k)' = Waiting(k) /\ run[k].calls \in Seq(ToolCall)
  BY WaitingKept, LiveTypes DEF Live, TableInv
<1>1. Posted(k)'
  BY <1>0, PostedKept DEF RunTalk
<1>2. InputTalk(k)'
  <2>1. Stops(k)' = Stops(k)
    BY Kept, <1>0
  <2> QED BY <2>1 DEF RunTalk, InputTalk
<1>3. Ahead(k)'
  BY <1>0, AheadKept DEF RunTalk
<1>4. Linked(k)' /\ Tied(k)'
  BY <1>0, LinkedKept, TiedKept DEF RunTalk
<1>5. LinesTalk(k)'
  BY <1>0, LinesKept DEF RunTalk
<1>6. HelperTalk(k)'
  BY <1>0, HelperKept DEF RunTalk
<1>7. CallsTalk(k)'
  BY <1>0, CallsKept DEF RunTalk
<1>8. Align(k)'
  BY <1>0, AlignKept DEF RunTalk
<1> QED BY <1>1, <1>2, <1>3, <1>4, <1>5, <1>6, <1>7, <1>8 DEF RunTalk

\* All runs but one are as they were, or ended.
LEMMA RunsTalkKept ==
  ASSUME TableInv, TableInv', TalkInv, Passed, Told, NEW K,
         \A k \in Turns : k \notin K /\ run'[k] # None => run'[k] = run[k] /\ proc'[k] = proc[k],
         \A k \in Turns : k \in K /\ run'[k] # None => RunTalk(k)'
  PROVE  RunsTalk'
<1> SUFFICES ASSUME NEW k \in Turns, run'[k] # None
             PROVE  RunTalk(k)'
  BY DEF RunsTalk, Live
<1>1. CASE k \notin K
  <2>1. k \in Live /\ run'[k] = run[k] /\ proc'[k] = proc[k]
    BY <1>1 DEF Live
  <2>2. RunTalk(k)
    BY <2>1 DEF TalkInv, RunsTalk
  <2> QED BY <2>1, <2>2, RunTalkKept
<1>2. CASE k \in K BY <1>2
<1> QED BY <1>1, <1>2

-----------------------------------------------------------------------------
(* Steps that leave the runs as they are, or end them *)

LEMMA DroppedTalk ==
  ASSUME TableInv, TableInv', TalkInv, Passed, NEW K, NEW D, Dropped(K, D),
         \A k \in Turns : reader'[k] \in {reader[k], None},
         \A s \in Turns : file'[s] \in {file[s], NoFile}
  PROVE  TalkInv'
<1>1. /\ \A j \in Turns : j \in K => run'[j] = None
      /\ \A j \in Turns : j \notin K => run'[j] = run[j] /\ proc'[j] = proc[j]
      /\ \A u \in Turns : u \notin D => turn'[u] = turn[u]
      /\ \A u \in Turns : u \in D => turn'[u].pc = "failed" /\ turn'[u].channel = <<>>
  BY DroppedFacts DEF TableInv
<1>2. \A u \in Turns : u \in D => turn'[u].saved = None
  BY DEF Dropped, NewTurn
<1>3. Heard /\ Told
  BY <1>1, HeardTold DEF Heard
<1>4. \A k \in Turns : (Sends(k)' => Sends(k) /\ reader'[k] = reader[k]) /\ (Saves(k)' => Saves(k) /\ reader'[k] = reader[k])
  BY DEF Sends, Saves
<1>5. ClientSound' /\ SavedSound'
  BY <1>1, <1>2, <1>3, ClientKept, SavedKept DEF TalkInv
<1>6. SentSound' /\ SaveSound'
  BY <1>3, <1>4, SentKept, SaveKept DEF TalkInv
<1>7. FileSound'
  BY FileKept DEF TalkInv
<1>8. ArchiveSound'
  BY DEF TalkInv, ArchiveSound, Dropped
<1>9. Continuity'
  BY <1>1, ContinuityKept DEF TalkInv
<1>10. RunsTalk'
  BY <1>1, <1>3, RunsTalkKept
<1> QED BY <1>5, <1>6, <1>7, <1>8, <1>9, <1>10 DEF TalkInv

LEMMA EndsTalk ==
  ASSUME TableInv, TalkInv, NEW t \in Turns,
         Refuse(t) \/ Broken(t) \/ Leave(t) \/ Reap(t) \/ Revoke(t) \/ ReaderEnds(t)
  PROVE  TalkInv'
<1>1. TableInv' /\ Passed
  BY EndsTable
<1>0. file \in [Turns -> Transcript]
  BY DEF TableInv, Types
<1>2. \A K : Removed(K) => \A s \in Turns : file'[s] \in {file[s], NoFile}
  BY DEF Removed
<1>3. \A s \in Turns : file'[s] \in {file[s], NoFile}
  BY <1>2 DEF Refuse, Broken, Leave, Reap, Revoke, ReaderEnds
<1>4. CASE Refuse(t)
  <2>1. PICK K \in SUBSET Idle : Dropped(K, {t}) /\ reader' = reader
    BY <1>4, RefuseShape
  <2> QED BY <1>1, <1>3, <2>1, DroppedTalk
<1>5. CASE Broken(t)
  <2>1. Dropped({}, {t}) /\ reader' = reader
    BY <1>5, BrokenShape
  <2> QED BY <1>1, <1>3, <2>1, DroppedTalk
<1>6. CASE Leave(t)
  <2>1. Dropped({turn[t].key}, {t}) /\ reader' = reader
    BY <1>6, LeaveShape
  <2> QED BY <1>1, <1>3, <2>1, DroppedTalk
<1>7. CASE Reap(t) \/ Revoke(t) \/ ReaderEnds(t)
  <2>1. Dropped({t}, {}) /\ \A j \in Turns : reader'[j] \in {reader[j], None}
    BY <1>7, EndShape
  <2> QED BY <1>1, <1>3, <2>1, DroppedTalk
<1> QED BY <1>4, <1>5, <1>6, <1>7

\* The steps of readers and streams that leave the runs as they are.
LEMMA StillTalk ==
  ASSUME TableInv, TableInv', TalkInv, Passed, Told, UNCHANGED <<run, proc>>
  PROVE  RunsTalk'
<1>1. PICK K : K = {}
  OBVIOUS
<1>2. \A k \in Turns : k \notin K /\ run'[k] # None => run'[k] = run[k] /\ proc'[k] = proc[k]
  OBVIOUS
<1>3. \A k \in Turns : k \in K /\ run'[k] # None => RunTalk(k)'
  BY <1>1
<1> QED BY <1>2, <1>3, RunsTalkKept

LEMMA SendTalk ==
  ASSUME TableInv, TalkInv, NEW k \in Turns, Send(k)
  PROVE  TalkInv'
<1>1. TableInv' /\ Passed
  BY SendTable
<1>2. PICK t \in Turns : \E e \in Event :
        /\ Sends(k) /\ reader[k].to = t /\ reader[k].event = e /\ turn[t].pc = "open"
        /\ \A u \in Turns : u # t => turn'[u] = turn[u]
        /\ turn'[t].channel = Append(turn[t].channel, e)
        /\ turn'[t].pc = turn[t].pc
        /\ turn'[t].messages = turn[t].messages /\ turn'[t].results = turn[t].results
        /\ turn'[t].saved = turn[t].saved
        /\ reader'[k] = None /\ \A j \in Turns : j # k => reader'[j] = reader[j]
        /\ UNCHANGED <<run, proc, answer, file, archive>>
  BY SendFacts DEF TableInv
<1>3. PICK e \in Event :
        /\ Sends(k) /\ reader[k].to = t /\ reader[k].event = e /\ turn[t].pc = "open"
        /\ turn'[t].channel = Append(turn[t].channel, e)
  BY <1>2
<1>4. Heard /\ Told
  BY <1>2, HeardTold DEF Heard
<1>5. \A j \in Turns : (Sends(j)' => Sends(j) /\ reader'[j] = reader[j]) /\ (Saves(j)' => Saves(j) /\ reader'[j] = reader[j])
  BY <1>2 DEF Sends, Saves
<1>6. ClientSound' /\ SavedSound' /\ SentSound' /\ SaveSound'
  BY <1>1, <1>2, <1>4, <1>5, ClientKept, SavedKept, SentKept, SaveKept DEF TalkInv
<1>7. FileSound' /\ ArchiveSound'
  BY <1>1, <1>2, FileKept DEF TalkInv, ArchiveSound
<1>8. RunsTalk'
  BY <1>1, <1>2, <1>4, StillTalk
<1>9. ASSUME NEW f \in Range(turn'[t].channel)
      PROVE  Same(answer'[f.answer].to, turn'[t].messages)
  <2>1. Same(answer[e.answer].to, turn[t].messages)
    BY <1>2, <1>3 DEF TalkInv, SentSound
  <2>2. turn[t].channel \in Seq(Event)
    BY TurnTypes DEF TableInv
  <2>3. f = e \/ f \in Range(turn[t].channel)
    <3>1. PICK c : c = turn[t].channel
      OBVIOUS
    <3>2. PICK i \in DOMAIN Append(c, e) : f = Append(c, e)[i]
      BY <1>3, <3>1 DEF Range
    <3>3. CASE i = Len(c) + 1 BY <2>2, <3>1, <3>2, <3>3
    <3>4. CASE i # Len(c) + 1
      <4>1. i \in DOMAIN c /\ f = c[i]
        BY <2>2, <3>1, <3>2, <3>4
      <4> QED BY <3>1, <4>1 DEF Range
    <3> QED BY <3>3, <3>4
  <2> QED BY <1>2, <2>1, <2>3 DEF TalkInv, Continuity
<1>10. Continuity'
  BY <1>1, <1>2, <1>9, ContinuityKept DEF TalkInv
<1> QED BY <1>6, <1>7, <1>8, <1>10 DEF TalkInv

LEMMA ReceiveTalk ==
  ASSUME TableInv, TalkInv, NEW t \in Turns, Receive(t)
  PROVE  TalkInv'
<1>1. TableInv' /\ Passed
  BY ReceiveTable
<1>2. PICK e \in Event :
        /\ turn[t].pc = "open" /\ turn[t].channel # <<>> /\ e = turn[t].channel[1]
        /\ \A u \in Turns : u # t => turn'[u] = turn[u]
        /\ turn'[t].channel = Tail(turn[t].channel) /\ turn'[t].got = e.answer
        /\ turn'[t].pc = (IF e.last THEN "done" ELSE "open")
        /\ turn'[t].key = turn[t].key
        /\ turn'[t].messages = turn[t].messages /\ turn'[t].results = turn[t].results
        /\ turn'[t].saved = turn[t].saved
        /\ UNCHANGED <<run, proc, reader, answer, file, archive>>
  BY ReceiveFacts DEF TableInv
<1>3. Heard /\ Told
  BY <1>2, HeardTold DEF Heard
<1>4. turn[t].saved = None
  BY <1>2 DEF TalkInv, SavedSound
<1>5. \A j \in Turns : (Sends(j)' => Sends(j) /\ reader'[j] = reader[j]) /\ (Saves(j)' => Saves(j) /\ reader'[j] = reader[j])
  BY <1>2 DEF Sends, Saves
<1>6. ClientSound' /\ SavedSound' /\ SentSound' /\ SaveSound'
  BY <1>1, <1>2, <1>3, <1>4, <1>5, ClientKept, SavedKept, SentKept, SaveKept DEF TalkInv
<1>7. FileSound' /\ ArchiveSound'
  BY <1>1, <1>2, FileKept DEF TalkInv, ArchiveSound
<1>8. RunsTalk'
  BY <1>1, <1>2, <1>3, StillTalk
<1>9. ASSUME NEW f \in Range(turn'[t].channel)
      PROVE  Same(answer'[f.answer].to, turn'[t].messages)
  <2>1. turn[t].channel \in Seq(Event)
    BY TurnTypes DEF TableInv
  <2>2. f \in Range(turn[t].channel)
    <3>1. PICK c : c = turn[t].channel
      OBVIOUS
    <3>2. PICK i \in DOMAIN Tail(c) : f = Tail(c)[i]
      BY <1>2, <3>1 DEF Range
    <3>3. i + 1 \in DOMAIN c /\ f = c[i + 1]
      BY <1>2, <2>1, <3>1, <3>2
    <3> QED BY <3>1, <3>3 DEF Range
  <2> QED BY <1>2, <2>2 DEF TalkInv, Continuity
<1>10. Continuity'
  BY <1>1, <1>2, <1>9, ContinuityKept DEF TalkInv
<1> QED BY <1>6, <1>7, <1>8, <1>10 DEF TalkInv

LEMMA SaveTalk ==
  ASSUME TableInv, TalkInv, NEW k \in Turns, SaveCheckpoint(k)
  PROVE  TalkInv'
<1>1. TableInv' /\ Passed
  BY SaveTable
<1>2. /\ Saves(k) /\ reader' = [reader EXCEPT ![k] = None]
      /\ UNCHANGED <<turn, run, proc, answer, file>>
  BY DEF SaveCheckpoint
<1>3. reader \in [Turns -> Sending \cup Saving \cup {None}]
  BY DEF TableInv, Types
<1>4. reader'[k] = None /\ \A j \in Turns : j # k => reader'[j] = reader[j]
  BY <1>2, <1>3
<1>5. Heard /\ Told
  BY <1>2, HeardTold DEF Heard
<1>6. \A j \in Turns : (Sends(j)' => Sends(j) /\ reader'[j] = reader[j]) /\ (Saves(j)' => Saves(j) /\ reader'[j] = reader[j])
  BY <1>4 DEF Sends, Saves
<1>7. ClientSound' /\ SavedSound' /\ SentSound' /\ SaveSound'
  BY <1>1, <1>2, <1>5, <1>6, ClientKept, SavedKept, SentKept, SaveKept DEF TalkInv
<1>8. FileSound' /\ Continuity'
  BY <1>1, <1>2, FileKept, ContinuityKept DEF TalkInv
<1>9. RunsTalk'
  BY <1>1, <1>2, <1>5, StillTalk
<1>10. ASSUME NEW c \in archive'
       PROVE  Twice(c.history) \/ Same(c.transcript.tip, c.history)
  <2>1. CASE c \in archive BY <2>1 DEF TalkInv, ArchiveSound
  <2>2. CASE c \notin archive
    <3>1. PICK s, h, n : s = reader[k].session /\ h = reader[k].history /\ n = reader[k].answer
      OBVIOUS
    <3>2. Complete(file[s], n) /\ c = [history |-> h, session |-> s, transcript |-> file[s]]
      BY <1>10, <2>2, <3>1 DEF SaveCheckpoint
    <3>3. s \in Turns /\ n \in Nat
      BY <1>2, <3>1, ReaderTypes DEF TableInv, Sessions
    <3>4. file[s].tip = Said(n)
      BY <3>2, <3>3 DEF Complete, TalkInv, FileSound
    <3>5. Twice(h) \/ Same(Said(n), h)
      BY <1>2, <3>1 DEF TalkInv, SaveSound
    <3> QED BY <3>2, <3>4, <3>5
  <2> QED BY <2>1, <2>2
<1>11. ArchiveSound'
  BY <1>10 DEF ArchiveSound
<1> QED BY <1>7, <1>8, <1>9, <1>11 DEF TalkInv

\* What a client says comes after an answer, and the next answer after it.
LEMMA ClientLast ==
  ASSUME TableInv, ClientSound, NEW t \in Turns, turn[t].pc \in {"asked", "open", "done"}
  PROVE  /\ turn[t].messages \in Seq(Message) /\ turn[t].messages # <<>> /\ ~Twice(turn[t].messages)
         /\ Last(turn[t].messages) \in Message /\ Front(turn[t].messages) \in Seq(Message)
         /\ turn[t].messages = Append(Front(turn[t].messages), Last(turn[t].messages))
         /\ Text(t) => Last(turn[t].messages) = <<"u", t>>
         /\ ~Text(t) => Last(turn[t].messages) = <<"r", t>>
         /\ Last(turn[t].messages)[1] \in {"u", "r"}
         /\ ~Twice(Front(turn[t].messages))
<1>1. PICK c : c = turn[t].messages
  OBVIOUS
<1>2. c \in Seq(Message) /\ c # <<>> /\ ~Twice(c) /\ Last(c) = <<IF Text(t) THEN "u" ELSE "r", t>>
  BY <1>1, TurnTypes DEF TableInv, ClientSound
<1>3. PICK f, l : f = Front(c) /\ l = Last(c)
  OBVIOUS
<1>4. l \in Message /\ f \in Seq(Message) /\ c = Append(f, l)
  BY <1>2, <1>3, FrontAndLast
<1>5. ~Twice(f)
  BY <1>2, <1>4, TwiceGrown
<1>6. /\ Text(t) => l = <<"u", t>>
      /\ ~Text(t) => l = <<"r", t>>
  BY <1>2, <1>3
<1>7. l[1] \in {"u", "r"}
  BY <1>6
<1> QED BY <1>1, <1>2, <1>3, <1>4, <1>5, <1>6, <1>7, Zenon

\* What an answered client has said so far.
LEMMA TalkLast ==
  ASSUME TableInv, ClientSound, NEW p \in Turns, turn[p].pc = "done", turn[p].got \in Replies
  PROVE  Talk(p) \in Seq(Message) /\ Talk(p) = Append(turn[p].messages, <<"a", turn[p].got>>) /\ ~Twice(Talk(p))
<1>1. PICK c, m : c = turn[p].messages /\ m = <<"a", turn[p].got>>
  OBVIOUS
<1>2. c \in Seq(Message) /\ c # <<>> /\ ~Twice(c) /\ Last(c)[1] \in {"u", "r"}
  BY <1>1, ClientLast
<1>3. m \in Message
  BY <1>1, SaidFacts DEF TableInv
<1>4. ~Twice(Append(c, m)) /\ Append(c, m) \in Seq(Message) /\ c \o <<m>> = Append(c, m)
  BY <1>2, <1>3, TwiceGrown, Appended
<1>5. Talk(p) = Append(c, m)
  BY <1>1, <1>4 DEF Talk
<1> QED BY <1>1, <1>4, <1>5

LEMMA AsksTalk ==
  ASSUME TableInv, TalkInv, ~Eager, NEW t \in Turns, NEW prev \in Turns \cup {None}, Asks(t, prev)
  PROVE  TalkInv'
<1>1. TableInv' /\ Passed
  BY AsksTable
<1>2. /\ turn[t].pc = "new" /\ turn'[t].pc = "asked"
      /\ turn'[t].channel = turn[t].channel
      /\ \A u \in Turns : u # t => turn'[u] = turn[u]
      /\ UNCHANGED <<run, proc, reader, answer, file, archive>>
  BY AsksFacts DEF TableInv
<1>3. PICK tools \in BOOLEAN : \E saved \in Checkpoint \cup {None} : Asking(t, prev, tools, saved)
  BY AsksShape DEF TableInv
<1>4. PICK saved \in Checkpoint \cup {None} : Asking(t, prev, tools, saved)
  BY <1>3
<1>5. PICK b, m : b = Prior(prev) /\ m = <<IF tools THEN "r" ELSE "u", t>>
  OBVIOUS
<1>6. /\ turn'[t].messages = Append(b, m) /\ turn'[t].saved = saved
      /\ turn'[t].results = Wanted(tools, prev)
      /\ b \in Seq(Message) /\ m \in Message
      /\ tools => Wanted(tools, prev) # {}
      /\ saved # None => saved \in archive /\ saved.history = b
  <2>1. turn \in [Turns -> Turn] /\ turn[t] \in Turn
    BY DEF TableInv, Types
  <2> QED BY <1>4, <1>5, <2>1 DEF Asking, Turn
<1>7. ~Twice(b)
  <2>1. CASE prev = None
    <3>1. b = <<>>
      BY <1>5, <2>1 DEF Prior
    <3> QED BY <3>1 DEF Twice
  <2>2. CASE prev # None
    <3>1. prev \in Turns /\ turn[prev].pc = "done" /\ turn[prev].got # None
      BY <2>2 DEF Asks, Answered
    <3>2. turn[prev].got \in Replies
      BY <3>1 DEF TableInv, Known
    <3>3. ~Twice(Talk(prev))
      BY <3>1, <3>2, TalkLast DEF TalkInv
    <3> QED BY <1>5, <2>2, <3>3 DEF Prior
  <2> QED BY <2>1, <2>2
<1>8. Front(Append(b, m)) = b /\ Last(Append(b, m)) = m /\ Append(b, m) # <<>> /\ ~Twice(Append(b, m))
  <2>1. m[1] # "a"
    BY <1>5
  <2> QED BY <1>6, <1>7, <2>1, Appended, TwiceGrown
<1>9. m = <<IF Wanted(tools, prev) = {} THEN "u" ELSE "r", t>>
  BY <1>5, <1>6 DEF Wanted
<1>10. ClientSound'
  <2> SUFFICES ASSUME NEW u \in Turns, turn'[u].pc \in {"asked", "open", "done"}
               PROVE  /\ turn'[u].messages # <<>> /\ ~Twice(turn'[u].messages)
                      /\ Last(turn'[u].messages) = <<IF turn'[u].results = {} THEN "u" ELSE "r", u>>
    BY DEF ClientSound, Text
  <2>1. CASE u = t BY <1>6, <1>8, <1>9, <2>1
  <2>2. CASE u # t BY <1>2, <2>2 DEF TalkInv, ClientSound, Text
  <2> QED BY <2>1, <2>2
<1>11. SavedSound'
  <2> SUFFICES ASSUME NEW u \in Turns, turn'[u].saved # None
               PROVE  turn'[u].pc = "asked" /\ Same(turn'[u].saved.transcript.tip, Front(turn'[u].messages))
    BY DEF SavedSound
  <2>1. CASE u = t
    <3>1. saved \in archive /\ saved.history = b
      BY <1>6, <2>1
    <3>2. Same(saved.transcript.tip, b)
      BY <1>7, <3>1 DEF TalkInv, ArchiveSound
    <3> QED BY <1>2, <1>6, <1>8, <2>1, <3>2
  <2>2. CASE u # t BY <1>2, <2>2 DEF TalkInv, SavedSound
  <2> QED BY <2>1, <2>2
<1>12. Told
  BY <1>2 DEF Told
<1>13. SentSound' /\ SaveSound'
  <2>1. \A j \in Turns : (Sends(j)' => Sends(j) /\ reader'[j] = reader[j]) /\ (Saves(j)' => Saves(j) /\ reader'[j] = reader[j])
    BY <1>2 DEF Sends, Saves
  <2> QED BY <1>1, <1>12, <2>1, SentKept, SaveKept DEF TalkInv
<1>14. FileSound' /\ ArchiveSound'
  BY <1>1, <1>2, FileKept DEF TalkInv, ArchiveSound
<1>15. Continuity'
  <2>1. turn[t].channel = <<>>
    BY <1>2, AskedFacts
  <2> QED BY <1>1, <1>2, <2>1, ContinuityKept DEF TalkInv
<1>16. RunsTalk'
  BY <1>1, <1>2, <1>12, StillTalk
<1> QED BY <1>10, <1>11, <1>13, <1>14, <1>15, <1>16 DEF TalkInv

-----------------------------------------------------------------------------
(* Steps of a process *)

LEMMA QuietTalk ==
  ASSUME TableInv, TalkInv, Passed, UNCHANGED <<turn, reader, archive>>
  PROVE  /\ ClientSound' /\ SavedSound' /\ SentSound' /\ SaveSound' /\ ArchiveSound' /\ Continuity'
         /\ Told
<1>1. Heard /\ Told
  BY HeardTold DEF Heard
<1>2. \A j \in Turns : (Sends(j)' => Sends(j) /\ reader'[j] = reader[j]) /\ (Saves(j)' => Saves(j) /\ reader'[j] = reader[j])
  BY DEF Sends, Saves
<1>3. ClientSound' /\ SavedSound' /\ SentSound' /\ SaveSound' /\ ArchiveSound'
  BY <1>1, <1>2, ClientKept, SavedKept, SentKept, SaveKept DEF TalkInv, ArchiveSound
<1>4. Continuity'
  BY ContinuityKept DEF TalkInv
<1> QED BY <1>1, <1>3, <1>4

LEMMA WroteTalk ==
  ASSUME TableInv, TalkInv, Passed, NEW k \in Turns, NEW talk, Wrote(k, talk),
         \/ talk # <<>> /\ Last(talk)[1] # "a"
         \/ \E n \in Nat : n \in Replies' /\ talk = Said(n)' /\ Last(talk) = <<"a", n>>
  PROVE  FileSound'
<1>1. ASSUME NEW s \in Turns
      PROVE  \/ file'[s] \in {file[s], NoFile}
             \/ file'[s].tip # <<>> /\ Last(file'[s].tip)[1] # "a"
             \/ \E n \in Nat : /\ n \in Replies' /\ file'[s].tip = Said(n)'
                               /\ Last(file'[s].tip) = <<"a", n>>
  <2>1. file \in [Turns -> Transcript]
    BY DEF TableInv, Types
  <2>2. CASE s = proc[k].session
    <3>1. file'[s].tip = talk
      BY <2>1, <2>2 DEF Wrote
    <3> QED BY <3>1
  <2>3. CASE s # proc[k].session
    <3>1. file'[s] = file[s]
      BY <2>1, <2>3 DEF Wrote
    <3> QED BY <3>1
  <2> QED BY <2>2, <2>3
<1> QED BY <1>1, FileKept DEF TalkInv

\* One run and its process change.
LEMMA OneTalk ==
  ASSUME TableInv, TableInv', TalkInv, Passed, UNCHANGED <<turn, reader, archive>>, NEW k \in Turns,
         \A j \in Turns : j # k => run'[j] = run[j] /\ proc'[j] = proc[j],
         RunTalk(k)', FileSound'
  PROVE  TalkInv'
<1>1. /\ ClientSound' /\ SavedSound' /\ SentSound' /\ SaveSound' /\ ArchiveSound' /\ Continuity'
      /\ Told
  BY QuietTalk
<1>2. PICK K : K = {k}
  OBVIOUS
<1>3. \A j \in Turns : j \notin K /\ run'[j] # None => run'[j] = run[j] /\ proc'[j] = proc[j]
  BY <1>2
<1>4. \A j \in Turns : j \in K /\ run'[j] # None => RunTalk(j)'
  BY <1>2
<1>5. RunsTalk'
  BY <1>1, <1>3, <1>4, RunsTalkKept
<1> QED BY <1>1, <1>5 DEF TalkInv

\* The conversation of a run that answers a turn is the turn's.
LEMMA SenderLast ==
  ASSUME TableInv, ClientSound, NEW k \in Live, Posted(k), run[k].sender # None
  PROVE  /\ run[k].sender \in Turns /\ turn[run[k].sender].pc = "open"
         /\ run[k].history = turn[run[k].sender].messages /\ ~run[k].parked /\ ~run[k].terminal
         /\ run[k].history \in Seq(Message) /\ run[k].history # <<>> /\ ~Twice(run[k].history)
         /\ Last(run[k].history) \in Message /\ Front(run[k].history) \in Seq(Message)
         /\ run[k].history = Append(Front(run[k].history), Last(run[k].history))
         /\ Last(run[k].history)[1] \in {"u", "r"}
         /\ Last(run[k].history)[1] = "r" => Last(run[k].history) = <<"r", run[k].sender>>
<1>1. PICK t : t = run[k].sender
  OBVIOUS
<1>2. t \in Turns
  BY <1>1, LiveTypes DEF TableInv
<1>3. turn[t].pc = "open"
  BY <1>1, <1>2 DEF TableInv, SenderSound
<1>4. run[k].history = turn[t].messages /\ ~run[k].parked /\ ~run[k].terminal
  BY <1>1 DEF Posted
<1>5. PICK c : c = turn[t].messages
  OBVIOUS
<1>6. /\ c \in Seq(Message) /\ c # <<>> /\ ~Twice(c)
      /\ Last(c) \in Message /\ Front(c) \in Seq(Message) /\ c = Append(Front(c), Last(c))
      /\ Text(t) => Last(c) = <<"u", t>>
      /\ ~Text(t) => Last(c) = <<"r", t>>
      /\ Last(c)[1] \in {"u", "r"}
  BY <1>2, <1>3, <1>5, ClientLast
<1>7. Last(c)[1] = "r" => Last(c) = <<"r", t>>
  BY <1>6
<1> QED BY <1>1, <1>2, <1>3, <1>4, <1>5, <1>6, <1>7, Zenon

LEMMA TakeInputTalk ==
  ASSUME TableInv, TalkInv, NEW k \in Turns, TakeInput(k)
  PROVE  TalkInv'
<1>1. TableInv' /\ Passed
  BY ProcessTable
<1>2. /\ proc[k].pc = "idle" /\ proc[k].stdin # <<>> /\ proc'[k].pc = "busy"
      /\ proc'[k].stdin = Tail(proc[k].stdin) /\ proc'[k].talk = Append(proc[k].talk, Head(proc[k].stdin))
      /\ \A j \in Turns : j # k => proc'[j] = proc[j]
      /\ proc'[k].stdout = proc[k].stdout
      /\ proc'[k].todo = proc[k].todo /\ proc'[k].held = proc[k].held /\ proc'[k].token = proc[k].token
      /\ Wrote(k, proc'[k].talk) /\ UNCHANGED <<turn, run, reader, answer, archive>>
  BY TakeInputFacts DEF TableInv
<1>3. run[k] # None /\ k \in Live
  BY <1>2 DEF TableInv, DeadGone, NoProcess, Live
<1>4. RunTalk(k)
  BY <1>3 DEF TalkInv, RunsTalk
<1>5. PICK h, own : h = run[k].history /\ own = proc[k].talk
  OBVIOUS
<1>6. Stops(k) = {} /\ run[k].sender # None /\ proc[k].stdin = <<Last(h)>>
  BY <1>2, <1>4, <1>5 DEF RunTalk, InputTalk
<1>7. /\ h \in Seq(Message) /\ Last(h) \in Message /\ Front(h) \in Seq(Message)
      /\ h = Append(Front(h), Last(h)) /\ Last(h)[1] \in {"u", "r"}
  BY <1>3, <1>4, <1>5, <1>6, SenderLast DEF TalkInv, RunTalk
<1>8. own \in Seq(Message) /\ Same(own, Front(h))
  BY <1>2, <1>3, <1>4, <1>5, <1>6, LiveTypes DEF TableInv, RunTalk, Ahead, Reached
<1>9. proc'[k].talk = Append(own, Last(h)) /\ proc'[k].stdin = <<>>
  <2>1. PICK m : m = Last(h)
    OBVIOUS
  <2>2. Head(<<m>>) = m /\ Tail(<<m>>) = <<>>
    OBVIOUS
  <2> QED BY <1>2, <1>5, <1>6, <2>1, <2>2
<1>10. Same(Append(own, Last(h)), h)
  <2>1. PICK m : m = Last(h)
    OBVIOUS
  <2>2. Same(Append(own, m), Append(Front(h), m))
    BY <1>7, <1>8, <2>1, SameGrown
  <2> QED BY <1>7, <2>1, <2>2
<1>11. Append(own, Last(h)) # <<>> /\ Last(Append(own, Last(h)))[1] # "a"
  BY <1>7, <1>8, Appended
<1>12. FileSound'
  BY <1>1, <1>2, <1>9, <1>11, WroteTalk
<1>13. Stops(k)' = {}
  BY <1>2, <1>6, Kept
<1>14. Posted(k)'
  <2>1. Waiting(k)' = Waiting(k)
    BY <1>2, WaitingKept
  <2> QED BY <1>1, <1>2, <1>3, <1>4, <2>1, PostedKept, QuietTalk DEF RunTalk
<1>15. Ahead(k)'
  <2>1. PICK w : w = proc'[k].talk
    OBVIOUS
  <2>2. Fits(w, k)'
    BY <1>2, <1>5, <1>6, <1>9, <1>10, <2>1 DEF Fits
  <2> QED BY <1>2, <1>13, <2>1, <2>2 DEF Ahead
<1>16. Linked(k)' /\ Tied(k)' /\ InputTalk(k)'
  BY <1>9, <1>13 DEF Linked, Tied, InputTalk
<1>17. LinesTalk(k)'
  BY <1>1, <1>2, <1>4, LinesKept DEF RunTalk
<1>18. HelperTalk(k)'
  BY <1>2, <1>4 DEF RunTalk, HelperTalk
<1>19. CallsTalk(k)'
  BY <1>1, <1>2, <1>4, CallsKept DEF RunTalk
<1>20. Align(k)'
  <2>1. HasX(own) => HasX(Append(own, Last(h)))
    BY <1>7, <1>8, HasXGrown
  <2> QED BY <1>2, <1>4, <1>5, <1>9, <2>1 DEF RunTalk, Align
<1>21. RunTalk(k)'
  BY <1>14, <1>15, <1>16, <1>17, <1>18, <1>19, <1>20 DEF RunTalk
<1> QED BY <1>1, <1>2, <1>12, <1>21, OneTalk

LEMMA ExitTalk ==
  ASSUME TableInv, TalkInv, NEW k \in Turns, Exit(k)
  PROVE  TalkInv'
<1>1. TableInv' /\ Passed
  BY ProcessTable
<1>2. /\ proc[k].pc # "dead" /\ UNCHANGED <<turn, run, reader, answer, file, archive>>
      /\ proc'[k] = [NoProcess EXCEPT !.session = proc[k].session, !.stdout = proc[k].stdout]
      /\ \A j \in Turns : j # k => proc'[j] = proc[j]
  BY DEF Exit, TableInv, Types
<1>3. /\ proc'[k].pc = "dead" /\ proc'[k].stdin = <<>> /\ proc'[k].stdout = proc[k].stdout
      /\ proc'[k].todo = <<>> /\ proc'[k].held = None /\ proc'[k].token = None
  BY <1>2 DEF NoProcess
<1>4. run[k] # None /\ k \in Live
  BY <1>2 DEF TableInv, DeadGone, NoProcess, Live
<1>5. RunTalk(k)
  BY <1>4 DEF TalkInv, RunsTalk
<1>6. FileSound'
  BY <1>1, <1>2, FileKept DEF TalkInv
<1>7. Posted(k)'
  <2>1. Waiting(k)' = Waiting(k)
    BY <1>2, WaitingKept
  <2> QED BY <1>1, <1>2, <1>4, <1>5, <2>1, PostedKept, QuietTalk DEF RunTalk
<1>8. Ahead(k)'
  <2>1. /\ Stops(k)' = Stops(k) /\ \A i : Of(k, i)' = Of(k, i)
        /\ \A i : FirstStop(k, i)' <=> FirstStop(k, i)
        /\ \A i \in Stops(k) : answer'[Of(k, i)].to = answer[Of(k, i)].to
    BY <1>1, <1>3, OutputKept
  <2>2. \A own : Fits(own, k)' <=> Fits(own, k)
    BY <1>2 DEF Fits
  <2>3. \A i \in Stops(k)' : FirstStop(k, i)' => Fits(answer[Of(k, i)].to, k)'
    BY <1>5, <2>1, <2>2 DEF RunTalk, Ahead, Fits
  <2> QED BY <1>3, <2>1, <2>3 DEF Ahead
<1>9. Linked(k)' /\ Tied(k)' /\ LinesTalk(k)'
  BY <1>1, <1>2, <1>3, <1>5, LinkedKept, TiedKept, LinesKept DEF RunTalk
<1>10. InputTalk(k)' /\ HelperTalk(k)' /\ Align(k)'
  BY <1>3 DEF InputTalk, HelperTalk, Align
<1>11. CallsTalk(k)'
  BY <1>1, <1>2, <1>5, CallsKept DEF RunTalk
<1>12. RunTalk(k)'
  BY <1>7, <1>8, <1>9, <1>10, <1>11 DEF RunTalk
<1> QED BY <1>1, <1>2, <1>6, <1>12, OneTalk

\* The first call that is not claimed is claimed.
LEMMA ClaimLined ==
  ASSUME NEW s \in Seq(ToolCall), NEW r, NEW out \in Seq(Output), NEW i \in DOMAIN s,
         NEW n, NEW first \in Nat, NEW last, NEW d \in Nat, NEW o \in Nat,
         Lined(s, out, n, first, last, d, o),
         ~s[i].claimed, \A j \in 1 .. i - 1 : s[j].claimed,
         DOMAIN r = DOMAIN s, Len(r) = Len(s), \A j \in DOMAIN s : j # i => r[j] = s[j], r[i].claimed
  PROVE  s[i].id = <<n, first>> /\ Lined(r, out, n, first + 1, last, d + 1, o)
<1>0. Len(s) \in Nat /\ DOMAIN s = 1 .. Len(s)
  BY LenProperties
<1>1. PICK l \in Nat : l = Len(s) /\ DOMAIN s = 1 .. l
  BY <1>0
<1>2. d <= l
  BY <1>1 DEF Lined
<1>3. /\ \A j \in 1 .. l : j <= d => s[j].claimed
      /\ \A j \in 1 .. l : j > d =>
           /\ ~s[j].claimed /\ s[j].id = <<n, first + j - d - 1>> /\ first + j - d - 1 <= last
  BY <1>1 DEF Lined
<1>4. i = d + 1
  <2>1. i \in 1 .. l /\ ~(i <= d)
    BY <1>1, <1>3
  <2>2. ASSUME d + 1 < i PROVE FALSE
    <3>1. d + 1 \in 1 .. i - 1 /\ d + 1 \in 1 .. l /\ d + 1 > d
      BY <2>1, <2>2
    <3>2. ~s[d + 1].claimed
      BY <1>3, <3>1
    <3> QED BY <3>1, <3>2
  <2> QED BY <2>1, <2>2
<1>5. s[i].id = <<n, first>> /\ d + 1 <= l
  <2>1. i \in 1 .. l /\ i > d /\ first + i - d - 1 = first
    BY <1>1, <1>4
  <2>2. s[i].id = <<n, first + i - d - 1>>
    BY <1>3, <2>1
  <2> QED BY <1>4, <2>1, <2>2
<1>6. /\ DOMAIN r = 1 .. l /\ Len(r) = l
      /\ \A j \in 1 .. l : j # i => r[j] = s[j]
      /\ r[i].claimed
  BY <1>1
<1>7. ASSUME NEW j \in 1 .. l, j <= d + 1
      PROVE  r[j].claimed
  <2>1. j <= d \/ j = i
    BY <1>4, <1>7
  <2> QED BY <1>3, <1>6, <2>1
<1>8. ASSUME NEW j \in 1 .. l, j > d + 1
      PROVE  ~r[j].claimed /\ r[j].id = <<n, first + 1 + j - (d + 1) - 1>> /\ first + 1 + j - (d + 1) - 1 <= last
  <2>1. first + 1 + j - (d + 1) - 1 = first + j - d - 1 /\ j > d /\ j # i
    BY <1>4, <1>8
  <2>2. r[j] = s[j]
    BY <1>6, <2>1
  <2> QED BY <1>3, <2>1, <2>2
<1>9. ASSUME NEW j \in DOMAIN out, out[j].kind = "call"
      PROVE  /\ out[j].call = <<n, first + 1 + l - (d + 1) + j - o - 1>>
             /\ first + 1 + l - (d + 1) + j - o - 1 <= last
  <2>1. first + 1 + l - (d + 1) + j - o - 1 = first + l - d + j - o - 1
    OBVIOUS
  <2>2. out[j].call = <<n, first + l - d + j - o - 1>> /\ first + l - d + j - o - 1 <= last
    BY <1>1, <1>9 DEF Lined
  <2> QED BY <2>1, <2>2
<1>10. Lined(r, out, n, first + 1, last, d + 1, o)
  BY <1>5, <1>6, <1>7, <1>8, <1>9 DEF Lined
<1> QED BY <1>5, <1>10

LEMMA Pairs ==
  \A id \in CallId : id[1] \in Nat /\ id[2] \in Nat /\ id = <<id[1], id[2]>> /\ id # None
<1> QED BY Kinds DEF CallId

\* What the helper works on.
LEMMA WorksTodo ==
  ASSUME TableInv, NEW k \in Turns, NEW n \in Replies, Works(k, n)
  PROVE  /\ proc[k].todo \in Seq(CallId) /\ Len(proc[k].todo) \in Nat \ {0}
         /\ proc[k].todo[1] \in CallId /\ proc[k].todo[1][1] = n /\ proc[k].todo[1][2] \in Nat
         /\ proc[k].todo[1] = <<n, proc[k].todo[1][2]>>
<1>1. PICK td : td = proc[k].todo
  OBVIOUS
<1>2. td \in Seq(CallId) /\ td # <<>>
  BY <1>1, LiveTypes DEF TableInv, Works
<1>3. Len(td) \in Nat \ {0} /\ 1 \in DOMAIN td /\ td[1] \in CallId
  BY <1>2
<1>4. td[1] = <<n, td[1][2] + 1 - 1>>
  BY <1>1, <1>3 DEF Works
<1>5. td[1][1] = n
  BY <1>4
<1> QED BY <1>1, <1>2, <1>3, <1>5, Pairs

LEMMA OffsetNat ==
  ASSUME NEW k
  PROVE  Offset(k) \in Nat
<1> QED BY DEF Offset

LEMMA ClaimTalk ==
  ASSUME TableInv, TalkInv, NEW k \in Turns, Claim(k)
  PROVE  TalkInv'
<1>1. TableInv' /\ Passed
  BY ProcessTable
<1>2. PICK i \in DOMAIN run[k].calls :
        /\ proc[k].pc = "tools" /\ proc[k].held = None /\ k \in Live
        /\ ~run[k].calls[i].claimed
        /\ \A j \in 1 .. i - 1 : run[k].calls[j].claimed
        /\ run'[k].calls = Claimed(k, i) /\ proc'[k].held = run[k].calls[i].id
        /\ \A j \in Turns : j # k => proc'[j] = proc[j] /\ run'[j] = run[j]
        /\ proc'[k].stdin = proc[k].stdin /\ proc'[k].pc = proc[k].pc /\ proc'[k].talk = proc[k].talk
        /\ proc'[k].stdout = proc[k].stdout /\ proc'[k].session = proc[k].session
        /\ proc'[k].todo = proc[k].todo /\ proc'[k].token = proc[k].token
        /\ run'[k] # None /\ run'[k].sender = run[k].sender /\ run'[k].parked = run[k].parked
        /\ run'[k].terminal = run[k].terminal /\ run'[k].history = run[k].history
        /\ UNCHANGED <<turn, reader, answer, file, archive>>
  BY ClaimFacts DEF TableInv
<1>3. RunTalk(k)
  BY <1>2 DEF TalkInv, RunsTalk
<1>4. PICK s, r : s = run[k].calls /\ r = run'[k].calls
  OBVIOUS
<1>5. s \in Seq(ToolCall) /\ proc[k].stdout \in Seq(Output)
  BY <1>2, <1>4, LiveTypes DEF TableInv
<1>6. /\ DOMAIN r = DOMAIN s /\ Len(r) = Len(s)
      /\ \A j \in DOMAIN s : j # i => r[j] = s[j]
      /\ r[i].claimed /\ \A j \in DOMAIN s : r[j].id = s[j].id /\ r[j].result = s[j].result
  <2>1. r = [s EXCEPT ![i].claimed = TRUE]
    BY <1>2, <1>4 DEF Claimed
  <2>2. \A j \in DOMAIN s : s[j] \in ToolCall
    BY <1>5
  <2> QED BY <1>2, <1>4, <1>5, <2>1, <2>2 DEF ToolCall
<1>7. \A c \in Range(r) : \E b \in Range(s) : c.id = b.id /\ c.result = b.result
  BY <1>6 DEF Range
<1>8. Waiting(k) \subseteq Waiting(k)'
  <2>1. WaitingIn(s) \subseteq WaitingIn(r)
    BY <1>6, WaitingFacts
  <2> QED BY <1>4, <2>1 DEF Waiting
<1>9. FileSound'
  BY <1>1, <1>2, FileKept DEF TalkInv
<1>10. Posted(k)'
  BY <1>1, <1>2, <1>3, <1>8, PostedKept, QuietTalk DEF RunTalk
<1>11. Ahead(k)' /\ Linked(k)' /\ Tied(k)' /\ LinesTalk(k)'
  BY <1>1, <1>2, <1>3, AheadKept, LinkedKept, TiedKept, LinesKept DEF RunTalk
<1>12. HelperTalk(k)' /\ CallsTalk(k)'
  BY <1>1, <1>2, <1>3, <1>4, <1>7, HelperKept, CallsKept DEF RunTalk
<1>13. InputTalk(k)'
  <2>1. proc[k].stdin = <<>>
    BY <1>2 DEF TableInv, InputSound
  <2> QED BY <1>2, <2>1 DEF InputTalk
<1>14. Align(k)'
  <2>1. PICK n \in Replies : Works(k, n)
    BY <1>2, <1>3 DEF RunTalk, HelperTalk
  <2>2. PICK td : td = proc[k].todo
    OBVIOUS
  <2>3. /\ td \in Seq(CallId) /\ Len(td) \in Nat \ {0}
        /\ td[1][1] = n /\ td[1][2] \in Nat /\ td[1] = <<n, td[1][2]>>
    BY <2>1, <2>2, WorksTodo
  <2>4. PICK f, l, o : f = td[1][2] /\ l = td[1][2] + Len(td) - 1 /\ o = Offset(k)
    OBVIOUS
  <2>5. ASSUME ~HasX(proc[k].talk), proc[k].token # <<"x", 0>>
        PROVE  /\ s[i].id = td[1] /\ s[i].id # None
               /\ \E d \in Nat : Aligned(k, n, f + 1, l, d, o)'
    <3>1. PICK d \in Nat : Aligned(k, n, f + 0, l, d, o)
      BY <1>2, <1>3, <2>2, <2>3, <2>4, <2>5 DEF RunTalk, Align
    <3>2. f \in Nat /\ f + 0 = f /\ o \in Nat
      BY <2>3, <2>4, OffsetNat
    <3>3. Lined(s, proc[k].stdout, n, f, l, d, o)
      BY <1>4, <3>1, <3>2 DEF Aligned
    <3>4. s[i].id = <<n, f>> /\ Lined(r, proc[k].stdout, n, f + 1, l, d + 1, o)
      <4>1. PICK out : out = proc[k].stdout
        OBVIOUS
      <4>2. i \in DOMAIN s /\ ~s[i].claimed /\ \A j \in 1 .. i - 1 : s[j].claimed
        BY <1>2, <1>4
      <4>3. out \in Seq(Output) /\ Lined(s, out, n, f, l, d, o)
        BY <1>5, <3>3, <4>1
      <4>4. s[i].id = <<n, f>> /\ Lined(r, out, n, f + 1, l, d + 1, o)
        BY <1>5, <1>6, <3>2, <4>2, <4>3, ClaimLined
      <4> QED BY <4>1, <4>4
    <3>5. s[i].id = td[1] /\ s[i].id # None
      BY <2>1, <2>2, <2>3, <2>4, <3>4, Pairs, WorksTodo
    <3>6. Aligned(k, n, f + 1, l, d + 1, o)'
      BY <1>2, <1>4, <3>4 DEF Aligned
    <3>7. d + 1 \in Nat
      OBVIOUS
    <3> QED BY <3>5, <3>6, <3>7
  <2>6. PICK p : p = proc'[k]
    OBVIOUS
  <2>7. p.pc = "tools" /\ p.talk = proc[k].talk /\ p.todo = td /\ p.token = proc[k].token /\ p.held = s[i].id
    BY <1>2, <1>4, <2>2, <2>6
  <2>8. Offset(k)' = o
    BY <1>1, <1>2, <2>4, OutputKept
  <2>9. ASSUME ~HasX(p.talk), p.token # <<"x", 0>>
        PROVE  /\ p.held # None => p.held = p.todo[1]
               /\ \E d \in Nat :
                    Aligned(k, p.todo[1][1], p.todo[1][2] + (IF p.held = None THEN 0 ELSE 1),
                            p.todo[1][2] + Len(p.todo) - 1, d, Offset(k))'
    BY <2>3, <2>4, <2>5, <2>7, <2>8, <2>9
  <2> QED BY <2>6, <2>7, <2>9 DEF Align
<1>15. RunTalk(k)'
  BY <1>10, <1>11, <1>12, <1>13, <1>14 DEF RunTalk
<1> QED BY <1>1, <1>2, <1>9, <1>15, OneTalk

\* What the helper has for a call.
HasFor(k, token) ==
  \/ token = <<"x", 0>>
  \/ /\ proc[k].held # None
     /\ \E c \in Range(run[k].calls) :
          /\ c.id = proc[k].held /\ c.result # None
          /\ token = (IF c.id = Head(proc[k].todo) THEN <<"r", c.result>> ELSE <<"s", 0>>)

LEMMA HelperFacts ==
  ASSUME TableInv, NEW k \in Turns, Poll(k) \/ HelperGivesUp(k)
  PROVE  /\ k \in Live /\ proc[k].pc = "tools" /\ UNCHANGED <<turn, run, reader, answer, archive>>
         /\ \E token \in Message : Settle(k, token) /\ HasFor(k, token)
<1>1. proc[k].pc = "tools" /\ UNCHANGED <<turn, run, reader, answer, archive>>
  BY DEF Poll, HelperGivesUp
<1>2. k \in Live
  BY <1>1 DEF TableInv, DeadGone, NoProcess, Live
<1>3. CASE HelperGivesUp(k)
  <2>1. Settle(k, <<"x", 0>>) /\ <<"x", 0>> \in Message
    BY <1>3, Messages DEF HelperGivesUp
  <2>2. HasFor(k, <<"x", 0>>)
    BY DEF HasFor
  <2> QED BY <1>1, <1>2, <2>1, <2>2
<1>4. CASE Poll(k)
  <2>1. PICK c \in Range(run[k].calls) :
          /\ c.id = proc[k].held /\ c.result # None
          /\ Settle(k, IF c.id = Head(proc[k].todo) THEN <<"r", c.result>> ELSE <<"s", 0>>)
    BY <1>4 DEF Poll
  <2>2. PICK token : token = (IF c.id = Head(proc[k].todo) THEN <<"r", c.result>> ELSE <<"s", 0>>)
    OBVIOUS
  <2>3. Settle(k, token)
    BY <2>1, <2>2
  <2>4. proc[k].held # None
    BY <1>4 DEF Poll
  <2>5. c \in ToolCall
    BY <1>2, LiveTypes DEF TableInv, Range
  <2>6. c.result \in Nat
    BY <2>1, <2>5, Kinds DEF ToolCall
  <2>7. token \in Message
    <3>1. <<"r", c.result>> \in Message /\ <<"s", 0>> \in Message
      BY <2>6, Messages
    <3> QED BY <2>2, <3>1
  <2>8. HasFor(k, token)
    BY <2>1, <2>2, <2>4 DEF HasFor
  <2> QED BY <1>1, <1>2, <2>3, <2>7, <2>8
<1> QED BY <1>3, <1>4

\* What the results of a message may come to.
Marks(k, m) ==
  \/ m = <<"x", 0>>
  \/ m = <<"s", 0>> /\ HasX(proc[k].talk)
  \/ run[k].sender # None /\ m = <<"r", run[k].sender>> /\ Stops(k) = {}

LEMMA HelperMarks ==
  ASSUME TableInv, NEW k \in Live, RunTalk(k), proc[k].pc = "tools",
         NEW token \in Message, HasFor(k, token)
  PROVE  LET all == Joined(proc[k].token, token) IN
           /\ all \in Message /\ Marks(k, all)
           /\ all # <<"x", 0>> => proc[k].token # <<"x", 0>>
           /\ all # <<"x", 0>> /\ ~HasX(proc[k].talk) =>
                proc[k].held # None /\ proc[k].held = proc[k].todo[1]
<1>1. PICK n \in Replies : Works(k, n)
  BY DEF RunTalk, HelperTalk
<1>2. PICK old : old = proc[k].token
  OBVIOUS
<1>3. old \in Message \cup {None} /\ Joined(old, token) \in Message
  BY <1>2, LiveTypes, JoinedKinds DEF TableInv
<1>4. <<"x", 0>> \in Message /\ <<"s", 0>> \in Message /\ None \notin Message
  BY Messages, Kinds
<1>5. proc[k].token = None \/ Marks(k, old)
  BY <1>1, <1>2 DEF Works, Marks
<1>6. ASSUME token # <<"x", 0>>, old # <<"x", 0>>
      PROVE  /\ proc[k].held # None
             /\ ~HasX(proc[k].talk) => proc[k].held = proc[k].todo[1]
             /\ token = <<"s", 0>> => HasX(proc[k].talk)
             /\ token # <<"s", 0>> => Marks(k, token)
  <2>1. /\ proc[k].held # None
        /\ \E c \in Range(run[k].calls) :
             /\ c.id = proc[k].held /\ c.result # None
             /\ token = (IF c.id = Head(proc[k].todo) THEN <<"r", c.result>> ELSE <<"s", 0>>)
    BY <1>6 DEF HasFor
  <2>2. PICK c \in Range(run[k].calls) :
          /\ c.id = proc[k].held /\ c.result # None
          /\ token = (IF c.id = Head(proc[k].todo) THEN <<"r", c.result>> ELSE <<"s", 0>>)
    BY <2>1
  <2>3. ~HasX(proc[k].talk) => proc[k].held = proc[k].todo[1]
    BY <1>2, <1>6, <2>1 DEF RunTalk, Align
  <2>4. PICK td : td = proc[k].todo
    OBVIOUS
  <2>5. td \in Seq(CallId) /\ Len(td) \in Nat \ {0} /\ td[1][1] = n /\ Head(td) = td[1]
    <3>1. td \in Seq(CallId) /\ Len(td) \in Nat \ {0} /\ td[1][1] = n
      BY <1>1, <2>4, WorksTodo, LiveTypes DEF TableInv
    <3> QED BY <3>1
  <2>6. CASE c.id = td[1]
    <3>1. token = <<"r", c.result>> /\ c.id[1] = n
      BY <2>2, <2>4, <2>5, <2>6
    <3>2. Stops(k) = {}
      <4>1. SUFFICES ASSUME Stops(k) # {} PROVE FALSE
        OBVIOUS
      <4>2. PICK i \in Stops(k) : proc[k].talk = Said(Of(k, i))
        BY <4>1 DEF RunTalk, Tied
      <4>3. Of(k, i) \in Replies
        BY <4>2 DEF TableInv, Known, Stops, Live
      <4>4. Said(n) = Said(Of(k, i))
        BY <1>1, <4>2 DEF Works
      <4>5. Of(k, i) = n
        BY <4>3, <4>4, SaidOnce DEF TableInv
      <4>6. Unread(n, k)
        BY <4>5 DEF Unread
      <4> QED BY <2>2, <3>1, <4>6 DEF RunTalk, CallsTalk
    <3>3. c.result = run[k].sender
      BY <1>1, <2>2, <3>1, <3>2 DEF Works
    <3> QED BY <2>1, <2>2, <2>3, <3>1, <3>2, <3>3 DEF Marks
  <2>7. CASE c.id # td[1]
    <3>1. token = <<"s", 0>> /\ HasX(proc[k].talk)
      BY <2>2, <2>3, <2>4, <2>5, <2>7
    <3> QED BY <2>1, <2>3, <3>1
  <2> QED BY <2>6, <2>7
<1>7. PICK all : all = Joined(old, token)
  OBVIOUS
<1>8. CASE old = <<"x", 0>> \/ token = <<"x", 0>>
  <2>1. all = <<"x", 0>>
    BY <1>7, <1>8 DEF Joined
  <2> QED BY <1>2, <1>3, <1>7, <2>1 DEF Marks
<1>9. CASE old # <<"x", 0>> /\ token # <<"x", 0>>
  <2>1. <<"x", 0>> \notin {old, token}
    BY <1>9
  <2>2. CASE <<"s", 0>> \in {old, token}
    <3>1. all = <<"s", 0>>
      BY <1>7, <2>1, <2>2 DEF Joined
    <3>2. HasX(proc[k].talk)
      <4>1. CASE token = <<"s", 0>> BY <1>6, <1>9, <4>1
      <4>2. CASE old = <<"s", 0>> BY <1>2, <1>4, <1>5, <4>2 DEF Marks
      <4> QED BY <2>2, <4>1, <4>2
    <3> QED BY <1>2, <1>3, <1>7, <1>9, <3>1, <3>2 DEF Marks
  <2>3. CASE <<"s", 0>> \notin {old, token}
    <3>1. all = token /\ token # <<"s", 0>>
      BY <1>7, <2>1, <2>3 DEF Joined
    <3> QED BY <1>2, <1>3, <1>6, <1>7, <1>9, <3>1
  <2> QED BY <2>2, <2>3
<1> QED BY <1>8, <1>9

\* The helper goes on to the next call of the message.
LEMMA NextCall ==
  ASSUME TableInv, Passed, NEW k \in Live, RunTalk(k), proc[k].pc = "tools", proc'[k].pc = "tools",
         run'[k] = run[k], NEW all, Marks(k, all),
         all # <<"x", 0>> => proc[k].token # <<"x", 0>>,
         all # <<"x", 0>> /\ ~HasX(proc[k].talk) => proc[k].held # None,
         proc'[k].stdout = proc[k].stdout, proc'[k].talk = proc[k].talk, proc'[k].held = None,
         Len(proc[k].todo) > 1, proc'[k].todo = Tail(proc[k].todo), proc'[k].token = all
  PROVE  HelperTalk(k)' /\ Align(k)'
<1>0. k \in Turns
  BY DEF Live
<1>1. PICK n \in Replies : Works(k, n)
  BY DEF RunTalk, HelperTalk
<1>2. PICK td, new, f : td = proc[k].todo /\ new = Tail(td) /\ f = td[1][2]
  OBVIOUS
<1>3. /\ td \in Seq(CallId) /\ Len(td) \in Nat \ {0} /\ td[1][1] = n /\ f \in Nat
      /\ Len(td) > 1
  BY <1>0, <1>1, <1>2, WorksTodo
<1>4. \A i \in 1 .. Len(td) : td[i] = <<n, f + i - 1>>
  <2>1. \A i \in DOMAIN td : td[i] = <<n, td[1][2] + i - 1>>
    BY <1>1, <1>2 DEF Works
  <2> QED BY <1>2, <1>3, <2>1
<1>5. PICK l \in Nat : l = Len(td) /\ l > 1
  BY <1>3
<1>6. /\ new \in Seq(CallId) /\ Len(new) = l - 1 /\ DOMAIN new = 1 .. l - 1 /\ new # <<>>
      /\ \A i \in 1 .. l - 1 : new[i] = td[i + 1]
  <2>1. td \in Seq(CallId) /\ td # <<>> /\ new = Tail(td)
    BY <1>2, <1>3
  <2>2. new \in Seq(CallId) /\ Len(new) = Len(td) - 1 /\ \A i \in 1 .. Len(new) : new[i] = td[i + 1]
    BY <2>1, HeadTailProperties
  <2>3. DOMAIN new = 1 .. Len(new) /\ Len(new) = l - 1 /\ l - 1 > 0
    BY <1>5, <2>2, LenProperties
  <2>4. new # <<>>
    BY <2>3
  <2> QED BY <2>2, <2>3, <2>4
<1>7. \A i \in 1 .. l - 1 : new[i] = <<n, f + 1 + i - 1>>
  <2> SUFFICES ASSUME NEW i \in 1 .. l - 1 PROVE new[i] = <<n, f + 1 + i - 1>>
    OBVIOUS
  <2>1. i + 1 \in 1 .. l /\ f + (i + 1) - 1 = f + 1 + i - 1
    BY <1>3, <1>5
  <2>2. td[i + 1] = <<n, f + (i + 1) - 1>>
    BY <1>4, <1>5, <2>1
  <2> QED BY <1>6, <2>1, <2>2
<1>8. new[1] = <<n, f + 1>> /\ new[1][1] = n /\ new[1][2] = f + 1
  <2>1. 1 \in 1 .. l - 1 /\ f + 1 + 1 - 1 = f + 1
    BY <1>3, <1>5
  <2> QED BY <1>7, <2>1
<1>9. Stops(k)' = Stops(k) /\ Offset(k)' = Offset(k) /\ n \in Replies' /\ Said(n)' = Said(n)
  BY <1>0, OutputKept, SaidKept
<1>10. Works(k, n)'
  <2>1. PICK p : p = proc'[k]
    OBVIOUS
  <2>2. p.talk = Said(n) /\ p.todo = new /\ p.token = all /\ p.talk = proc[k].talk
    BY <1>1, <1>2, <2>1 DEF Works
  <2>3. \A i \in DOMAIN p.todo : p.todo[i] = <<n, p.todo[1][2] + i - 1>>
    BY <1>6, <1>7, <1>8, <2>2
  <2>4. \/ p.token \in {None, <<"x", 0>>}
        \/ p.token = <<"s", 0>> /\ HasX(p.talk)
        \/ run'[k].sender # None /\ p.token = <<"r", run'[k].sender>> /\ Stops(k)' = {}
    BY <1>9, <2>2 DEF Marks
  <2>5. Stops(k)' = {} => \A c \in Range(run'[k].calls) : c.id[1] = n /\ c.result # None => c.result = run'[k].sender
    BY <1>1, <1>9 DEF Works
  <2> QED BY <1>6, <1>9, <2>1, <2>2, <2>3, <2>4, <2>5 DEF Works
<1>11. HelperTalk(k)'
  BY <1>9, <1>10 DEF HelperTalk
<1>12. Align(k)'
  <2>1. ASSUME ~HasX(proc[k].talk), all # <<"x", 0>>
        PROVE  \E d \in Nat : Aligned(k, n, f + 1 + 0, f + 1 + (l - 1) - 1, d, Offset(k))'
    <3>1. PICK d \in Nat : Aligned(k, n, f + 1, f + l - 1, d, Offset(k))
      BY <1>2, <1>3, <1>5, <2>1 DEF RunTalk, Align
    <3>2. PICK o : o = Offset(k)
      OBVIOUS
    <3>3. Aligned(k, n, f + 1, f + l - 1, d, o)'
      BY <3>1, <3>2 DEF Aligned
    <3>4. f + 1 + 0 = f + 1 /\ f + 1 + (l - 1) - 1 = f + l - 1
      BY <1>3
    <3>5. Aligned(k, n, f + 1 + 0, f + 1 + (l - 1) - 1, d, o)'
      BY <3>3, <3>4
    <3> QED BY <1>9, <3>2, <3>5
  <2>2. PICK p : p = proc'[k]
    OBVIOUS
  <2>3. p.pc = "tools" /\ p.talk = proc[k].talk /\ p.todo = new /\ p.token = all /\ p.held = None
    BY <1>2, <2>2
  <2>4. ASSUME ~HasX(p.talk), p.token # <<"x", 0>>
        PROVE  /\ p.held # None => p.held = p.todo[1]
               /\ \E d \in Nat :
                    Aligned(k, p.todo[1][1], p.todo[1][2] + (IF p.held = None THEN 0 ELSE 1),
                            p.todo[1][2] + Len(p.todo) - 1, d, Offset(k))'
    BY <1>6, <1>8, <2>1, <2>3, <2>4
  <2> QED BY <2>2, <2>3, <2>4 DEF Align
<1> QED BY <1>11, <1>12

\* Nothing of the answer the helper works on is left, where it is at the last call.
LEMMA LinedEmpty ==
  ASSUME NEW s \in Seq(ToolCall), NEW out \in Seq(Output), NEW n, NEW f \in Nat, NEW d \in Nat, NEW o \in Nat,
         Lined(s, out, n, f + 1, f, d, o), o = 0 \/ (o = 1 /\ out[1].kind = "result")
  PROVE  /\ \A i \in DOMAIN s : s[i].claimed
         /\ \A j \in DOMAIN out : out[j].kind # "call"
<1>0. Len(s) \in Nat /\ DOMAIN s = 1 .. Len(s) /\ DOMAIN out = 1 .. Len(out) /\ Len(out) \in Nat
  BY LenProperties
<1>1. PICK l \in Nat : l = Len(s) /\ DOMAIN s = 1 .. l
  BY <1>0
<1>2. d <= l
  BY <1>1 DEF Lined
<1>3. ASSUME NEW i \in DOMAIN s
      PROVE  s[i].claimed
  <2>1. i \in 1 .. l
    BY <1>1
  <2>2. CASE i <= d BY <2>2 DEF Lined
  <2>3. CASE i > d
    <3>1. f + 1 + i - d - 1 <= f
      BY <2>3 DEF Lined
    <3> QED BY <2>1, <2>3, <3>1
  <2> QED BY <2>1, <2>2, <2>3
<1>4. ASSUME NEW j \in DOMAIN out, out[j].kind = "call"
      PROVE  FALSE
  <2>1. f + 1 + l - d + j - o - 1 <= f
    BY <1>1, <1>4 DEF Lined
  <2>2. j \in Nat \ {0}
    BY <1>0
  <2>3. j <= o
    BY <1>2, <2>1, <2>2
  <2>4. j = 1 /\ o = 1
    BY <2>2, <2>3
  <2> QED BY <1>4, <2>4
<1> QED BY <1>3, <1>4

\* The helper has worked on the last call, and the process goes on.
LEMMA LastCall ==
  ASSUME TableInv, TableInv', TalkInv, Passed, NEW k \in Live, proc[k].pc = "tools",
         UNCHANGED <<turn, run, reader, answer, archive>>,
         \A j \in Turns : j # k => proc'[j] = proc[j],
         NEW all \in Message, Marks(k, all),
         all # <<"x", 0>> => proc[k].token # <<"x", 0>>,
         all # <<"x", 0>> /\ ~HasX(proc[k].talk) => proc[k].held # None,
         proc'[k].stdin = proc[k].stdin, proc'[k].stdout = proc[k].stdout, proc'[k].held = None,
         ~(Len(proc[k].todo) > 1), proc'[k].pc = "busy", proc'[k].todo = <<>>, proc'[k].token = None,
         proc'[k].talk = Append(proc[k].talk, all), Wrote(k, proc'[k].talk)
  PROVE  TalkInv'
<1>0. k \in Turns /\ run[k] # None
  BY LiveTypes DEF TableInv
<1>1. RunTalk(k)
  BY DEF TalkInv, RunsTalk
<1>2. PICK own, h, w : own = proc[k].talk /\ h = run[k].history /\ w = Append(own, all)
  OBVIOUS
<1>3. own \in Seq(Message)
  BY <1>0, <1>2, LiveTypes DEF TableInv
<1>4. /\ w # <<>> /\ Last(w) = all /\ Front(w) = own
      /\ Given(w) <=> all[1] = "x" \/ (all[1] = "s" /\ HasX(own))
      /\ HasX(w) <=> HasX(own) \/ all[1] = "x"
  BY <1>2, <1>3, Appended, GivenGrown, HasXGrown
<1>5. \/ all = <<"x", 0>>
      \/ all = <<"s", 0>> /\ HasX(own)
      \/ run[k].sender # None /\ all = <<"r", run[k].sender>> /\ Stops(k) = {}
  BY <1>2 DEF Marks
<1>6. all[1] # "a"
  BY <1>5
<1>7. FileSound'
  <2>1. proc'[k].talk = w
    BY <1>2
  <2>2. PICK talk : talk = proc'[k].talk
    OBVIOUS
  <2>3. Wrote(k, talk) /\ talk # <<>> /\ Last(talk)[1] # "a"
    BY <1>4, <1>6, <2>1, <2>2
  <2> QED BY <1>0, <2>3, WroteTalk
<1>8. Stops(k)' = Stops(k) /\ \A i : Of(k, i)' = Of(k, i)
  BY <1>0, Kept
<1>9. Posted(k)'
  <2>1. Waiting(k)' = Waiting(k)
    BY <1>0, WaitingKept
  <2> QED BY <1>0, <1>1, <2>1, PostedKept, QuietTalk DEF RunTalk
<1>10. InputTalk(k)'
  <2>1. proc[k].stdin = <<>>
    BY <1>0 DEF TableInv, InputSound
  <2> QED BY <2>1 DEF InputTalk
<1>11. Linked(k)' /\ LinesTalk(k)' /\ CallsTalk(k)'
  BY <1>0, <1>1, LinkedKept, LinesKept, CallsKept DEF RunTalk
<1>12. HelperTalk(k)'
  BY DEF HelperTalk
<1>13. Tied(k)'
  <2>1. SUFFICES ASSUME Stops(k) # {}
                 PROVE  \E i \in Stops(k) :
                          LastStop(k, i)' /\ Given(proc'[k].talk) /\ Front(proc'[k].talk) = Said(Of(k, i))'
    BY <1>8 DEF Tied, Said
  <2>2. PICK i \in Stops(k) : LastStop(k, i) /\ own = Said(Of(k, i))
    BY <1>1, <1>2, <2>1 DEF RunTalk, Tied
  <2>3. LastStop(k, i)' /\ Said(Of(k, i))' = Said(Of(k, i))
    BY <1>0, <2>2, OutputKept
  <2>4. Given(w)
    BY <1>4, <1>5, <2>1
  <2>5. proc'[k].talk = w
    BY <1>2
  <2> QED BY <1>4, <2>2, <2>3, <2>4, <2>5
<1>14. Ahead(k)'
  <2>1. \A i \in Stops(k) : FirstStop(k, i) => Fits(answer[Of(k, i)].to, k)
    BY <1>1 DEF RunTalk, Ahead
  <2>2. /\ \A i : FirstStop(k, i)' <=> FirstStop(k, i)
        /\ \A i \in Stops(k) : answer'[Of(k, i)].to = answer[Of(k, i)].to
    BY <1>0, OutputKept
  <2>3. \A c : Fits(c, k)' <=> Fits(c, k)
    BY DEF Fits
  <2>4. \A i \in Stops(k)' : FirstStop(k, i)' => Fits(answer[Of(k, i)].to, k)'
    BY <1>8, <2>1, <2>2, <2>3 DEF Fits
  <2>5. ASSUME Stops(k) = {}
        PROVE  Fits(w, k)
    <3>1. Reached(own, k) /\ (run[k].sender # None => Last(h)[1] = "r")
      BY <1>1, <1>2, <2>5 DEF RunTalk, Ahead
    <3>2. CASE run[k].sender # None
      <4>1. /\ h \in Seq(Message) /\ Last(h) \in Message /\ Front(h) \in Seq(Message)
            /\ h = Append(Front(h), Last(h)) /\ Last(h) = <<"r", run[k].sender>>
        BY <1>1, <1>2, <3>1, <3>2, SenderLast DEF TalkInv, RunTalk
      <4>2. Same(own, Front(h))
        BY <1>2, <3>1, <3>2 DEF Reached
      <4>3. PICK r, g : r = Last(h) /\ g = Front(h)
        OBVIOUS
      <4>4. r \in Message /\ g \in Seq(Message) /\ Same(own, g) /\ r[1] = "r"
        BY <4>1, <4>2, <4>3
      <4>5. all = r \/ (r[1] = "r" /\ (all[1] = "x" \/ (all[1] = "s" /\ HasX(own))))
        BY <1>5, <4>1, <4>3, <4>4
      <4>6. Same(Append(own, all), Append(g, r))
        BY <1>3, <4>4, <4>5, SameGrown
      <4> QED BY <1>2, <3>2, <4>1, <4>3, <4>6 DEF Fits
    <3>3. CASE run[k].sender = None
      <4>1. Given(w)
        BY <1>4, <1>5, <3>3
      <4>2. Twice(h) \/ Same(own, h)
        BY <1>2, <3>1, <3>3 DEF Reached
      <4> QED BY <1>2, <1>4, <3>3, <4>1, <4>2 DEF Fits
    <3> QED BY <3>2, <3>3
  <2>6. PICK p : p = proc'[k].talk
    OBVIOUS
  <2>7. p = w /\ proc'[k].pc = "busy"
    BY <1>2, <2>6
  <2>8. Stops(k) = {} => Fits(p, k)'
    BY <2>3, <2>5, <2>7
  <2> QED BY <1>8, <2>4, <2>6, <2>7, <2>8 DEF Ahead
<1>15. Align(k)'
  <2>1. ASSUME ~HasX(w)
        PROVE  /\ \A i \in DOMAIN run[k].calls : run[k].calls[i].claimed
               /\ \A j \in DOMAIN proc[k].stdout : proc[k].stdout[j].kind # "call"
    <3>1. ~HasX(own) /\ proc[k].token # <<"x", 0>> /\ proc[k].held # None
      BY <1>2, <1>4, <2>1
    <3>2. PICK n \in Replies : Works(k, n)
      BY <1>1 DEF RunTalk, HelperTalk
    <3>3. PICK td, f : td = proc[k].todo /\ f = td[1][2]
      OBVIOUS
    <3>4. td \in Seq(CallId) /\ Len(td) \in Nat \ {0} /\ td[1][1] = n /\ f \in Nat /\ ~(Len(td) > 1)
      BY <1>0, <3>2, <3>3, WorksTodo
    <3>5. Len(td) = 1 /\ f + Len(td) - 1 = f
      <4>1. PICK l : l = Len(td)
        OBVIOUS
      <4>2. l \in Nat /\ l # 0 /\ ~(l > 1) /\ f \in Nat
        BY <3>4, <4>1
      <4>3. l = 1 /\ f + l - 1 = f
        BY <4>2
      <4> QED BY <4>1, <4>3
    <3>6. PICK d \in Nat : Aligned(k, td[1][1], td[1][2] + 1, td[1][2] + Len(td) - 1, d, Offset(k))
      BY <1>1, <1>2, <3>1, <3>3 DEF RunTalk, Align
    <3>7. PICK s, out, o : s = run[k].calls /\ out = proc[k].stdout /\ o = Offset(k)
      OBVIOUS
    <3>8. Lined(s, out, n, f + 1, f, d, o)
      BY <3>3, <3>4, <3>5, <3>6, <3>7 DEF Aligned
    <3>9. s \in Seq(ToolCall) /\ out \in Seq(Output)
      BY <1>0, <3>7, LiveTypes DEF TableInv
    <3>10. o \in Nat /\ (o = 0 \/ (o = 1 /\ out[1].kind = "result"))
      BY <3>7 DEF Offset
    <3>11. /\ \A i \in DOMAIN s : s[i].claimed
           /\ \A j \in DOMAIN out : out[j].kind # "call"
      BY <3>4, <3>8, <3>9, <3>10, LinedEmpty
    <3> QED BY <3>7, <3>11
  <2>2. PICK p : p = proc'[k]
    OBVIOUS
  <2>3. p.pc = "busy" /\ p.talk = w /\ p.stdout = proc[k].stdout /\ run'[k] = run[k]
    BY <1>2, <2>2
  <2> QED BY <2>1, <2>2, <2>3 DEF Align
<1>16. RunTalk(k)'
  BY <1>9, <1>10, <1>11, <1>12, <1>13, <1>14, <1>15 DEF RunTalk
<1> QED BY <1>0, <1>7, <1>16, OneTalk

LEMMA HelperStepTalk ==
  ASSUME TableInv, TalkInv, NEW k \in Turns, Poll(k) \/ HelperGivesUp(k)
  PROVE  TalkInv'
<1>1. TableInv' /\ Passed
  BY ProcessTable
<1>2. k \in Live /\ proc[k].pc = "tools" /\ UNCHANGED <<turn, run, reader, answer, archive>>
  BY HelperFacts
<1>3. PICK token \in Message : Settle(k, token) /\ HasFor(k, token)
  BY HelperFacts
<1>4. RunTalk(k)
  BY <1>2 DEF TalkInv, RunsTalk
<1>5. PICK all : all = Joined(proc[k].token, token)
  OBVIOUS
<1>6. /\ all \in Message /\ Marks(k, all)
      /\ all # <<"x", 0>> => proc[k].token # <<"x", 0>>
      /\ all # <<"x", 0>> /\ ~HasX(proc[k].talk) => proc[k].held # None
  BY <1>2, <1>3, <1>4, <1>5, HelperMarks
<1>7. /\ \A j \in Turns : j # k => proc'[j] = proc[j]
      /\ proc'[k].stdin = proc[k].stdin
      /\ proc'[k].stdout = proc[k].stdout
      /\ proc'[k].held = None
      /\ \/ /\ Len(proc[k].todo) > 1 /\ proc'[k].pc = proc[k].pc /\ proc'[k].talk = proc[k].talk
            /\ proc'[k].todo = Tail(proc[k].todo) /\ proc'[k].token = all
            /\ file' = file
         \/ /\ ~(Len(proc[k].todo) > 1) /\ proc'[k].pc = "busy"
            /\ proc'[k].talk = Append(proc[k].talk, all)
            /\ proc'[k].todo = <<>> /\ proc'[k].token = None
            /\ Wrote(k, proc'[k].talk)
  BY <1>3, <1>5, SettleFacts DEF TableInv
<1>8. CASE Len(proc[k].todo) > 1
  <2>1. /\ proc'[k].pc = "tools" /\ proc'[k].talk = proc[k].talk
        /\ proc'[k].todo = Tail(proc[k].todo) /\ proc'[k].token = all /\ file' = file
    BY <1>2, <1>7, <1>8
  <2>2. HelperTalk(k)' /\ Align(k)'
    BY <1>1, <1>2, <1>4, <1>6, <1>7, <1>8, <2>1, NextCall
  <2>3. FileSound'
    BY <1>1, <2>1, FileKept DEF TalkInv
  <2>4. Posted(k)'
    <3>1. Waiting(k)' = Waiting(k)
      BY <1>2, WaitingKept
    <3>2. run'[k] # None /\ Told
      BY <1>1, <1>2, QuietTalk DEF Live
    <3> QED BY <1>1, <1>2, <1>4, <3>1, <3>2, PostedKept DEF RunTalk
  <2>5. InputTalk(k)'
    <3>1. proc[k].stdin = <<>>
      BY <1>2 DEF TableInv, InputSound
    <3> QED BY <1>7, <3>1 DEF InputTalk
  <2>6. Ahead(k)' /\ Linked(k)' /\ Tied(k)' /\ LinesTalk(k)' /\ CallsTalk(k)'
    BY <1>1, <1>2, <1>4, <1>7, <2>1, AheadKept, LinkedKept, TiedKept, LinesKept, CallsKept DEF RunTalk
  <2>7. RunTalk(k)'
    BY <2>2, <2>4, <2>5, <2>6 DEF RunTalk
  <2> QED BY <1>1, <1>2, <1>7, <2>3, <2>7, OneTalk
<1>9. CASE ~(Len(proc[k].todo) > 1) BY <1>1, <1>2, <1>6, <1>7, <1>9, LastCall
<1> QED BY <1>8, <1>9

\* The lines of a new answer come after all others.
LEMMA NewLines ==
  ASSUME Types, NEW k \in Turns, NEW size \in Nat, NEW n \in Nat, NEW m \in Nat, NEW p \in Nat,
         Extended(k, size, n, m), p = m + size + 1
  PROVE  /\ DOMAIN proc[k].stdout = 1 .. m /\ Stops(k) \subseteq 1 .. m
         /\ \A i \in 1 .. m : i \in DOMAIN proc'[k].stdout /\ proc'[k].stdout[i] = proc[k].stdout[i] /\ Of(k, i)' = Of(k, i)
         /\ \A i \in DOMAIN proc'[k].stdout : i \notin 1 .. m =>
              /\ Of(k, i)' = n /\ i \in Nat /\ i > m
              /\ \/ /\ i < p /\ proc'[k].stdout[i].kind = "call" /\ proc'[k].stdout[i].call = <<n, i - m>>
                    /\ i - m \in 1 .. size
                 \/ i = p /\ proc'[k].stdout[i].kind = "stop"
                 \/ i = p + 1 /\ size = 0 /\ proc'[k].stdout[i].kind = "result"
         /\ Stops(k)' = Stops(k) \cup {p} /\ Of(k, p)' = n /\ p \notin 1 .. m
         /\ \A s \in Stops(k) : s < p
         /\ (size > 0 => m + 1 \in DOMAIN proc'[k].stdout /\ proc'[k].stdout[m + 1].kind = "call")
<1>1. /\ DOMAIN proc[k].stdout = 1 .. m
      /\ DOMAIN proc'[k].stdout = 1 .. m + size + (IF size = 0 THEN 2 ELSE 1)
      /\ \A i \in 1 .. m : proc'[k].stdout[i] = proc[k].stdout[i] /\ Of(k, i)' = Of(k, i)
      /\ \A i \in DOMAIN proc'[k].stdout : i \notin 1 .. m =>
           Of(k, i)' = n /\ (proc'[k].stdout[i].kind = "call" => proc'[k].stdout[i].call = <<n, i - m>>)
      /\ \A i \in 1 .. size : proc'[k].stdout[m + i] = OutputLine("call", n, <<n, i>>)
      /\ Of(k, m + size + 1)' = n
      /\ Stops(k)' = Stops(k) \cup {m + size + 1}
      /\ size = 0 => proc'[k].stdout[m + 2].kind = "result"
  BY DEF Extended
<1>2. Stops(k) \subseteq 1 .. m /\ p \in Nat /\ p > m
  BY <1>1 DEF Stops
<1>3. p \in Stops(k)'
  BY <1>1
<1>4. proc'[k].stdout[p].kind = "stop"
  BY <1>3 DEF Stops
<1>5. \A i \in 1 .. m : i \in DOMAIN proc'[k].stdout
  BY <1>1
<1>6. ASSUME NEW i \in DOMAIN proc'[k].stdout, i \notin 1 .. m
      PROVE  /\ Of(k, i)' = n /\ i \in Nat /\ i > m
             /\ \/ /\ i < p /\ proc'[k].stdout[i].kind = "call" /\ proc'[k].stdout[i].call = <<n, i - m>>
                   /\ i - m \in 1 .. size
                \/ i = p /\ proc'[k].stdout[i].kind = "stop"
                \/ i = p + 1 /\ size = 0 /\ proc'[k].stdout[i].kind = "result"
  <2>1. i \in Nat /\ i > m
    BY <1>1, <1>6
  <2>2. CASE i < p
    <3>1. i - m \in 1 .. size /\ m + (i - m) = i
      BY <2>1, <2>2
    <3>2. PICK x \in 1 .. size : x = i - m
      BY <3>1
    <3>3. m + x = i
      BY <2>1, <3>1, <3>2
    <3>4. proc'[k].stdout[i] = OutputLine("call", n, <<n, x>>)
      BY <1>1, <3>2, <3>3
    <3>5. proc'[k].stdout[i].kind = "call"
      BY <3>4 DEF OutputLine
    <3> QED BY <1>1, <1>6, <2>1, <2>2, <3>1, <3>5
  <2>3. CASE i = p BY <1>1, <1>4, <1>6, <2>1, <2>3
  <2>4. CASE i > p
    <3>1. size = 0 /\ i = p + 1 /\ i = m + 2
      <4>1. CASE size = 0
        <5>1. i <= m + 0 + 2
          BY <1>1, <4>1
        <5> QED BY <2>1, <2>4, <4>1, <5>1
      <4>2. CASE size # 0
        <5>1. i <= m + size + 1
          BY <1>1, <4>2
        <5> QED BY <2>1, <2>4, <5>1
      <4> QED BY <4>1, <4>2
    <3> QED BY <1>1, <1>6, <2>1, <3>1
  <2> QED BY <2>1, <2>2, <2>3, <2>4, <1>2
<1>7. ASSUME size > 0
      PROVE  m + 1 \in DOMAIN proc'[k].stdout /\ proc'[k].stdout[m + 1].kind = "call"
  <2>1. 1 \in 1 .. size /\ size # 0 /\ m + 1 \in 1 .. m + size + 1
    BY <1>7
  <2>2. proc'[k].stdout[m + 1] = OutputLine("call", n, <<n, 1>>)
    BY <1>1, <2>1
  <2> QED BY <1>1, <2>1, <2>2 DEF OutputLine
<1>8. /\ Stops(k)' = Stops(k) \cup {p} /\ Of(k, p)' = n /\ p \notin 1 .. m
      /\ \A s \in Stops(k) : s < p
  <2>1. Stops(k)' = Stops(k) \cup {p} /\ Of(k, p)' = n
    BY <1>1
  <2>2. p \notin 1 .. m /\ \A s \in Stops(k) : s < p
    BY <1>2
  <2> QED BY <2>1, <2>2
<1> QED BY <1>1, <1>2, <1>5, <1>6, <1>7, <1>8

LEMMA GenerateTalk ==
  ASSUME TableInv, TalkInv, NEW k \in Turns, Generate(k)
  PROVE  TalkInv'
<1>1. TableInv' /\ Passed
  BY GenerateTable
<1>2. PICK size \in Nat : \E n \in Nat : Generating(k, size, n) /\ Written(k, size, n)
  BY GenerateShape DEF TableInv
<1>3. PICK n \in Nat : Generating(k, size, n) /\ Written(k, size, n)
  BY <1>2
<1>4. PICK m \in Nat : Extended(k, size, n, m)
  BY <1>3, GeneratedStops DEF TableInv
<1>5. PICK own : own = proc[k].talk
  OBVIOUS
<1>6. /\ n = Len(answer) + 1 /\ proc[k].pc = "busy"
      /\ answer' \in Seq(Reply) /\ Len(answer') = n
      /\ answer'[n].to = own
      /\ \A j \in Turns : j # k => proc'[j] = proc[j]
      /\ proc'[k].pc = (IF size = 0 THEN "idle" ELSE "tools")
      /\ proc'[k].talk = Append(own, <<"a", n>>) /\ proc'[k].todo = Ids(n, size)
      /\ proc'[k].stdin = proc[k].stdin
      /\ proc'[k].held = proc[k].held /\ proc'[k].token = proc[k].token
      /\ Wrote(k, proc'[k].talk)
      /\ UNCHANGED <<turn, run, reader, archive>>
  BY <1>3, <1>5 DEF Generating
<1>7. n \in Replies' /\ \A i \in Replies : i \in Nat
  BY <1>6 DEF Replies
<1>8. k \in Live /\ run[k] # None
  BY <1>6 DEF TableInv, DeadGone, Live, NoProcess
<1>9. RunTalk(k)
  BY <1>8 DEF TalkInv, RunsTalk
<1>10. PICK w : w = Append(own, <<"a", n>>)
  OBVIOUS
<1>11. own \in Seq(Message)
  BY <1>5, LiveTypes DEF TableInv
<1>12. Last(w) = <<"a", n>> /\ w # <<>> /\ (HasX(w) <=> HasX(own)) /\ proc'[k].talk = w /\ Said(n)' = w
  <2>1. PICK a : a = <<"a", n>>
    OBVIOUS
  <2>2. a \in Message /\ a[1] = "a"
    BY <2>1, Messages
  <2>3. Last(Append(own, a)) = a /\ Append(own, a) # <<>> /\ (HasX(Append(own, a)) <=> HasX(own))
    BY <1>11, <2>2, HasXGrown, Appended
  <2>4. Said(n)' = Append(answer'[n].to, <<"a", n>>)
    BY DEF Said
  <2> QED BY <1>6, <1>10, <2>1, <2>3, <2>4
<1>13. FileSound'
  <2>1. PICK talk : talk = proc'[k].talk
    OBVIOUS
  <2>2. Wrote(k, talk) /\ talk = Said(n)' /\ Last(talk) = <<"a", n>>
    BY <1>6, <1>12, <2>1
  <2> QED BY <1>1, <1>7, <2>2, WroteTalk
<1>14. PICK p \in Nat : p = m + size + 1
  OBVIOUS
<1>15. /\ DOMAIN proc[k].stdout = 1 .. m /\ Stops(k) \subseteq 1 .. m
       /\ \A i \in 1 .. m : i \in DOMAIN proc'[k].stdout /\ proc'[k].stdout[i] = proc[k].stdout[i] /\ Of(k, i)' = Of(k, i)
       /\ \A i \in DOMAIN proc'[k].stdout : i \notin 1 .. m =>
            /\ Of(k, i)' = n /\ i \in Nat /\ i > m
            /\ \/ /\ i < p /\ proc'[k].stdout[i].kind = "call" /\ proc'[k].stdout[i].call = <<n, i - m>>
                  /\ i - m \in 1 .. size
               \/ i = p /\ proc'[k].stdout[i].kind = "stop"
               \/ i = p + 1 /\ size = 0 /\ proc'[k].stdout[i].kind = "result"
       /\ Stops(k)' = Stops(k) \cup {p} /\ Of(k, p)' = n /\ p \notin 1 .. m
       /\ \A s \in Stops(k) : s < p
       /\ (size > 0 => m + 1 \in DOMAIN proc'[k].stdout /\ proc'[k].stdout[m + 1].kind = "call")
  <2>1. Types
    BY DEF TableInv
  <2> QED BY <1>4, <1>14, <2>1, NewLines
<1>16. \A i \in Stops(k) : /\ i \in 1 .. m /\ i < p /\ Of(k, i)' = Of(k, i) /\ Of(k, i) \in Replies
                           /\ answer'[Of(k, i)].to = answer[Of(k, i)].to
  <2> SUFFICES ASSUME NEW i \in Stops(k)
               PROVE  /\ i \in 1 .. m /\ i < p /\ Of(k, i)' = Of(k, i) /\ Of(k, i) \in Replies
                      /\ answer'[Of(k, i)].to = answer[Of(k, i)].to
    OBVIOUS
  <2>1. i \in 1 .. m /\ i < p /\ Of(k, i)' = Of(k, i)
    BY <1>15
  <2>2. Of(k, i) \in Replies
    BY DEF TableInv, Known, Stops
  <2>3. answer'[Of(k, i)].to = answer[Of(k, i)].to
    BY <1>1, <2>2 DEF Passed
  <2> QED BY <2>1, <2>2, <2>3
<1>17. \A c : Fits(c, k)' <=> Fits(c, k)
  BY <1>6 DEF Fits
<1>18. p \in Stops(k)' /\ Stops(k)' # {} /\ \A s \in Stops(k)' : s \in Stops(k) \/ s = p
  BY <1>15
<1>19. Posted(k)'
  <2>1. Waiting(k)' = Waiting(k)
    BY <1>6, WaitingKept
  <2> QED BY <1>1, <1>6, <1>8, <1>9, <2>1, PostedKept, QuietTalk DEF RunTalk
<1>20. InputTalk(k)'
  <2>1. proc[k].stdin = <<>>
    BY <1>6 DEF TableInv, InputSound
  <2> QED BY <1>6, <2>1 DEF InputTalk
<1>21. Ahead(k)'
  <2>1. ASSUME NEW i \in Stops(k)', FirstStop(k, i)'
        PROVE  Fits(answer'[Of(k, i)'].to, k)
    <3>1. CASE Stops(k) = {}
      <4>1. i = p
        BY <1>18, <3>1
      <4>2. Fits(own, k)
        BY <1>5, <1>6, <1>9, <3>1 DEF RunTalk, Ahead
      <4> QED BY <1>6, <1>15, <4>1, <4>2
    <3>2. CASE Stops(k) # {}
      <4>1. PICK s : s \in Stops(k)
        BY <3>2
      <4>2. \A j \in Stops(k)' : i <= j
        BY <2>1 DEF FirstStop
      <4>3. s \in Stops(k)' /\ s \in Nat /\ s < p
        BY <1>15, <1>16, <4>1
      <4>4. i # p
        BY <1>14, <4>2, <4>3
      <4>5. i \in Stops(k) /\ \A j \in Stops(k) : i <= j
        BY <1>15, <1>18, <4>2, <4>4
      <4>6. Fits(answer[Of(k, i)].to, k)
        BY <1>9, <4>5 DEF RunTalk, Ahead, FirstStop
      <4> QED BY <1>16, <4>5, <4>6
    <3> QED BY <3>1, <3>2
  <2>2. \A i \in Stops(k)' : FirstStop(k, i)' => Fits(answer[Of(k, i)].to, k)'
    BY <1>17, <2>1 DEF Fits
  <2> QED BY <1>18, <2>2 DEF Ahead
<1>22. Linked(k)'
  <2> SUFFICES ASSUME NEW j \in Stops(k)', ~FirstStop(k, j)'
               PROVE  \E i \in Stops(k)' :
                        /\ i < j /\ \A s \in Stops(k)' : s < j => s <= i
                        /\ Given(answer'[Of(k, j)'].to) /\ Front(answer'[Of(k, j)'].to) = Said(Of(k, i))'
    BY DEF Linked
  <2>1. CASE j \in Stops(k)
    <3>1. j < p /\ j \in Nat
      BY <1>16, <2>1
    <3>2. ~FirstStop(k, j)
      <4>1. PICK s \in Stops(k)' : ~(j <= s)
        BY DEF FirstStop
      <4>2. s \in Stops(k)
        BY <1>14, <1>18, <3>1, <4>1
      <4> QED BY <4>1, <4>2 DEF FirstStop
    <3>3. PICK i \in Stops(k) :
            /\ i < j /\ \A s \in Stops(k) : s < j => s <= i
            /\ Given(answer[Of(k, j)].to) /\ Front(answer[Of(k, j)].to) = Said(Of(k, i))
      BY <1>9, <2>1, <3>2 DEF RunTalk, Linked
    <3>4. \A s \in Stops(k)' : s < j => s <= i
      BY <1>14, <1>18, <3>1, <3>3
    <3>5. Said(Of(k, i))' = Said(Of(k, i))
      BY <1>16, <3>3 DEF Said
    <3> QED BY <1>15, <1>16, <2>1, <3>3, <3>4, <3>5
  <2>2. CASE j = p
    <3>1. Stops(k) # {}
      BY <1>14, <1>18, <2>2 DEF FirstStop
    <3>2. PICK i \in Stops(k) : LastStop(k, i) /\ Given(own) /\ Front(own) = Said(Of(k, i))
      BY <1>5, <1>6, <1>9, <3>1 DEF RunTalk, Tied
    <3>3. i < p /\ \A s \in Stops(k)' : s < p => s <= i
      BY <1>14, <1>16, <1>18, <3>2 DEF LastStop
    <3>4. Said(Of(k, i))' = Said(Of(k, i))
      BY <1>16, <3>2 DEF Said
    <3>5. answer'[Of(k, j)'].to = own /\ i \in Stops(k)'
      BY <1>6, <1>15, <2>2, <3>2
    <3> QED BY <2>2, <3>2, <3>3, <3>4, <3>5
  <2> QED BY <1>18, <2>1, <2>2
<1>23. Tied(k)'
  <2>1. LastStop(k, p)'
    BY <1>14, <1>16, <1>18 DEF LastStop
  <2>2. Said(Of(k, p))' = w
    <3>1. Said(Of(k, p))' = Append(answer'[Of(k, p)'].to, <<"a", Of(k, p)'>>)
      BY DEF Said
    <3> QED BY <1>6, <1>10, <1>15, <3>1
  <2>3. proc'[k].pc # "busy" /\ proc'[k].talk = Said(Of(k, p))'
    BY <1>6, <1>12, <2>2
  <2>4. \E i \in Stops(k)' :
          /\ LastStop(k, i)'
          /\ proc'[k].pc = "busy" => Given(proc'[k].talk) /\ Front(proc'[k].talk) = Said(Of(k, i))'
          /\ proc'[k].pc \in {"tools", "idle"} => proc'[k].talk = Said(Of(k, i))'
    BY <1>18, <2>1, <2>3
  <2> QED BY <2>4 DEF Tied
<1>24. LinesTalk(k)'
  <2> SUFFICES ASSUME NEW i \in DOMAIN proc'[k].stdout
               PROVE  /\ proc'[k].stdout[i].kind = "call" =>
                           /\ proc'[k].stdout[i].call[1] = Of(k, i)'
                           /\ \E j \in Stops(k)' : /\ i < j /\ Of(k, j)' = Of(k, i)'
                                                   /\ \A s \in Stops(k)' : i < s => j <= s
                      /\ proc'[k].stdout[i].kind = "result" =>
                           IF i = 1 THEN run'[k].terminal /\ ~run'[k].parked => Last(run'[k].history) = <<"a", Of(k, 1)'>>
                           ELSE i - 1 \in Stops(k)' /\ Of(k, i - 1)' = Of(k, i)'
    BY DEF LinesTalk
  <2>1. CASE i \in 1 .. m
    <3>1. proc'[k].stdout[i] = proc[k].stdout[i] /\ Of(k, i)' = Of(k, i) /\ i \in DOMAIN proc[k].stdout /\ i \in Nat
      BY <1>15, <2>1
    <3>2. ASSUME proc[k].stdout[i].kind = "call"
          PROVE  /\ proc[k].stdout[i].call[1] = Of(k, i)
                 /\ \E j \in Stops(k)' : /\ i < j /\ Of(k, j)' = Of(k, i)
                                         /\ \A s \in Stops(k)' : i < s => j <= s
      <4>1. PICK j \in Stops(k) : /\ i < j /\ Of(k, j) = Of(k, i)
                                  /\ \A s \in Stops(k) : i < s => j <= s
        BY <1>9, <3>1, <3>2 DEF RunTalk, LinesTalk
      <4>2. j \in Stops(k)' /\ Of(k, j)' = Of(k, i) /\ j \in Nat /\ j < p
        BY <1>15, <1>16, <4>1
      <4>3. \A s \in Stops(k)' : i < s => j <= s
        BY <1>14, <1>18, <4>1, <4>2
      <4>4. proc[k].stdout[i].call[1] = Of(k, i)
        BY <1>9, <3>1, <3>2 DEF RunTalk, LinesTalk
      <4> QED BY <4>1, <4>2, <4>3, <4>4
    <3>3. ASSUME proc[k].stdout[i].kind = "result"
          PROVE  IF i = 1 THEN run'[k].terminal /\ ~run'[k].parked => Last(run'[k].history) = <<"a", Of(k, 1)'>>
                 ELSE i - 1 \in Stops(k)' /\ Of(k, i - 1)' = Of(k, i)'
      <4>1. IF i = 1 THEN run[k].terminal /\ ~run[k].parked => Last(run[k].history) = <<"a", Of(k, 1)>>
            ELSE i - 1 \in Stops(k) /\ Of(k, i - 1) = Of(k, i)
        BY <1>9, <3>1, <3>3 DEF RunTalk, LinesTalk
      <4> QED BY <1>6, <1>15, <1>16, <3>1, <4>1
    <3> QED BY <3>1, <3>2, <3>3
  <2>2. CASE i \notin 1 .. m
    <3>1. /\ Of(k, i)' = n /\ i \in Nat /\ i > m
          /\ \/ /\ i < p /\ proc'[k].stdout[i].kind = "call" /\ proc'[k].stdout[i].call = <<n, i - m>>
                /\ i - m \in 1 .. size
             \/ i = p /\ proc'[k].stdout[i].kind = "stop"
             \/ i = p + 1 /\ size = 0 /\ proc'[k].stdout[i].kind = "result"
      BY <1>15, <2>2
    <3>2. CASE i < p /\ proc'[k].stdout[i].kind = "call" /\ proc'[k].stdout[i].call = <<n, i - m>>
      <4>1. \A s \in Stops(k)' : i < s => p <= s
        <5> SUFFICES ASSUME NEW s \in Stops(k)', i < s PROVE p <= s
          OBVIOUS
        <5>1. s \notin Stops(k)
          BY <1>15, <3>1
        <5> QED BY <1>14, <1>18, <5>1
      <4>2. proc'[k].stdout[i].call[1] = n
        BY <3>2
      <4> QED BY <1>15, <1>18, <3>1, <3>2, <4>1, <4>2
    <3>3. CASE i = p /\ proc'[k].stdout[i].kind = "stop" BY <3>3
    <3>4. CASE i = p + 1 /\ size = 0 /\ proc'[k].stdout[i].kind = "result"
      <4>1. i # 1 /\ i - 1 = p
        BY <1>14, <3>4
      <4> QED BY <1>15, <1>18, <3>1, <3>4, <4>1
    <3> QED BY <3>1, <3>2, <3>3, <3>4
  <2> QED BY <2>1, <2>2
<1>25. /\ Ids(n, size) \in Seq(CallId) /\ Len(Ids(n, size)) = size /\ (size = 0 => Ids(n, size) = <<>>)
       /\ DOMAIN Ids(n, size) = 1 .. size /\ \A i \in 1 .. size : Ids(n, size)[i] = <<n, i>>
       /\ size > 0 => Ids(n, size)[1] = <<n, 1>> /\ Ids(n, size) # <<>>
  <2>1. PICK ids : ids = Ids(n, size)
    OBVIOUS
  <2>2. ids \in Seq(CallId) /\ Len(ids) = size /\ \A i \in 1 .. size : ids[i] = <<n, i>>
    BY <2>1, LinesFacts
  <2>3. DOMAIN ids = 1 .. size
    BY <2>2, LenProperties
  <2>4. size = 0 => ids = <<>>
    BY <2>2
  <2>5. size > 0 => 1 \in 1 .. size /\ ids # <<>>
    BY <2>2
  <2> QED BY <2>1, <2>2, <2>3, <2>4, <2>5
<1>26. HelperTalk(k)'
  <2>1. proc[k].todo = <<>> /\ proc[k].held = None /\ proc[k].token = None
    BY <1>6, <1>9 DEF RunTalk, HelperTalk
  <2>2. CASE size = 0 BY <1>6, <1>25, <2>1, <2>2 DEF HelperTalk
  <2>3. CASE size # 0
    <3>1. PICK q : q = proc'[k]
      OBVIOUS
    <3>2. q.pc = "tools" /\ q.talk = Said(n)' /\ q.todo = Ids(n, size) /\ q.token = None
      BY <1>6, <1>12, <2>1, <2>3, <3>1
    <3>3. PICK ids : ids = Ids(n, size)
      OBVIOUS
    <3>4. ids # <<>> /\ ids[1] = <<n, 1>> /\ DOMAIN ids = 1 .. size /\ \A i \in 1 .. size : ids[i] = <<n, i>>
      BY <1>25, <2>3, <3>3
    <3>5. \A i \in DOMAIN ids : ids[i] = <<n, ids[1][2] + i - 1>>
      <4>1. ids[1][2] = 1
        BY <3>4
      <4>2. \A i \in 1 .. size : 1 + i - 1 = i
        OBVIOUS
      <4> QED BY <3>4, <4>1, <4>2
    <3>6. Works(k, n)'
      BY <1>18, <3>1, <3>2, <3>3, <3>4, <3>5 DEF Works
    <3> QED BY <1>7, <3>1, <3>2, <3>6 DEF HelperTalk
  <2> QED BY <2>2, <2>3
<1>27. CallsTalk(k)'
  BY <1>1, <1>6, <1>9, CallsKept DEF RunTalk
<1>28. ASSUME ~HasX(own)
       PROVE  /\ \A i \in DOMAIN run[k].calls : run[k].calls[i].claimed
              /\ \A j \in 1 .. m : proc'[k].stdout[j].kind = "result" /\ j = 1
  <2>1. /\ \A i \in DOMAIN run[k].calls : run[k].calls[i].claimed
        /\ \A j \in DOMAIN proc[k].stdout : proc[k].stdout[j].kind # "call"
    BY <1>5, <1>6, <1>9, <1>28 DEF RunTalk, Align
  <2>2. Stops(k) = {}
    <3>1. SUFFICES ASSUME Stops(k) # {} PROVE FALSE
      OBVIOUS
    <3>2. Given(own)
      BY <1>5, <1>6, <1>9, <3>1 DEF RunTalk, Tied
    <3> QED BY <1>11, <1>28, <3>2, GivenHasX
  <2>3. ASSUME NEW j \in 1 .. m
        PROVE  proc'[k].stdout[j].kind = "result" /\ j = 1
    <3>1. j \in DOMAIN proc[k].stdout /\ proc'[k].stdout[j] = proc[k].stdout[j]
      BY <1>15
    <3>2. proc[k].stdout \in Seq(Output)
      BY LiveTypes DEF TableInv
    <3>3. proc[k].stdout[j] \in Output
      BY <3>1, <3>2
    <3>4. proc[k].stdout[j].kind # "call" /\ proc[k].stdout[j].kind # "stop"
      BY <2>1, <2>2, <3>1 DEF Stops
    <3>5. proc[k].stdout[j].kind = "result"
      BY <3>3, <3>4 DEF Output
    <3>6. j = 1
      BY <1>9, <2>2, <3>1, <3>5 DEF RunTalk, LinesTalk
    <3> QED BY <3>1, <3>5, <3>6
  <2> QED BY <2>1, <2>3
<1>29. Align(k)'
  <2>1. PICK q : q = proc'[k]
    OBVIOUS
  <2>2. /\ q.pc = (IF size = 0 THEN "idle" ELSE "tools") /\ q.talk = w /\ q.todo = Ids(n, size)
        /\ q.held = None /\ q.token = None /\ run'[k] = run[k]
    BY <1>6, <1>9, <1>12, <2>1 DEF RunTalk, HelperTalk
  <2>3. ASSUME ~HasX(w), size = 0
        PROVE  /\ \A i \in DOMAIN run[k].calls : run[k].calls[i].claimed
               /\ \A j \in DOMAIN proc'[k].stdout : proc'[k].stdout[j].kind # "call"
    <3>1. ~HasX(own)
      BY <1>12, <2>3
    <3>2. ASSUME NEW j \in DOMAIN proc'[k].stdout
          PROVE  proc'[k].stdout[j].kind # "call"
      <4>1. CASE j \in 1 .. m BY <1>28, <3>1, <4>1
      <4>2. CASE j \notin 1 .. m
        <5>1. j - m \notin 1 .. size
          BY <1>15, <2>3, <4>2
        <5> QED BY <1>15, <3>2, <4>2, <5>1
      <4> QED BY <4>1, <4>2
    <3> QED BY <1>28, <3>1, <3>2
  <2>4. ASSUME ~HasX(w), size # 0
        PROVE  \E d \in Nat : Lined(run[k].calls, proc'[k].stdout, n, 1, size, d, Offset(k)')
    <3>1. PICK s, out, o : s = run[k].calls /\ out = proc'[k].stdout /\ o = Offset(k)'
      OBVIOUS
    <3>2. /\ \A i \in DOMAIN s : s[i].claimed
          /\ \A j \in 1 .. m : out[j].kind = "result" /\ j = 1
      BY <1>12, <1>28, <2>4, <3>1
    <3>3. s \in Seq(ToolCall)
      BY <1>8, <3>1, LiveTypes DEF TableInv
    <3>4. PICK l \in Nat : l = Len(s) /\ DOMAIN s = 1 .. l
      <4>1. Len(s) \in Nat /\ DOMAIN s = 1 .. Len(s)
        BY <3>3, LenProperties
      <4> QED BY <4>1
    <3>5. m <= 1
      <4>1. SUFFICES ASSUME m > 1 PROVE FALSE
        OBVIOUS
      <4>2. m \in 1 .. m
        BY <4>1
      <4> QED BY <3>2, <4>1, <4>2
    <3>6. o = m
      <4>1. m + 1 \in DOMAIN out /\ out[m + 1].kind = "call"
        BY <1>15, <2>4, <3>1
      <4>2. out \in Seq(Output) /\ out # <<>>
        <5>1. proc' \in [Turns -> Tool]
          BY <1>1 DEF TableInv, Types
        <5>2. out \in Seq(Output)
          BY <3>1, <5>1 DEF Tool
        <5> QED BY <4>1, <5>2
      <4>3. o = IF out # <<>> /\ out[1].kind = "result" THEN 1 ELSE 0
        BY <3>1 DEF Offset
      <4>4. CASE m = 0
        <5>1. out[1].kind = "call"
          BY <4>1, <4>4
        <5> QED BY <4>3, <4>4, <5>1
      <4>5. CASE m = 1
        <5>1. out[1].kind = "result"
          BY <3>2, <4>5
        <5> QED BY <4>2, <4>3, <4>5, <5>1
      <4> QED BY <3>5, <4>4, <4>5
    <3>7. ASSUME NEW j \in DOMAIN out, out[j].kind = "call"
          PROVE  out[j].call = <<n, 1 + l - l + j - o - 1>> /\ 1 + l - l + j - o - 1 <= size
      <4>1. j \notin 1 .. m
        BY <3>2, <3>7
      <4>2. out[j].call = <<n, j - m>> /\ j \in Nat /\ j - m \in 1 .. size
        BY <1>14, <1>15, <3>1, <3>7, <4>1
      <4>3. 1 + l - l + j - o - 1 = j - m
        BY <3>6, <4>2
      <4> QED BY <4>2, <4>3
    <3>8. \A i \in DOMAIN s : i <= l
      BY <3>4
    <3>9. Lined(s, out, n, 1, size, l, o)
      BY <3>2, <3>4, <3>7, <3>8 DEF Lined
    <3> QED BY <3>1, <3>9
  <2>5. ASSUME ~HasX(w), size # 0
        PROVE  \E d \in Nat : Aligned(k, q.todo[1][1], q.todo[1][2] + (IF q.held = None THEN 0 ELSE 1),
                                      q.todo[1][2] + Len(q.todo) - 1, d, Offset(k))'
    <3>1. PICK d \in Nat : Lined(run[k].calls, proc'[k].stdout, n, 1, size, d, Offset(k)')
      BY <2>4, <2>5
    <3>2. q.todo[1] = <<n, 1>> /\ Len(q.todo) = size /\ q.held = None
      BY <1>25, <2>2, <2>5
    <3>3. q.todo[1][1] = n /\ q.todo[1][2] + 0 = 1 /\ q.todo[1][2] + Len(q.todo) - 1 = size
      BY <3>2
    <3>4. PICK o : o = Offset(k)'
      OBVIOUS
    <3>5. Aligned(k, n, 1, size, d, o)'
      BY <2>2, <3>1, <3>4 DEF Aligned
    <3> QED BY <3>2, <3>3, <3>4, <3>5
  <2> QED BY <2>1, <2>2, <2>3, <2>5 DEF Align
<1>30. RunTalk(k)'
  BY <1>19, <1>20, <1>21, <1>22, <1>23, <1>24, <1>26, <1>27, <1>29 DEF RunTalk
<1> QED BY <1>1, <1>6, <1>13, <1>30, OneTalk

-----------------------------------------------------------------------------
(* Requests that get a run *)

LEMMA TakenTalk ==
  ASSUME TableInv, TableInv', TalkInv, Passed, NEW t \in Turns, NEW k \in Live, NEW calls \in Seq(ToolCall),
         turn[t].pc = "asked", Taken(k, t, calls), \A j \in Turns : j # k => proc'[j] = proc[j],
         RunTalk(k)'
  PROVE  TalkInv'
<1>1. /\ \A u \in Turns : u # t => turn'[u] = turn[u]
      /\ turn'[t].pc = "open" /\ turn'[t].saved = None
      /\ turn'[t].channel = turn[t].channel
      /\ turn'[t].messages = turn[t].messages /\ turn'[t].results = turn[t].results
      /\ \A j \in Turns : j # k => run'[j] = run[j]
      /\ UNCHANGED <<reader, answer, file, archive>>
  BY TakenFacts DEF TableInv
<1>2. Heard /\ Told
  BY <1>1, HeardTold DEF Heard
<1>3. \A j \in Turns : (Sends(j)' => Sends(j) /\ reader'[j] = reader[j]) /\ (Saves(j)' => Saves(j) /\ reader'[j] = reader[j])
  BY <1>1 DEF Sends, Saves
<1>4. ClientSound' /\ SavedSound'
  BY <1>1, <1>2, ClientKept, SavedKept DEF TalkInv
<1>5. SentSound' /\ SaveSound'
  BY <1>2, <1>3, SentKept, SaveKept DEF TalkInv
<1>6. FileSound' /\ ArchiveSound'
  BY <1>1, FileKept DEF TalkInv, ArchiveSound
<1>7. Continuity'
  BY <1>1, ContinuityKept DEF TalkInv
<1>8. PICK K : K = {k}
  OBVIOUS
<1>9. \A j \in Turns : j \notin K /\ run'[j] # None => run'[j] = run[j] /\ proc'[j] = proc[j]
  BY <1>1, <1>8
<1>10. \A j \in Turns : j \in K /\ run'[j] # None => RunTalk(j)'
  BY <1>8
<1>11. RunsTalk'
  BY <1>2, <1>9, <1>10, RunsTalkKept
<1> QED BY <1>4, <1>5, <1>6, <1>7, <1>11 DEF TalkInv

\* The results are those of the answer the run is at the end of: the run's
\* conversation is the client's up to them.
LEMMA Resumed ==
  ASSUME TableInv, TalkInv, AskedSound, NEW t \in Turns, NEW k \in Live, turn[t].pc = "asked",
         turn[t].results # {}, run[k].sender = None, run[k].parked, turn[t].results = Waiting(k)
  PROVE  /\ run[k].history = Front(turn[t].messages) /\ ~Twice(run[k].history)
         /\ \E e \in Replies : (\A j \in Turns : ~Unread(e, j)) /\ \A c \in Waiting(k) : c[1] = e
<1>1. PICK prev \in Turns \cup {None} : Follows(t, prev)
  BY DEF AskedSound
<1>2. PICK g : g = turn[prev].got
  OBVIOUS
<1>3. /\ prev \in Turns /\ turn[prev].pc = "done" /\ g \in Replies
      /\ Front(turn[t].messages) = Prior(prev) /\ prev # None
      /\ turn[t].results = answer[g].calls
  BY <1>1, <1>2 DEF Follows, Finished
<1>4. RunTalk(k)
  BY DEF TalkInv, RunsTalk
<1>5. PICK e \in Replies : RestsAt(k, e)
  BY <1>4 DEF RunTalk, Posted
<1>6. /\ answer[e].calls # {} /\ answer[e].calls \subseteq Waiting(k)
      /\ Twice(run[k].history) => \E c \in Waiting(k) : c[1] # e
      /\ \A j \in Turns : ~Unread(e, j)
      /\ \A p \in Turns : At(e, p) /\ turn[p].pc \in {"open", "done"} =>
           run[k].history = Append(turn[p].messages, <<"a", e>>)
  BY <1>5 DEF RestsAt
<1>7. e = g /\ \A c \in Waiting(k) : c[1] = e
  <2>1. \A c \in Waiting(k) : c[1] = g
    BY <1>3 DEF TableInv, Known
  <2>2. PICK c \in answer[e].calls : TRUE
    BY <1>6
  <2>3. c[1] = e /\ c \in Waiting(k)
    BY <1>6, <2>2 DEF TableInv, Known
  <2> QED BY <2>1, <2>3
<1>8. At(e, prev)
  BY <1>2, <1>3, <1>7 DEF At
<1>9. run[k].history = Append(turn[prev].messages, <<"a", e>>)
  BY <1>3, <1>6, <1>8
<1>10. Talk(prev) = Append(turn[prev].messages, <<"a", turn[prev].got>>)
  BY <1>2, <1>3, TalkLast DEF TalkInv
<1>11. run[k].history = Front(turn[t].messages)
  BY <1>2, <1>3, <1>7, <1>9, <1>10 DEF Prior
<1>12. ~Twice(run[k].history)
  BY <1>6, <1>7
<1> QED BY <1>6, <1>7, <1>11, <1>12

LEMMA ReturnTalk ==
  ASSUME TableInv, TalkInv, AskedSound, NEW t \in Turns, ReturnResults(t)
  PROVE  TalkInv'
<1>1. TableInv' /\ Passed
  BY ReturnTable
<1>2. PICK k \in Live : \E calls \in Seq(ToolCall) :
        /\ turn[t].pc = "asked" /\ turn[t].results # {} /\ run[k].sender = None /\ run[k].parked
        /\ turn[t].results = CallIds(Unanswered(k))
        /\ calls = [i \in DOMAIN run[k].calls |->
                      [run[k].calls[i] EXCEPT !.result = IF @ = None THEN t ELSE @]]
        /\ Taken(k, t, calls) /\ proc' = proc
  BY ReturnFacts DEF TableInv
<1>3. PICK calls \in Seq(ToolCall) :
        /\ turn[t].pc = "asked" /\ turn[t].results # {} /\ run[k].sender = None /\ run[k].parked
        /\ turn[t].results = CallIds(Unanswered(k))
        /\ calls = [i \in DOMAIN run[k].calls |->
                      [run[k].calls[i] EXCEPT !.result = IF @ = None THEN t ELSE @]]
        /\ Taken(k, t, calls) /\ proc' = proc
  BY <1>2
<1>4. CallIds(Unanswered(k)) = Waiting(k)
  BY DEF Unanswered, Waiting, WaitingIn
<1>5. RunTalk(k)
  BY DEF TalkInv, RunsTalk
<1>6. PICK h, M, r, s : h = run[k].history /\ M = turn[t].messages /\ r = <<"r", t>> /\ s = run[k].calls
  OBVIOUS
<1>7. /\ h = Front(M) /\ ~Twice(h)
      /\ \E e \in Replies : (\A j \in Turns : ~Unread(e, j)) /\ \A c \in Waiting(k) : c[1] = e
  BY <1>3, <1>4, <1>6, Resumed
<1>8. PICK e \in Replies : (\A j \in Turns : ~Unread(e, j)) /\ \A c \in Waiting(k) : c[1] = e
  BY <1>7
<1>9. h \in Seq(Message) /\ r \in Message /\ M = Append(h, r) /\ r[1] = "r" /\ Last(M)[1] = "r"
  <2>1. ~Text(t) /\ ClientSound
    BY <1>3 DEF Text, TalkInv
  <2>2. /\ M = Append(Front(M), Last(M)) /\ Front(M) \in Seq(Message) /\ Last(M) \in Message
        /\ Last(M) = <<"r", t>>
    BY <1>3, <1>6, <2>1, ClientLast
  <2>3. r[1] = "r"
    BY <1>6
  <2> QED BY <1>6, <1>7, <2>2, <2>3
<1>10. k \in Turns /\ s \in Seq(ToolCall) /\ t # None
  BY <1>6, Kinds, LiveTypes DEF TableInv
<1>11. /\ run'[k].sender = t /\ run'[k].history = M /\ run'[k].calls = calls
       /\ ~run'[k].parked /\ ~run'[k].terminal
       /\ turn'[t].messages = M /\ proc' = proc
  BY <1>3, <1>6, TakenFacts DEF TableInv
<1>12. /\ DOMAIN calls = DOMAIN s /\ Len(calls) = Len(s)
       /\ \A i \in DOMAIN s : /\ calls[i].id = s[i].id /\ calls[i].claimed = s[i].claimed
                              /\ calls[i].result = (IF s[i].result = None THEN t ELSE s[i].result)
  <2>1. calls = [i \in DOMAIN s |-> [s[i] EXCEPT !.result = IF s[i].result = None THEN t ELSE s[i].result]]
    BY <1>3, <1>6
  <2>2. \A i \in DOMAIN s : s[i] \in ToolCall
    BY <1>10
  <2>3. DOMAIN calls = DOMAIN s
    BY <2>1
  <2>4. Len(calls) = Len(s)
    <3>1. Len(s) \in Nat /\ DOMAIN s = 1 .. Len(s) /\ Len(calls) \in Nat /\ DOMAIN calls = 1 .. Len(calls)
      BY <1>10, LenProperties
    <3> QED BY <2>3, <3>1
  <2> QED BY <2>1, <2>2, <2>3, <2>4 DEF ToolCall
<1>13. \A own \in Seq(Message) : Fits(own, k) => Fits(own, k)'
  <2> SUFFICES ASSUME NEW own \in Seq(Message), Fits(own, k) PROVE Same(own, M)
    BY <1>10, <1>11 DEF Fits
  <2>1. Given(own) /\ Same(Front(own), h)
    BY <1>3, <1>6, <1>7 DEF Fits
  <2> QED BY <1>9, <2>1, SameGiven
<1>14. \A own : Reached(own, k) => Reached(own, k)'
  <2> SUFFICES ASSUME NEW own, Reached(own, k) PROVE Same(own, Front(M))
    BY <1>10, <1>11 DEF Reached
  <2> QED BY <1>3, <1>6, <1>7 DEF Reached
<1>15. Stops(k)' = Stops(k) /\ \A i : Of(k, i)' = Of(k, i)
  BY <1>10, <1>11, Kept
<1>16. Posted(k)'
  BY <1>10, <1>11 DEF Posted
<1>17. InputTalk(k)'
  <2>1. proc[k].stdin = <<>>
    BY <1>3, <1>5 DEF RunTalk, InputTalk
  <2> QED BY <1>11, <2>1 DEF InputTalk
<1>18. Ahead(k)'
  <2>1. /\ \A i : FirstStop(k, i)' <=> FirstStop(k, i)
        /\ \A i \in Stops(k) : answer'[Of(k, i)].to = answer[Of(k, i)].to
    BY <1>1, <1>10, <1>11, OutputKept
  <2>2. \A i \in Stops(k) : FirstStop(k, i) => Fits(answer[Of(k, i)].to, k)'
    <3> SUFFICES ASSUME NEW i \in Stops(k), FirstStop(k, i) PROVE Fits(answer[Of(k, i)].to, k)'
      OBVIOUS
    <3>1. answer' = answer
      BY <1>3 DEF Taken
    <3>2. Of(k, i) \in Replies
      BY <1>10 DEF TableInv, Known, Stops
    <3>3. PICK c : c = answer[Of(k, i)].to
      OBVIOUS
    <3>4. c \in Seq(Message)
      BY <3>2, <3>3, SaidFacts DEF TableInv
    <3>5. Fits(c, k)
      BY <1>5, <3>3 DEF RunTalk, Ahead
    <3>6. Fits(c, k)'
      BY <1>13, <3>4, <3>5
    <3> QED BY <1>11, <1>15, <3>1, <3>3, <3>6 DEF Fits
  <2>3. \A i \in Stops(k)' : FirstStop(k, i)' => Fits(answer[Of(k, i)].to, k)'
    BY <1>15, <2>1, <2>2
  <2>4. PICK c : c = proc[k].talk
    OBVIOUS
  <2>5. c \in Seq(Message)
    BY <1>10, <2>4, LiveTypes DEF TableInv
  <2>6. Stops(k) = {} => /\ proc[k].pc = "busy" => Fits(c, k)'
                         /\ proc[k].pc \in {"tools", "idle"} => Reached(c, k)'
    BY <1>5, <1>13, <1>14, <2>4, <2>5 DEF RunTalk, Ahead
  <2>7. c = proc'[k].talk /\ proc'[k].pc = proc[k].pc
    BY <1>11, <2>4
  <2>8. Last(run'[k].history)[1] = "r"
    BY <1>9, <1>11
  <2> QED BY <1>15, <2>3, <2>6, <2>7, <2>8 DEF Ahead
<1>19. Linked(k)' /\ Tied(k)' /\ LinesTalk(k)'
  BY <1>1, <1>5, <1>10, <1>11, LinkedKept, TiedKept, LinesKept DEF RunTalk
<1>20. HelperTalk(k)'
  <2>1. CASE proc[k].pc = "tools"
    <3>1. PICK n \in Replies : Works(k, n)
      BY <1>5, <2>1 DEF RunTalk, HelperTalk
    <3>2. n \in Replies' /\ Said(n)' = Said(n)
      BY <1>1, SaidKept
    <3>3. ASSUME Stops(k) = {}, NEW c \in Range(calls), c.id[1] = n, c.result # None
          PROVE  c.result = t
      <4>1. PICK i \in DOMAIN s : c = calls[i]
        BY <1>12, <3>3 DEF Range
      <4>2. s[i] \in Range(run[k].calls) /\ c.id = s[i].id
        BY <1>6, <1>12, <4>1 DEF Range
      <4>3. s[i].result # None => s[i].result = run[k].sender
        BY <3>1, <3>3, <4>2 DEF Works
      <4> QED BY <1>3, <1>12, <4>1, <4>3
    <3>4. /\ proc[k].talk = Said(n) /\ proc[k].todo # <<>>
          /\ \A i \in DOMAIN proc[k].todo : proc[k].todo[i] = <<n, proc[k].todo[1][2] + i - 1>>
          /\ \/ proc[k].token \in {None, <<"x", 0>>}
             \/ proc[k].token = <<"s", 0>> /\ HasX(proc[k].talk)
      BY <1>3, <3>1 DEF Works
    <3>5. PICK p : p = proc[k] /\ p = proc'[k]
      BY <1>11
    <3>6. Works(k, n)'
      BY <1>11, <1>15, <3>2, <3>3, <3>4, <3>5 DEF Works
    <3> QED BY <1>11, <2>1, <3>2, <3>6 DEF HelperTalk
  <2>2. CASE proc[k].pc # "tools" BY <1>5, <1>11, <2>2 DEF RunTalk, HelperTalk
  <2> QED BY <2>1, <2>2
<1>21. CallsTalk(k)'
  <2>1. ASSUME NEW c \in Range(calls)
        PROVE  \E b \in Range(s) : c.id = b.id /\ (c.result = b.result \/ ~Unread(c.id[1], k))
    <3>1. PICK i \in DOMAIN s : c = calls[i]
      BY <1>12, <2>1 DEF Range
    <3>2. s[i] \in Range(s) /\ c.id = s[i].id
      BY <1>12, <3>1 DEF Range
    <3>3. CASE s[i].result = None
      <4>1. c.id \in Waiting(k)
        BY <1>6, <3>2, <3>3 DEF Waiting, WaitingIn, CallIds
      <4>2. ~Unread(c.id[1], k)
        BY <1>8, <1>10, <4>1
      <4> QED BY <3>2, <4>2
    <3>4. CASE s[i].result # None BY <1>12, <3>1, <3>2, <3>4
    <3> QED BY <3>3, <3>4
  <2> QED BY <1>1, <1>5, <1>6, <1>10, <1>11, <2>1, CallsKept DEF RunTalk
<1>22. Align(k)'
  <2>1. Align(k) /\ proc'[k] = proc[k]
    BY <1>5, <1>11 DEF RunTalk
  <2>2. /\ Len(run'[k].calls) = Len(run[k].calls) /\ DOMAIN run'[k].calls = DOMAIN run[k].calls
        /\ \A i \in DOMAIN run[k].calls : /\ run'[k].calls[i].claimed = run[k].calls[i].claimed
                                          /\ run'[k].calls[i].id = run[k].calls[i].id
    BY <1>6, <1>11, <1>12
  <2> QED BY <1>10, <2>1, <2>2, AlignKept
<1>23. RunTalk(k)'
  BY <1>16, <1>17, <1>18, <1>19, <1>20, <1>21, <1>22 DEF RunTalk
<1>24. \A j \in Turns : j # k => proc'[j] = proc[j]
  BY <1>11
<1> QED BY <1>1, <1>3, <1>23, <1>24, TakenTalk

LEMMA ContinueTalk ==
  ASSUME TableInv, TalkInv, NEW t \in Turns, Continue(t)
  PROVE  TalkInv'
<1>1. TableInv' /\ Passed
  BY ContinueTable
<1>2. PICK k \in Live :
        /\ turn[t].pc = "asked" /\ turn[t].results = {} /\ run[k].sender = None /\ ~run[k].parked
        /\ run[k].history = Front(turn[t].messages)
        /\ Taken(k, t, <<>>) /\ proc[k].pc # "dead"
        /\ proc' = [proc EXCEPT ![k].stdin = Append(@, <<"u", t>>)]
  BY ContinueFacts DEF TableInv
<1>3. RunTalk(k)
  BY DEF TalkInv, RunsTalk
<1>4. PICK h, M : h = run[k].history /\ M = turn[t].messages
  OBVIOUS
<1>5. h = Front(M) /\ ~Twice(h) /\ Last(M) = <<"u", t>>
  <2>1. Text(t) /\ ClientSound
    BY <1>2 DEF Text, TalkInv
  <2>2. ~Twice(Front(M)) /\ Last(M) = <<"u", t>>
    BY <1>2, <1>4, <2>1, ClientLast
  <2> QED BY <1>2, <1>4, <2>2
<1>6. k \in Turns /\ proc[k] \in Tool /\ proc \in [Turns -> Tool] /\ t # None
  BY Kinds, LiveTypes DEF TableInv, Types
<1>7. /\ \A i \in DOMAIN proc[k].stdout : proc[k].stdout[i].kind = "result"
      /\ proc[k].pc = "idle" /\ proc[k].stdin = <<>>
  BY <1>2 DEF TableInv, RestSound
<1>8. Stops(k) = {}
  BY <1>7 DEF Stops
<1>9. PICK stdin : stdin = Append(proc[k].stdin, <<"u", t>>)
  OBVIOUS
<1>10. /\ \A j \in Turns : j # k => proc'[j] = proc[j]
       /\ proc'[k] = [proc[k] EXCEPT !.stdin = stdin]
  BY <1>2, <1>6, <1>9
<1>11. /\ proc'[k].stdout = proc[k].stdout /\ proc'[k].pc = proc[k].pc /\ proc'[k].talk = proc[k].talk
       /\ proc'[k].todo = proc[k].todo /\ proc'[k].held = proc[k].held /\ proc'[k].token = proc[k].token
       /\ proc'[k].stdin = stdin
  BY <1>6, <1>10 DEF Tool
<1>12. stdin = <<Last(M)>>
  <2>1. Append(<<>>, <<"u", t>>) = <<<<"u", t>>>>
    OBVIOUS
  <2> QED BY <1>5, <1>7, <1>9, <2>1
<1>13. <<>> \in Seq(ToolCall) /\ DOMAIN <<>> = {} /\ Range(<<>>) = {}
  <2>1. <<>> \in Seq(ToolCall) /\ DOMAIN <<>> = {}
    OBVIOUS
  <2>2. Range(<<>>) = {}
    BY <2>1 DEF Range
  <2> QED BY <2>1, <2>2
<1>14. PICK calls : calls = <<>>
  OBVIOUS
<1>15. calls \in Seq(ToolCall) /\ Taken(k, t, calls)
  BY <1>2, <1>13, <1>14
<1>16. /\ run'[k].sender = t /\ run'[k].history = M /\ run'[k].calls = <<>>
       /\ ~run'[k].parked /\ ~run'[k].terminal /\ turn'[t].messages = M
  <2>1. Types
    BY DEF TableInv
  <2>2. /\ run'[k].sender = t /\ run'[k].history = turn[t].messages /\ run'[k].calls = calls
        /\ ~run'[k].parked /\ ~run'[k].terminal /\ turn'[t].messages = turn[t].messages
    BY <1>15, <2>1, TakenFacts
  <2> QED BY <1>4, <1>14, <2>2
<1>17. Stops(k)' = {}
  BY <1>6, <1>8, <1>11, Kept
<1>18. Posted(k)'
  BY <1>6, <1>16 DEF Posted
<1>19. InputTalk(k)'
  BY <1>6, <1>11, <1>12, <1>16, <1>17 DEF InputTalk
<1>20. Ahead(k)'
  <2>1. Same(proc[k].talk, h)
    BY <1>2, <1>3, <1>4, <1>5, <1>7, <1>8 DEF RunTalk, Ahead, Reached
  <2>2. PICK c : c = proc'[k].talk
    OBVIOUS
  <2>3. Reached(c, k)'
    BY <1>5, <1>6, <1>11, <1>16, <2>1, <2>2 DEF Reached
  <2> QED BY <1>7, <1>11, <1>17, <2>2, <2>3 DEF Ahead
<1>21. Linked(k)' /\ Tied(k)' /\ LinesTalk(k)'
  BY <1>1, <1>3, <1>6, <1>11, <1>16, LinkedKept, TiedKept, LinesKept DEF RunTalk
<1>22. HelperTalk(k)'
  BY <1>3, <1>7, <1>11 DEF RunTalk, HelperTalk
<1>23. CallsTalk(k)'
  BY <1>13, <1>16 DEF CallsTalk
<1>24. Align(k)'
  BY <1>7, <1>11, <1>13, <1>16 DEF Align
<1>25. RunTalk(k)'
  BY <1>18, <1>19, <1>20, <1>21, <1>22, <1>23, <1>24 DEF RunTalk
<1> QED BY <1>1, <1>2, <1>10, <1>25, <1>15, TakenTalk

LEMMA SpawnTalk ==
  ASSUME TableInv, TalkInv, NEW t \in Turns, Spawn(t)
  PROVE  TalkInv'
<1>1. TableInv' /\ Passed
  BY SpawnTable
<1>2. PICK K \in SUBSET Idle :
        /\ turn[t].pc = "asked" /\ turn[t].results = {}
        /\ \A u \in Turns : u # t => turn'[u] = turn[u]
        /\ turn'[t].pc = "open" /\ turn'[t].saved = None
        /\ turn'[t].channel = turn[t].channel
        /\ turn'[t].messages = turn[t].messages /\ turn'[t].results = turn[t].results
        /\ \A j \in Turns : j # t /\ j \in K => run'[j] = None /\ proc'[j] = NoProcess
        /\ \A j \in Turns : j # t /\ j \notin K => run'[j] = run[j] /\ proc'[j] = proc[j]
        /\ run'[t] = [sender |-> t, history |-> turn[t].messages, calls |-> <<>>,
                      parked |-> FALSE, terminal |-> FALSE]
        /\ proc'[t] = Fresh(t)
        /\ UNCHANGED <<reader, answer, archive>>
  BY SpawnFacts
<1>3. PICK M : M = turn[t].messages
  OBVIOUS
<1>4. M \in Seq(Message) /\ Last(M) = <<"u", t>> /\ M # <<>>
  <2>1. Text(t) /\ ClientSound
    BY <1>2 DEF Text, TalkInv
  <2> QED BY <1>2, <1>3, <2>1, ClientLast
<1>5. Heard /\ Told
  BY <1>2, HeardTold DEF Heard
<1>6. \A j \in Turns : (Sends(j)' => Sends(j) /\ reader'[j] = reader[j]) /\ (Saves(j)' => Saves(j) /\ reader'[j] = reader[j])
  BY <1>2 DEF Sends, Saves
<1>7. ClientSound' /\ SavedSound'
  BY <1>2, <1>5, ClientKept, SavedKept DEF TalkInv
<1>8. SentSound' /\ SaveSound'
  BY <1>1, <1>5, <1>6, SentKept, SaveKept DEF TalkInv
<1>9. ArchiveSound' /\ Continuity'
  BY <1>1, <1>2, ContinuityKept DEF TalkInv, ArchiveSound
<1>10. FileSound'
  <2>1. ASSUME NEW s \in Turns
        PROVE  \/ file'[s] \in {file[s], NoFile}
               \/ file'[s].tip # <<>> /\ Last(file'[s].tip)[1] # "a"
    <3>1. file'[s] = [length |-> 1, tip |-> M] \/ file'[s] \in {file[s], NoFile}
      BY <1>3 DEF Spawn
    <3>2. ASSUME file'[s] = [length |-> 1, tip |-> M]
          PROVE  file'[s].tip # <<>> /\ Last(file'[s].tip)[1] # "a"
      <4>1. file'[s].tip = M
        BY <3>2
      <4>2. Last(M)[1] # "a"
        BY <1>4
      <4> QED BY <1>4, <4>1, <4>2
    <3> QED BY <3>1, <3>2
  <2> QED BY <1>1, <2>1, FileKept DEF TalkInv
<1>11. /\ proc'[t].stdout = <<>> /\ proc'[t].todo = <<>> /\ proc'[t].held = None /\ proc'[t].token = None
       /\ \/ proc'[t].pc = "idle" /\ proc'[t].stdin = <<Last(M)>> /\ Same(proc'[t].talk, Front(M))
          \/ proc'[t].pc = "busy" /\ proc'[t].stdin = <<>> /\ proc'[t].talk = M
  <2>1. CASE Resumes(t)
    <3>1. PICK s : s = turn[t].saved
      OBVIOUS
    <3>2. s # None /\ Same(s.transcript.tip, Front(M))
      BY <1>3, <2>1, <3>1 DEF Resumes, TalkInv, SavedSound
    <3>3. proc'[t] = [NoProcess EXCEPT !.pc = "idle", !.session = s.session,
                        !.talk = s.transcript.tip, !.stdin = <<Last(M)>>]
      BY <1>2, <1>3, <2>1, <3>1 DEF Fresh
    <3> QED BY <3>2, <3>3 DEF NoProcess
  <2>2. CASE ~Resumes(t)
    <3>1. proc'[t] = [NoProcess EXCEPT !.pc = "busy", !.session = t, !.talk = M]
      BY <1>2, <1>3, <2>2 DEF Fresh
    <3> QED BY <3>1 DEF NoProcess
  <2> QED BY <2>1, <2>2
<1>12. /\ run'[t].sender = t /\ run'[t].history = M /\ run'[t].calls = <<>>
       /\ ~run'[t].parked /\ ~run'[t].terminal /\ t # None
       /\ DOMAIN <<>> = {} /\ Range(<<>>) = {}
  BY <1>2, <1>3, Kinds DEF Range
<1>13. Stops(t)' = {}
  BY <1>11, <1>12 DEF Stops
<1>14. Posted(t)'
  BY <1>2, <1>3, <1>12 DEF Posted
<1>15. InputTalk(t)'
  BY <1>11, <1>12, <1>13 DEF InputTalk
<1>16. Ahead(t)'
  <2>1. PICK c : c = proc'[t].talk
    OBVIOUS
  <2>2. proc'[t].pc = "busy" => Fits(c, t)'
    <3>1. Same(M, M)
      BY <1>4, SameSelf
    <3> QED BY <1>11, <1>12, <2>1, <3>1 DEF Fits
  <2>3. proc'[t].pc = "idle" => Reached(c, t)'
    BY <1>11, <1>12, <2>1 DEF Reached
  <2>4. proc'[t].pc # "tools"
    BY <1>11
  <2> QED BY <1>13, <2>1, <2>2, <2>3, <2>4 DEF Ahead
<1>17. Linked(t)' /\ Tied(t)'
  BY <1>13 DEF Linked, Tied
<1>18. LinesTalk(t)' /\ CallsTalk(t)' /\ Align(t)'
  <2>1. proc'[t].pc # "tools"
    BY <1>11
  <2>2. LinesTalk(t)'
    BY <1>11, <1>12 DEF LinesTalk
  <2>3. CallsTalk(t)'
    BY <1>12 DEF CallsTalk
  <2>4. DOMAIN run'[t].calls = {} /\ DOMAIN proc'[t].stdout = {}
    BY <1>11, <1>12
  <2>5. Align(t)'
    BY <2>1, <2>4 DEF Align
  <2> QED BY <2>2, <2>3, <2>5
<1>19. HelperTalk(t)'
  <2>1. proc'[t].pc # "tools"
    BY <1>11
  <2> QED BY <1>11, <2>1 DEF HelperTalk
<1>20. RunTalk(t)'
  BY <1>14, <1>15, <1>16, <1>17, <1>18, <1>19 DEF RunTalk
<1>21. PICK D : D = {t}
  OBVIOUS
<1>22. \A j \in Turns : j \notin D /\ run'[j] # None => run'[j] = run[j] /\ proc'[j] = proc[j]
  BY <1>2, <1>21
<1>23. \A j \in Turns : j \in D /\ run'[j] # None => RunTalk(j)'
  BY <1>20, <1>21
<1>24. RunsTalk'
  BY <1>1, <1>5, <1>22, <1>23, RunsTalkKept
<1> QED BY <1>7, <1>8, <1>9, <1>10, <1>24 DEF TalkInv

-----------------------------------------------------------------------------
(* Lines that are read *)

\* The lines but the first move up.
LEMMA Moved ==
  ASSUME TableInv, NEW k \in Turns, proc[k].stdout # <<>>, proc'[k].stdout = Tail(proc[k].stdout)
  PROVE  /\ Stops(k) \subseteq Nat \ {0} /\ Stops(k)' \subseteq Nat \ {0}
         /\ \A i \in Stops(k)' : i + 1 \in Stops(k) /\ Of(k, i)' = Of(k, i + 1)
         /\ \A i \in Stops(k) : i # 1 => i - 1 \in Stops(k)' /\ Of(k, i - 1)' = Of(k, i)
         /\ \A i \in DOMAIN proc'[k].stdout :
              /\ i \in Nat \ {0} /\ i + 1 \in DOMAIN proc[k].stdout
              /\ proc'[k].stdout[i] = proc[k].stdout[i + 1] /\ Of(k, i)' = Of(k, i + 1)
         /\ 1 \in DOMAIN proc[k].stdout /\ Line(k) = proc[k].stdout[1] /\ Line(k).answer = Of(k, 1)
         /\ 1 \in Stops(k) <=> Line(k).kind = "stop"
         /\ Of(k, 1) \in Replies
<1>0. Types
  BY DEF TableInv
<1>1. Shifts(k)
  BY <1>0, Shifted
<1>2. ASSUME NEW i \in Stops(k), i # 1
      PROVE  i - 1 \in Stops(k)' /\ Of(k, i - 1)' = Of(k, i)
  <2>1. i \in Nat \ {0}
    BY <1>1 DEF Shifts
  <2>2. PICK h \in Nat \ {0} : h = i - 1
    BY <1>2, <2>1
  <2>3. h + 1 = i
    BY <2>1, <2>2
  <2>4. h \in Stops(k)' /\ Of(k, h)' = Of(k, i)
    BY <1>1, <2>2, <2>3 DEF Shifts
  <2> QED BY <2>2, <2>4
<1>3. Of(k, 1) \in Replies
  BY <1>1 DEF TableInv, Known, Shifts
<1> QED BY <1>1, <1>2, <1>3 DEF Shifts

LEMMA ShiftLinks ==
  ASSUME TableInv, NEW k \in Turns, UNCHANGED answer, proc[k].stdout # <<>>, proc'[k].stdout = Tail(proc[k].stdout),
         proc'[k].pc = proc[k].pc, proc'[k].talk = proc[k].talk, Linked(k), Tied(k)
  PROVE  Linked(k)' /\ Tied(k)'
<1>1. /\ Stops(k) \subseteq Nat \ {0} /\ Stops(k)' \subseteq Nat \ {0}
      /\ \A i \in Stops(k)' : i + 1 \in Stops(k) /\ Of(k, i)' = Of(k, i + 1)
      /\ \A i \in Stops(k) : i # 1 => i - 1 \in Stops(k)' /\ Of(k, i - 1)' = Of(k, i)
  BY Moved
<1>2. Linked(k)'
  <2> SUFFICES ASSUME NEW j \in Stops(k)', ~FirstStop(k, j)'
               PROVE  \E i \in Stops(k)' :
                        /\ i < j /\ \A s \in Stops(k)' : s < j => s <= i
                        /\ Given(answer'[Of(k, j)'].to) /\ Front(answer'[Of(k, j)'].to) = Said(Of(k, i))'
    BY DEF Linked
  <2>1. PICK b \in Stops(k)' : ~(j <= b)
    BY DEF FirstStop
  <2>2. /\ j \in Nat \ {0} /\ b \in Nat \ {0} /\ j + 1 \in Stops(k) /\ b + 1 \in Stops(k)
        /\ ~(j + 1 <= b + 1) /\ b + 1 < j + 1 /\ Of(k, j)' = Of(k, j + 1)
    BY <1>1, <2>1
  <2>3. ~FirstStop(k, j + 1)
    BY <2>2 DEF FirstStop
  <2>4. PICK i \in Stops(k) :
          /\ i < j + 1 /\ \A s \in Stops(k) : s < j + 1 => s <= i
          /\ Given(answer[Of(k, j + 1)].to) /\ Front(answer[Of(k, j + 1)].to) = Said(Of(k, i))
    BY <2>2, <2>3 DEF Linked
  <2>5. i \in Nat /\ i # 1 /\ b + 1 <= i
    BY <1>1, <2>2, <2>4
  <2>6. PICK h : h = i - 1
    OBVIOUS
  <2>7. h \in Stops(k)' /\ Of(k, h)' = Of(k, i) /\ h < j
    BY <1>1, <2>2, <2>4, <2>5, <2>6
  <2>8. ASSUME NEW s \in Stops(k)', s < j
        PROVE  s <= h
    <3>1. s + 1 \in Stops(k) /\ s \in Nat /\ s + 1 < j + 1
      BY <1>1, <2>2, <2>8
    <3>2. s + 1 <= i
      BY <2>4, <3>1
    <3> QED BY <2>5, <2>6, <3>1, <3>2
  <2>9. Said(Of(k, h))' = Said(Of(k, i))
    BY <2>7 DEF Said
  <2> QED BY <2>2, <2>4, <2>7, <2>8, <2>9
<1>3. Tied(k)'
  <2> SUFFICES ASSUME Stops(k)' # {}
               PROVE  \E i \in Stops(k)' :
                        /\ LastStop(k, i)'
                        /\ proc[k].pc = "busy" => Given(proc[k].talk) /\ Front(proc[k].talk) = Said(Of(k, i))'
                        /\ proc[k].pc \in {"tools", "idle"} => proc[k].talk = Said(Of(k, i))'
    BY DEF Tied
  <2>1. PICK b \in Stops(k)' : TRUE
    OBVIOUS
  <2>2. b \in Nat \ {0} /\ b + 1 \in Stops(k)
    BY <1>1
  <2>3. PICK i \in Stops(k) :
          /\ LastStop(k, i)
          /\ proc[k].pc = "busy" => Given(proc[k].talk) /\ Front(proc[k].talk) = Said(Of(k, i))
          /\ proc[k].pc \in {"tools", "idle"} => proc[k].talk = Said(Of(k, i))
    BY <2>2 DEF Tied
  <2>4. i \in Nat /\ b + 1 <= i /\ i # 1
    BY <1>1, <2>2, <2>3 DEF LastStop
  <2>5. PICK h : h = i - 1
    OBVIOUS
  <2>6. h \in Stops(k)' /\ Of(k, h)' = Of(k, i)
    BY <1>1, <2>4, <2>5
  <2>7. \A s \in Stops(k)' : s <= h
    <3> SUFFICES ASSUME NEW s \in Stops(k)' PROVE s <= h
      OBVIOUS
    <3>1. s + 1 \in Stops(k) /\ s \in Nat
      BY <1>1
    <3>2. s + 1 <= i
      BY <2>3, <3>1 DEF LastStop
    <3> QED BY <2>4, <2>5, <3>1, <3>2
  <2>8. LastStop(k, h)' /\ Said(Of(k, h))' = Said(Of(k, i))
    BY <2>6, <2>7 DEF LastStop, Said
  <2> QED BY <2>3, <2>6, <2>8
<1> QED BY <1>2, <1>3

\* The lines left; the first of them is a result only after an end.
LEMMA ShiftLines ==
  ASSUME TableInv, NEW k \in Turns, UNCHANGED answer, proc[k].stdout # <<>>, proc'[k].stdout = Tail(proc[k].stdout),
         LinesTalk(k),
         Line(k).kind = "stop" /\ run'[k].terminal /\ ~run'[k].parked => Last(run'[k].history) = <<"a", Line(k).answer>>
  PROVE  /\ LinesTalk(k)'
         /\ Line(k).kind # "stop" => Offset(k)' = 0
<1>1. /\ Stops(k) \subseteq Nat \ {0} /\ Stops(k)' \subseteq Nat \ {0}
      /\ \A i \in Stops(k)' : i + 1 \in Stops(k) /\ Of(k, i)' = Of(k, i + 1)
      /\ \A i \in Stops(k) : i # 1 => i - 1 \in Stops(k)' /\ Of(k, i - 1)' = Of(k, i)
      /\ \A i \in DOMAIN proc'[k].stdout :
           /\ i \in Nat \ {0} /\ i + 1 \in DOMAIN proc[k].stdout
           /\ proc'[k].stdout[i] = proc[k].stdout[i + 1] /\ Of(k, i)' = Of(k, i + 1)
      /\ 1 \in Stops(k) <=> Line(k).kind = "stop"
      /\ Line(k).answer = Of(k, 1)
  BY Moved
<1>2. ASSUME NEW i \in DOMAIN proc'[k].stdout, proc'[k].stdout[i].kind = "call"
      PROVE  /\ proc'[k].stdout[i].call[1] = Of(k, i)'
             /\ \E j \in Stops(k)' : /\ i < j /\ Of(k, j)' = Of(k, i)'
                                     /\ \A s \in Stops(k)' : i < s => j <= s
  <2>1. /\ i \in Nat \ {0} /\ i + 1 \in DOMAIN proc[k].stdout
        /\ proc'[k].stdout[i] = proc[k].stdout[i + 1] /\ Of(k, i)' = Of(k, i + 1)
    BY <1>1
  <2>2. /\ proc[k].stdout[i + 1].call[1] = Of(k, i + 1)
        /\ \E j \in Stops(k) : /\ i + 1 < j /\ Of(k, j) = Of(k, i + 1)
                               /\ \A s \in Stops(k) : i + 1 < s => j <= s
    BY <1>2, <2>1 DEF LinesTalk
  <2>3. PICK j \in Stops(k) : /\ i + 1 < j /\ Of(k, j) = Of(k, i + 1)
                              /\ \A s \in Stops(k) : i + 1 < s => j <= s
    BY <2>2
  <2>4. j \in Nat /\ j # 1
    BY <1>1, <2>1, <2>3
  <2>5. PICK h : h = j - 1
    OBVIOUS
  <2>6. h \in Stops(k)' /\ Of(k, h)' = Of(k, j) /\ i < h
    BY <1>1, <2>1, <2>3, <2>4, <2>5
  <2>7. ASSUME NEW s \in Stops(k)', i < s
        PROVE  h <= s
    <3>1. s + 1 \in Stops(k) /\ s \in Nat /\ i + 1 < s + 1
      BY <1>1, <2>1, <2>7
    <3>2. j <= s + 1
      BY <2>3, <3>1
    <3> QED BY <2>4, <2>5, <3>1, <3>2
  <2> QED BY <2>1, <2>2, <2>3, <2>6, <2>7
<1>3. ASSUME NEW i \in DOMAIN proc'[k].stdout, proc'[k].stdout[i].kind = "result"
      PROVE  IF i = 1 THEN /\ Line(k).kind = "stop"
                           /\ run'[k].terminal /\ ~run'[k].parked => Last(run'[k].history) = <<"a", Of(k, 1)'>>
             ELSE i - 1 \in Stops(k)' /\ Of(k, i - 1)' = Of(k, i)'
  <2>1. /\ i \in Nat \ {0} /\ i + 1 \in DOMAIN proc[k].stdout
        /\ proc'[k].stdout[i] = proc[k].stdout[i + 1] /\ Of(k, i)' = Of(k, i + 1)
    BY <1>1
  <2>2. PICK b : b = i + 1
    OBVIOUS
  <2>3. b # 1 /\ b - 1 = i
    BY <2>1, <2>2
  <2>4. i \in Stops(k) /\ Of(k, i) = Of(k, i + 1)
    BY <1>3, <2>1, <2>2, <2>3 DEF LinesTalk
  <2>5. CASE i = 1 BY <1>1, <2>1, <2>4, <2>5
  <2>6. CASE i # 1 BY <1>1, <2>1, <2>4, <2>6
  <2> QED BY <2>5, <2>6
<1>4. LinesTalk(k)'
  BY <1>2, <1>3 DEF LinesTalk
<1>5. Line(k).kind # "stop" => Offset(k)' = 0
  <2> SUFFICES ASSUME Line(k).kind # "stop", proc'[k].stdout # <<>>, proc'[k].stdout[1].kind = "result" PROVE FALSE
    BY DEF Offset
  <2>1. Tail(proc[k].stdout) \in Seq(Output)
    BY LiveTypes DEF TableInv
  <2>2. 1 \in DOMAIN proc'[k].stdout
    BY <2>1
  <2> QED BY <1>3, <2>2
<1> QED BY <1>4, <1>5

-----------------------------------------------------------------------------
(* A line of the output is read *)

\* What the reader does whatever the line.
Took(k) ==
  /\ k \in Live /\ run'[k] # None /\ reader[k] = None
  /\ proc[k].stdout # <<>> /\ proc'[k].stdout = Tail(proc[k].stdout)
  /\ proc'[k].pc = proc[k].pc /\ proc'[k].stdin = proc[k].stdin
  /\ proc'[k].talk = proc[k].talk /\ proc'[k].todo = proc[k].todo /\ proc'[k].held = proc[k].held
  /\ proc'[k].token = proc[k].token
  /\ \A j \in Turns \ {k} : proc'[j] = proc[j] /\ run'[j] = run[j] /\ reader'[j] = reader[j]
  /\ UNCHANGED <<turn, answer, file, archive>>

LEMMA TookTalk ==
  ASSUME TableInv, TableInv', TalkInv, Passed, NEW k \in Turns, Took(k), RunTalk(k)',
         Sends(k)' /\ turn[reader'[k].to].pc = "open" =>
           Same(answer[reader'[k].event.answer].to, turn[reader'[k].to].messages),
         Saves(k)' => /\ reader'[k].answer \in Replies
                      /\ Twice(reader'[k].history) \/ Same(Said(reader'[k].answer), reader'[k].history)
  PROVE  TalkInv'
<1>1. Heard /\ Told
  BY HeardTold DEF Took, Heard
<1>2. ClientSound' /\ SavedSound'
  BY <1>1, ClientKept, SavedKept DEF TalkInv, Took
<1>3. FileSound' /\ ArchiveSound' /\ Continuity'
  BY FileKept, ContinuityKept DEF TalkInv, Took, ArchiveSound
<1>4. SentSound'
  <2> SUFFICES ASSUME NEW j \in Turns, Sends(j)', turn'[reader'[j].to].pc = "open"
               PROVE  Same(answer'[reader'[j].event.answer].to, turn'[reader'[j].to].messages)
    BY DEF SentSound
  <2>1. turn' = turn /\ answer' = answer
    BY DEF Took
  <2>2. CASE j = k BY <2>1, <2>2
  <2>3. CASE j # k
    <3>1. reader'[j] = reader[j] /\ Sends(j)
      BY <2>3 DEF Took, Sends
    <3> QED BY <2>1, <3>1 DEF TalkInv, SentSound
  <2> QED BY <2>2, <2>3
<1>5. SaveSound'
  <2>1. answer' = answer /\ Replies' = Replies
    BY DEF Took, Replies
  <2>2. ASSUME NEW j \in Turns, Saves(j)'
        PROVE  /\ reader'[j].answer \in Replies
               /\ Twice(reader'[j].history) \/ Same(Said(reader'[j].answer), reader'[j].history)
    <3>1. CASE j = k BY <2>2, <3>1
    <3>2. CASE j # k
      <4>1. reader'[j] = reader[j] /\ Saves(j)
        BY <2>2, <3>2 DEF Took, Saves
      <4> QED BY <4>1 DEF TalkInv, SaveSound
    <3> QED BY <3>1, <3>2
  <2> QED BY <2>1, <2>2 DEF SaveSound, Said
<1>6. RunsTalk'
  <2>1. PICK K : K = {k}
    OBVIOUS
  <2>2. \A j \in Turns : j \notin K /\ run'[j] # None => run'[j] = run[j] /\ proc'[j] = proc[j]
    BY <2>1 DEF Took
  <2>3. \A j \in Turns : j \in K /\ run'[j] # None => RunTalk(j)'
    BY <2>1
  <2> QED BY <1>1, <2>2, <2>3, RunsTalkKept
<1> QED BY <1>2, <1>3, <1>4, <1>5, <1>6 DEF TalkInv

\* The ends of answers move up.
LEMMA StopsMove ==
  ASSUME TableInv, NEW k \in Turns, Took(k), Line(k).kind # "stop"
  PROVE  /\ Stops(k)' = {} <=> Stops(k) = {}
         /\ \A i \in Stops(k)' : i + 1 \in Stops(k) /\ Of(k, i)' = Of(k, i + 1)
         /\ \A i \in Stops(k)' : \A h \in Stops(k) : h = i + 1 /\ FirstStop(k, i)' => FirstStop(k, h)
<1>1. /\ Stops(k) \subseteq Nat \ {0} /\ Stops(k)' \subseteq Nat \ {0}
      /\ \A i \in Stops(k)' : i + 1 \in Stops(k) /\ Of(k, i)' = Of(k, i + 1)
      /\ \A i \in Stops(k) : i # 1 => i - 1 \in Stops(k)' /\ Of(k, i - 1)' = Of(k, i)
      /\ 1 \in Stops(k) <=> Line(k).kind = "stop"
  BY Moved DEF Took
<1>2. ASSUME NEW i \in Stops(k)', NEW h \in Stops(k), h = i + 1,
             \A s \in Stops(k)' : i <= s, NEW s \in Stops(k)
      PROVE  h <= s
  <2>1. s # 1 /\ s \in Nat /\ i \in Nat
    BY <1>1
  <2>2. PICK g : g = s - 1
    OBVIOUS
  <2>3. g \in Stops(k)'
    BY <1>1, <2>1, <2>2
  <2>4. i <= g
    BY <1>2, <2>3
  <2> QED BY <1>2, <2>1, <2>2, <2>4
<1>3. \A i \in Stops(k)' : \A h \in Stops(k) : h = i + 1 /\ FirstStop(k, i)' => FirstStop(k, h)
  BY <1>2 DEF FirstStop
<1> QED BY <1>1, <1>3

LEMMA AheadMoves ==
  ASSUME TableInv, NEW k \in Turns, Took(k), Line(k).kind # "stop", Ahead(k),
         run'[k].sender = run[k].sender, run'[k].history = run[k].history
  PROVE  Ahead(k)'
<1>1. /\ Stops(k)' = {} <=> Stops(k) = {}
      /\ \A i \in Stops(k)' : i + 1 \in Stops(k) /\ Of(k, i)' = Of(k, i + 1)
      /\ \A i \in Stops(k)' : \A h \in Stops(k) : h = i + 1 /\ FirstStop(k, i)' => FirstStop(k, h)
  BY StopsMove
<1>2. \A own : (Fits(own, k)' <=> Fits(own, k)) /\ (Reached(own, k)' <=> Reached(own, k))
  BY DEF Fits, Reached
<1>3. answer' = answer /\ proc'[k].pc = proc[k].pc /\ proc'[k].talk = proc[k].talk
  BY DEF Took
<1>4. ASSUME NEW i \in Stops(k)', FirstStop(k, i)'
      PROVE  Fits(answer[Of(k, i)].to, k)'
  <2>0. PICK h : h = i + 1
    OBVIOUS
  <2>1. PICK own : own = answer[Of(k, h)].to
    OBVIOUS
  <2>2. Fits(own, k)
    BY <1>1, <1>4, <2>0, <2>1 DEF Ahead
  <2>3. answer'[Of(k, i)'].to = own
    BY <1>1, <1>3, <2>0, <2>1
  <2>4. Fits(own, k)'
    BY <1>2, <2>2
  <2> QED BY <2>3, <2>4 DEF Fits
<1>5. ASSUME Stops(k)' = {}
      PROVE  /\ proc[k].pc = "busy" => Fits(proc[k].talk, k)
             /\ proc[k].pc \in {"tools", "idle"} => Reached(proc[k].talk, k)
             /\ proc[k].pc = "tools" /\ run[k].sender # None => Last(run[k].history)[1] = "r"
  BY <1>1, <1>5 DEF Ahead
<1>6. PICK own : own = proc[k].talk
  OBVIOUS
<1>7. (Fits(own, k)' <=> Fits(own, k)) /\ (Reached(own, k)' <=> Reached(own, k))
  BY <1>2
<1> QED BY <1>3, <1>4, <1>5, <1>6, <1>7 DEF Ahead, Fits, Reached

LEMMA HelperMoves ==
  ASSUME TableInv, NEW k \in Turns, Took(k), Line(k).kind # "stop", HelperTalk(k),
         run'[k].sender = run[k].sender,
         \A c \in Range(run'[k].calls) : c \in Range(run[k].calls) \/ c.result = None
  PROVE  HelperTalk(k)'
<1>1. /\ answer' = answer /\ proc'[k].pc = proc[k].pc /\ proc'[k].talk = proc[k].talk
      /\ proc'[k].todo = proc[k].todo /\ proc'[k].held = proc[k].held /\ proc'[k].token = proc[k].token
  BY DEF Took
<1>2. CASE proc[k].pc = "tools"
  <2>1. PICK n \in Replies : Works(k, n)
    BY <1>2 DEF HelperTalk
  <2>2. Stops(k)' = {} <=> Stops(k) = {}
    BY StopsMove
  <2>3. Said(n)' = Said(n) /\ n \in Replies'
    BY <1>1 DEF Said, Replies
  <2>4. /\ proc[k].talk = Said(n) /\ proc[k].todo # <<>>
        /\ \A i \in DOMAIN proc[k].todo : proc[k].todo[i] = <<n, proc[k].todo[1][2] + i - 1>>
        /\ \/ proc[k].token \in {None, <<"x", 0>>}
           \/ proc[k].token = <<"s", 0>> /\ HasX(proc[k].talk)
           \/ run[k].sender # None /\ proc[k].token = <<"r", run[k].sender>> /\ Stops(k) = {}
        /\ Stops(k) = {} => \A c \in Range(run[k].calls) : c.id[1] = n /\ c.result # None => c.result = run[k].sender
    BY <2>1 DEF Works
  <2>5. PICK p : p = proc'[k]
    OBVIOUS
  <2>6. /\ p.talk = Said(n)' /\ p.todo # <<>>
        /\ \A i \in DOMAIN p.todo : p.todo[i] = <<n, p.todo[1][2] + i - 1>>
        /\ \/ p.token \in {None, <<"x", 0>>}
           \/ p.token = <<"s", 0>> /\ HasX(p.talk)
           \/ run'[k].sender # None /\ p.token = <<"r", run'[k].sender>> /\ Stops(k)' = {}
    BY <1>1, <2>2, <2>3, <2>4, <2>5
  <2>7. Stops(k)' = {} => \A c \in Range(run'[k].calls) : c.id[1] = n /\ c.result # None => c.result = run'[k].sender
    BY <2>2, <2>4
  <2>8. Works(k, n)'
    BY <2>5, <2>6, <2>7 DEF Works
  <2> QED BY <1>1, <1>2, <2>3, <2>8 DEF HelperTalk
<1>3. CASE proc[k].pc # "tools" BY <1>1, <1>3 DEF HelperTalk
<1> QED BY <1>2, <1>3

\* A call that is read is the next of those recorded.
LEMMA LinedCall ==
  ASSUME NEW calls \in Seq(ToolCall), NEW out \in Seq(Output), out # <<>>, out[1].kind = "call",
         NEW n, NEW first \in Nat, NEW last, NEW d \in Nat, Lined(calls, out, n, first, last, d, 0),
         NEW entry \in ToolCall, entry.id = out[1].call, ~entry.claimed
  PROVE  Lined(Append(calls, entry), Tail(out), n, first, last, d, 0)
<1>1. PICK l \in Nat : l = Len(calls) /\ DOMAIN calls = 1 .. l
  <2>1. Len(calls) \in Nat /\ DOMAIN calls = 1 .. Len(calls)
    BY LenProperties
  <2> QED BY <2>1
<1>2. PICK new, rest : new = Append(calls, entry) /\ rest = Tail(out)
  OBVIOUS
<1>3. /\ Len(new) = l + 1 /\ DOMAIN new = 1 .. l + 1 /\ new[l + 1] = entry
      /\ \A i \in 1 .. l : new[i] = calls[i]
  BY <1>1, <1>2
<1>4. \A j \in DOMAIN rest : j \in Nat \ {0} /\ j + 1 \in DOMAIN out /\ rest[j] = out[j + 1]
  <2>1. Len(rest) = Len(out) - 1 /\ \A i \in 1 .. Len(rest) : rest[i] = out[i + 1]
    BY <1>2, HeadTailProperties
  <2>2. rest \in Seq(Output) /\ Len(out) \in Nat /\ DOMAIN out = 1 .. Len(out)
    BY <1>2
  <2>3. DOMAIN rest = 1 .. Len(rest)
    BY <2>2
  <2> QED BY <2>1, <2>2, <2>3
<1>5. /\ d <= l
      /\ \A i \in 1 .. l : i <= d => calls[i].claimed
      /\ \A i \in 1 .. l : i > d =>
           /\ ~calls[i].claimed /\ calls[i].id = <<n, first + i - d - 1>> /\ first + i - d - 1 <= last
      /\ \A j \in DOMAIN out : out[j].kind = "call" =>
           /\ out[j].call = <<n, first + l - d + j - 0 - 1>> /\ first + l - d + j - 0 - 1 <= last
  BY <1>1 DEF Lined
<1>6. entry.id = <<n, first + (l + 1) - d - 1>> /\ first + (l + 1) - d - 1 <= last
  <2>1. 1 \in DOMAIN out /\ first + l - d + 1 - 0 - 1 = first + (l + 1) - d - 1
    OBVIOUS
  <2>2. out[1].call = <<n, first + l - d + 1 - 0 - 1>> /\ first + l - d + 1 - 0 - 1 <= last
    BY <1>5, <2>1
  <2> QED BY <2>1, <2>2
<1>7. ASSUME NEW i \in 1 .. l + 1
      PROVE  /\ i <= d => new[i].claimed
             /\ i > d => /\ ~new[i].claimed /\ new[i].id = <<n, first + i - d - 1>> /\ first + i - d - 1 <= last
  <2>1. CASE i = l + 1
    <3>1. i > d /\ ~(i <= d)
      BY <1>5, <2>1
    <3> QED BY <1>3, <1>6, <2>1, <3>1
  <2>2. CASE i # l + 1
    <3>1. i \in 1 .. l
      BY <2>2
    <3> QED BY <1>3, <1>5, <3>1
  <2> QED BY <2>1, <2>2
<1>8. ASSUME NEW j \in DOMAIN rest, rest[j].kind = "call"
      PROVE  /\ rest[j].call = <<n, first + (l + 1) - d + j - 0 - 1>>
             /\ first + (l + 1) - d + j - 0 - 1 <= last
  <2>1. j \in Nat /\ j + 1 \in DOMAIN out /\ rest[j] = out[j + 1]
    BY <1>4
  <2>2. first + l - d + (j + 1) - 0 - 1 = first + (l + 1) - d + j - 0 - 1
    BY <2>1
  <2>3. /\ out[j + 1].call = <<n, first + l - d + (j + 1) - 0 - 1>>
        /\ first + l - d + (j + 1) - 0 - 1 <= last
    BY <1>5, <1>8, <2>1
  <2> QED BY <2>1, <2>2, <2>3
<1>9. d <= l + 1
  BY <1>5
<1>10. Lined(new, rest, n, first, last, d, 0)
  BY <1>3, <1>7, <1>8, <1>9 DEF Lined
<1> QED BY <1>2, <1>10

LEMMA LinedResult ==
  ASSUME NEW calls \in Seq(ToolCall), NEW out \in Seq(Output), out # <<>>,
         NEW n, NEW first \in Nat, NEW last, NEW d \in Nat, Lined(calls, out, n, first, last, d, 1)
  PROVE  Lined(calls, Tail(out), n, first, last, d, 0)
<1>1. PICK l \in Nat : l = Len(calls) /\ DOMAIN calls = 1 .. l
  <2>1. Len(calls) \in Nat /\ DOMAIN calls = 1 .. Len(calls)
    BY LenProperties
  <2> QED BY <2>1
<1>2. PICK rest : rest = Tail(out)
  OBVIOUS
<1>4. \A j \in DOMAIN rest : j \in Nat \ {0} /\ j + 1 \in DOMAIN out /\ rest[j] = out[j + 1]
  <2>1. Len(rest) = Len(out) - 1 /\ \A i \in 1 .. Len(rest) : rest[i] = out[i + 1]
    BY <1>2, HeadTailProperties
  <2>2. rest \in Seq(Output) /\ Len(out) \in Nat /\ DOMAIN out = 1 .. Len(out)
    BY <1>2
  <2>3. DOMAIN rest = 1 .. Len(rest)
    BY <2>2
  <2> QED BY <2>1, <2>2, <2>3
<1>5. \A j \in DOMAIN out : out[j].kind = "call" =>
        /\ out[j].call = <<n, first + l - d + j - 1 - 1>> /\ first + l - d + j - 1 - 1 <= last
  BY <1>1 DEF Lined
<1>6. ASSUME NEW j \in DOMAIN rest, rest[j].kind = "call"
      PROVE  /\ rest[j].call = <<n, first + l - d + j - 0 - 1>>
             /\ first + l - d + j - 0 - 1 <= last
  <2>1. j \in Nat /\ j + 1 \in DOMAIN out /\ rest[j] = out[j + 1]
    BY <1>4
  <2>2. first + l - d + (j + 1) - 1 - 1 = first + l - d + j - 0 - 1
    BY <2>1
  <2>3. /\ out[j + 1].call = <<n, first + l - d + (j + 1) - 1 - 1>>
        /\ first + l - d + (j + 1) - 1 - 1 <= last
    BY <1>5, <1>6, <2>1
  <2> QED BY <2>1, <2>2, <2>3
<1>7. Lined(calls, rest, n, first, last, d, 0)
  BY <1>1, <1>6 DEF Lined
<1> QED BY <1>2, <1>7

LEMMA AlignMoves ==
  ASSUME TableInv, NEW k \in Turns, Took(k), Align(k), HelperTalk(k), Offset(k)' = 0,
         \A n : \A first \in Nat : \A last : \A d \in Nat :
           Aligned(k, n, first, last, d, Offset(k)) => Aligned(k, n, first, last, d, 0)',
         ~HasX(proc[k].talk) /\ proc[k].pc \in {"idle", "busy"} =>
           \A i \in DOMAIN run'[k].calls : run'[k].calls[i].claimed
  PROVE  Align(k)'
<1>1. PICK p : p = proc[k]
  OBVIOUS
<1>2. /\ proc'[k].pc = p.pc /\ proc'[k].talk = p.talk /\ proc'[k].token = p.token
      /\ proc'[k].todo = p.todo /\ proc'[k].held = p.held
  BY <1>1 DEF Took
<1>3. ASSUME ~HasX(p.talk), p.pc = "tools" /\ p.token # <<"x", 0>>
      PROVE  /\ p.held # None => p.held = p.todo[1]
             /\ \E d \in Nat :
                  Aligned(k, p.todo[1][1], p.todo[1][2] + (IF p.held = None THEN 0 ELSE 1),
                          p.todo[1][2] + Len(p.todo) - 1, d, 0)'
  <2>1. p.held # None => p.held = p.todo[1]
    BY <1>1, <1>3 DEF Align
  <2>2. PICK d \in Nat :
          Aligned(k, p.todo[1][1], p.todo[1][2] + (IF p.held = None THEN 0 ELSE 1),
                  p.todo[1][2] + Len(p.todo) - 1, d, Offset(k))
    BY <1>1, <1>3 DEF Align
  <2>3. p.todo[1][2] \in Nat
    <3>1. PICK n \in Replies : Works(k, n)
      BY <1>1, <1>3 DEF HelperTalk
    <3> QED BY <1>1, <3>1, WorksTodo
  <2>4. PICK n, first, last : /\ n = p.todo[1][1] /\ first = p.todo[1][2] + (IF p.held = None THEN 0 ELSE 1)
                              /\ last = p.todo[1][2] + Len(p.todo) - 1
    OBVIOUS
  <2>5. first \in Nat
    BY <2>3, <2>4
  <2>6. Aligned(k, n, first, last, d, 0)'
    BY <2>2, <2>4, <2>5
  <2> QED BY <2>1, <2>4, <2>6
<1>4. ASSUME ~HasX(p.talk), p.pc \in {"idle", "busy"}
      PROVE  /\ \A i \in DOMAIN run'[k].calls : run'[k].calls[i].claimed
             /\ \A j \in DOMAIN proc'[k].stdout : proc'[k].stdout[j].kind # "call"
  <2>1. \A j \in DOMAIN proc[k].stdout : proc[k].stdout[j].kind # "call"
    BY <1>1, <1>4 DEF Align
  <2>2. \A j \in DOMAIN proc'[k].stdout :
          j + 1 \in DOMAIN proc[k].stdout /\ proc'[k].stdout[j] = proc[k].stdout[j + 1]
    BY Moved DEF Took
  <2> QED BY <1>1, <1>4, <2>1, <2>2
<1> QED BY <1>2, <1>3, <1>4 DEF Align

\* An event answers the turn it is sent to.
LEMMA EventTalk ==
  ASSUME TableInv, NEW k \in Turns, Took(k), RunTalk(k), Line(k).kind # "result", run[k].sender # None
  PROVE  Same(answer[Line(k).answer].to, turn[run[k].sender].messages)
<1>1. /\ 1 \in DOMAIN proc[k].stdout /\ Line(k) = proc[k].stdout[1] /\ Line(k).answer = Of(k, 1)
      /\ 1 \in Stops(k) <=> Line(k).kind = "stop"
      /\ Stops(k) \subseteq Nat \ {0}
  BY Moved DEF Took
<1>2. PICK j \in Stops(k) : FirstStop(k, j) /\ Of(k, j) = Of(k, 1)
  <2>1. CASE Line(k).kind = "stop"
    <3>1. 1 \in Stops(k) /\ \A s \in Stops(k) : 1 <= s
      BY <1>1, <2>1
    <3> QED BY <3>1 DEF FirstStop
  <2>2. CASE Line(k).kind # "stop"
    <3>1. Line(k).kind = "call"
      <4>1. proc[k].stdout \in Seq(Output)
        BY LiveTypes DEF TableInv
      <4>2. Line(k) \in Output
        BY <1>1, <4>1
      <4> QED BY <2>2, <4>2 DEF Output
    <3>2. PICK j \in Stops(k) : /\ 1 < j /\ Of(k, j) = Of(k, 1)
                                /\ \A s \in Stops(k) : 1 < s => j <= s
      BY <1>1, <3>1 DEF RunTalk, LinesTalk
    <3>3. \A s \in Stops(k) : 1 < s
      BY <1>1, <2>2
    <3> QED BY <3>2, <3>3 DEF FirstStop
  <2> QED BY <2>1, <2>2
<1>3. Fits(answer[Of(k, j)].to, k)
  BY <1>2 DEF RunTalk, Ahead
<1>4. Same(answer[Of(k, j)].to, run[k].history)
  BY <1>3 DEF Fits
<1>5. run[k].history = turn[run[k].sender].messages
  BY DEF RunTalk, Posted
<1> QED BY <1>1, <1>2, <1>4, <1>5

LEMMA CallLine ==
  ASSUME TableInv, TableInv', Passed, NEW k \in Turns, Took(k), RunTalk(k), Line(k).kind = "call",
         run'[k].terminal = run[k].terminal, run'[k].sender = run[k].sender,
         run'[k].parked = run[k].parked, run'[k].history = run[k].history,
         run'[k].calls = Append(run[k].calls, [id |-> Line(k).call, claimed |-> FALSE, result |-> None])
  PROVE  RunTalk(k)'
<1>1. k \in Live /\ run'[k] # None /\ UNCHANGED <<turn, answer>> /\ reader[k] = None
  BY DEF Took
<1>2. Told
  BY <1>1 DEF Told
<1>3. PICK calls, out, entry, new :
        /\ calls = run[k].calls /\ out = proc[k].stdout
        /\ entry = [id |-> Line(k).call, claimed |-> FALSE, result |-> None] /\ new = Append(calls, entry)
  OBVIOUS
<1>4. calls \in Seq(ToolCall) /\ out \in Seq(Output) /\ out # <<>>
  BY <1>1, <1>3, LiveTypes DEF TableInv, Took
<1>5. /\ 1 \in DOMAIN out /\ Line(k) = out[1] /\ Line(k).answer = Of(k, 1) /\ Of(k, 1) \in Replies
      /\ Stops(k)' \subseteq Nat \ {0}
  BY <1>3, Moved DEF Took
<1>6. entry \in ToolCall /\ entry.id = out[1].call /\ ~entry.claimed /\ entry.result = None
  <2>1. out[1].call \in CallId
    <3>1. out[1] \in Output
      BY <1>4
    <3>2. out[1].call # None
      BY <1>3, <1>5 DEF TableInv, Known
    <3> QED BY <3>1, <3>2 DEF Output
  <2> QED BY <1>3, <1>5, <2>1 DEF ToolCall
<1>7. run'[k].calls = new /\ \A c \in Range(new) : c \in Range(calls) \/ c = entry
  <2>1. run'[k].calls = new
    BY <1>3
  <2>2. ASSUME NEW c \in Range(new) PROVE c \in Range(calls) \/ c = entry
    <3>1. PICK i \in DOMAIN new : c = new[i]
      BY DEF Range
    <3>2. i = Len(calls) + 1 => c = entry
      BY <1>3, <1>4, <3>1
    <3>3. i # Len(calls) + 1 => i \in DOMAIN calls /\ c = calls[i]
      BY <1>3, <1>4, <3>1
    <3> QED BY <3>2, <3>3 DEF Range
  <2> QED BY <2>1, <2>2
<1>8. Waiting(k) \subseteq Waiting(k)'
  <2>1. \A i \in DOMAIN calls : i \in DOMAIN new /\ new[i] = calls[i]
    BY <1>3, <1>4
  <2>2. WaitingIn(calls) \subseteq WaitingIn(new)
    BY <2>1, WaitingFacts
  <2> QED BY <1>3, <1>7, <2>2 DEF Waiting
<1>9. Posted(k)'
  BY <1>1, <1>2, <1>8, PostedKept DEF RunTalk
<1>10. Linked(k)' /\ Tied(k)'
  BY ShiftLinks DEF RunTalk, Took
<1>11. LinesTalk(k)' /\ Offset(k)' = 0
  BY ShiftLines DEF RunTalk, Took
<1>12. Ahead(k)'
  BY AheadMoves DEF RunTalk
<1>13. InputTalk(k)'
  <2>1. Stops(k)' = {} <=> Stops(k) = {}
    BY StopsMove
  <2>2. proc'[k].stdin = proc[k].stdin
    BY DEF Took
  <2> QED BY <2>1, <2>2 DEF RunTalk, InputTalk
<1>14. HelperTalk(k)'
  <2>1. \A c \in Range(run'[k].calls) : c \in Range(run[k].calls) \/ c.result = None
    BY <1>3, <1>6, <1>7
  <2> QED BY <2>1, HelperMoves DEF RunTalk
<1>15. CallsTalk(k)'
  <2> SUFFICES ASSUME NEW c \in Range(run'[k].calls)
               PROVE  c.id[1] \in Replies' /\ (Unread(c.id[1], k)' => c.result = None)
    BY DEF CallsTalk
  <2>1. c \in Range(calls) \/ c = entry
    BY <1>7
  <2>2. PICK n : n = c.id[1]
    OBVIOUS
  <2>3. CASE c = entry
    <3>1. out[1].call[1] = Of(k, 1)
      BY <1>3, <1>5 DEF RunTalk, LinesTalk
    <3>2. Replies' = Replies
      BY <1>1 DEF Replies
    <3> QED BY <1>5, <1>6, <2>3, <3>1, <3>2
  <2>4. CASE c \in Range(calls)
    <3>1. n \in Replies /\ (Unread(n, k) => c.result = None)
      BY <1>3, <2>2, <2>4 DEF RunTalk, CallsTalk
    <3>2. n \in Replies' /\ (Unread(n, k)' => Unread(n, k))
      BY <3>1 DEF Passed
    <3> QED BY <2>2, <3>1, <3>2
  <2> QED BY <2>1, <2>3, <2>4
<1>16. Align(k)'
  <2>1. Offset(k) = 0
    BY <1>3, <1>5 DEF Offset
  <2>2. ASSUME NEW n, NEW first \in Nat, NEW last, NEW d \in Nat, Aligned(k, n, first, last, d, 0)
        PROVE  Aligned(k, n, first, last, d, 0)'
    <3>1. Lined(calls, out, n, first, last, d, 0)
      BY <1>3, <2>2 DEF Aligned
    <3>2. Lined(new, Tail(out), n, first, last, d, 0)
      BY <1>3, <1>4, <1>5, <1>6, <3>1, LinedCall
    <3>3. PICK rest : rest = Tail(out)
      OBVIOUS
    <3>4. proc'[k].stdout = rest
      BY <1>3, <3>3 DEF Took
    <3> QED BY <1>7, <3>2, <3>3, <3>4 DEF Aligned
  <2>3. ~(~HasX(proc[k].talk) /\ proc[k].pc \in {"idle", "busy"})
    BY <1>3, <1>5 DEF RunTalk, Align
  <2> QED BY <1>11, <2>1, <2>2, <2>3, AlignMoves DEF RunTalk
<1> QED BY <1>9, <1>10, <1>11, <1>12, <1>13, <1>14, <1>15, <1>16 DEF RunTalk

LEMMA ResultLine ==
  ASSUME TableInv, TableInv', Passed, NEW k \in Turns, Took(k), RunTalk(k), Line(k).kind = "result",
         run'[k] = run[k]
  PROVE  RunTalk(k)'
<1>1. k \in Live /\ run'[k] # None /\ UNCHANGED <<turn, answer>> /\ reader[k] = None
  BY DEF Took
<1>2. Told
  BY <1>1 DEF Told
<1>3. PICK calls, out : calls = run[k].calls /\ out = proc[k].stdout
  OBVIOUS
<1>4. calls \in Seq(ToolCall) /\ out \in Seq(Output) /\ out # <<>>
  BY <1>1, <1>3, LiveTypes DEF TableInv, Took
<1>5. 1 \in DOMAIN out /\ Line(k) = out[1]
  BY <1>3, Moved DEF Took
<1>6. Waiting(k)' = Waiting(k)
  BY WaitingKept
<1>7. Posted(k)'
  BY <1>1, <1>2, <1>6, PostedKept DEF RunTalk
<1>8. Linked(k)' /\ Tied(k)'
  BY ShiftLinks DEF RunTalk, Took
<1>9. LinesTalk(k)' /\ Offset(k)' = 0
  BY ShiftLines DEF RunTalk, Took
<1>10. Ahead(k)'
  BY AheadMoves DEF RunTalk
<1>11. InputTalk(k)'
  <2>1. Stops(k)' = {} <=> Stops(k) = {}
    BY StopsMove
  <2>2. proc'[k].stdin = proc[k].stdin
    BY DEF Took
  <2> QED BY <2>1, <2>2 DEF RunTalk, InputTalk
<1>12. HelperTalk(k)'
  BY HelperMoves DEF RunTalk
<1>13. CallsTalk(k)'
  BY CallsKept DEF RunTalk
<1>14. Align(k)'
  <2>1. Offset(k) = 1
    BY <1>3, <1>4, <1>5 DEF Offset
  <2>2. ASSUME NEW n, NEW first \in Nat, NEW last, NEW d \in Nat, Aligned(k, n, first, last, d, 1)
        PROVE  Aligned(k, n, first, last, d, 0)'
    <3>1. Lined(calls, out, n, first, last, d, 1)
      BY <1>3, <2>2 DEF Aligned
    <3>2. Lined(calls, Tail(out), n, first, last, d, 0)
      BY <1>4, <3>1, LinedResult
    <3>3. PICK rest : rest = Tail(out)
      OBVIOUS
    <3>4. proc'[k].stdout = rest /\ run'[k].calls = calls
      BY <1>3, <3>3 DEF Took
    <3> QED BY <3>2, <3>3, <3>4 DEF Aligned
  <2>3. ~HasX(proc[k].talk) /\ proc[k].pc \in {"idle", "busy"} =>
          \A i \in DOMAIN run'[k].calls : run'[k].calls[i].claimed
    BY DEF RunTalk, Align
  <2> QED BY <1>9, <2>1, <2>2, <2>3, AlignMoves DEF RunTalk
<1> QED BY <1>7, <1>8, <1>9, <1>10, <1>11, <1>12, <1>13, <1>14 DEF RunTalk

\* What is saved at the result of an answer is what was said up to there.
LEMMA SaveLine ==
  ASSUME TableInv, NEW k \in Turns, Took(k), RunTalk(k), Line(k).kind = "result", Archivable(run[k])
  PROVE  /\ Line(k).answer \in Replies
         /\ Twice(run[k].history) \/ Same(Said(Line(k).answer), run[k].history)
<1>1. PICK n, h : n = Line(k).answer /\ h = run[k].history
  OBVIOUS
<1>2. 1 \in DOMAIN proc[k].stdout /\ Line(k) = proc[k].stdout[1] /\ n = Of(k, 1) /\ n \in Replies
  BY <1>1, Moved DEF Took
<1>3. run[k].terminal /\ ~run[k].parked
  BY DEF Archivable
<1>4. PICK e \in Replies : RestsAt(k, e)
  BY <1>3 DEF RunTalk, Posted
<1>5. /\ h # <<>> /\ Last(h) = <<"a", e>> /\ (Twice(h) \/ Same(answer[e].to, Front(h)))
  BY <1>1, <1>4 DEF RestsAt
<1>6. Last(h) = <<"a", n>>
  BY <1>1, <1>2, <1>3 DEF RunTalk, LinesTalk
<1>7. e = n
  BY <1>5, <1>6
<1>8. k \in Live /\ Types
  BY DEF Took, TableInv
<1>9. PICK b : b = Front(h)
  OBVIOUS
<1>10. b \in Seq(Message) /\ h = Append(b, <<"a", n>>)
  <2>1. h \in Seq(Message)
    BY <1>1, <1>8, LiveTypes
  <2> QED BY <1>5, <1>6, <1>9, <2>1, FrontAndLast
<1>11. Same(answer[n].to, b) => Same(Said(n), Append(b, <<"a", n>>))
  BY <1>2, <1>8, <1>10, SameSaid
<1> QED BY <1>1, <1>2, <1>5, <1>7, <1>9, <1>10, <1>11

\* The end of answer n is read.
EndRead(k, n) ==
  /\ Took(k) /\ Line(k).kind = "stop" /\ n = Line(k).answer
  /\ run'[k].terminal /\ run'[k].sender = None
  /\ run'[k].parked <=> answer[n].calls # {}
  /\ run'[k].history = Append(run[k].history, <<"a", n>>)
  /\ run'[k].calls = run[k].calls

LEMMA EndFacts ==
  ASSUME TableInv, NEW k \in Turns, NEW n, EndRead(k, n), RunTalk(k), ClientSound
  PROVE  /\ n \in Replies /\ 1 \in Stops(k) /\ FirstStop(k, 1) /\ Of(k, 1) = n /\ Unread(n, k)
         /\ run[k].history \in Seq(Message)
         /\ Twice(run'[k].history) \/ Same(answer[n].to, run[k].history)
         /\ Twice(run'[k].history) \/ Same(Said(n), run'[k].history)
         /\ Twice(run'[k].history) => run[k].sender = None
<1>1. k \in Live /\ Types /\ Took(k) /\ Line(k).kind = "stop" /\ n = Line(k).answer
  BY DEF EndRead, Took, TableInv
<1>2. /\ n = Of(k, 1) /\ n \in Replies /\ 1 \in Stops(k) /\ Stops(k) \subseteq Nat \ {0}
  BY <1>1, Moved DEF Took
<1>3. FirstStop(k, 1) /\ Unread(n, k)
  BY <1>2 DEF FirstStop, Unread
<1>4. PICK h : h = run[k].history
  OBVIOUS
<1>5. h \in Seq(Message)
  BY <1>1, <1>4, LiveTypes
<1>6. PICK m : m = <<"a", n>>
  OBVIOUS
<1>7. m \in Message /\ m[1] = "a" /\ answer[n].to \in Seq(Message)
  BY <1>1, <1>2, <1>6, SaidFacts
<1>8. PICK new : new = Append(h, m) /\ run'[k].history = new
  BY <1>4, <1>6 DEF EndRead
<1>9. Twice(new) <=> Twice(h) \/ (h # <<>> /\ Last(h)[1] = "a")
  BY <1>5, <1>7, <1>8, TwiceGrown
<1>10. Fits(answer[n].to, k)
  BY <1>2, <1>3 DEF RunTalk, Ahead
<1>11. Twice(new) \/ Same(answer[n].to, h)
  <2>1. CASE run[k].sender = None
    <3>1. PICK e \in Replies : RestsAt(k, e)
      BY <2>1 DEF RunTalk, Posted
    <3>2. h # <<>> /\ Last(h) = <<"a", e>>
      BY <1>4, <3>1 DEF RestsAt
    <3> QED BY <1>9, <3>2
  <2>2. CASE run[k].sender # None BY <1>4, <1>10, <2>2 DEF Fits
  <2> QED BY <2>1, <2>2
<1>12. Same(answer[n].to, h) => Same(Said(n), new)
  BY <1>1, <1>2, <1>5, <1>6, <1>8, SameSaid
<1>13. ASSUME run[k].sender # None PROVE ~Twice(new)
  <2>1. PICK t : t = run[k].sender
    OBVIOUS
  <2>2. t \in Turns /\ turn[t].pc = "open"
    <3>1. t \in Turns
      BY <1>1, <1>13, <2>1, LiveTypes
    <3> QED BY <1>1, <2>1, <3>1 DEF TableInv, SenderSound
  <2>3. h = turn[t].messages
    BY <1>4, <1>13, <2>1 DEF RunTalk, Posted
  <2>4. ~Twice(h) /\ Last(h)[1] # "a"
    BY <2>2, <2>3 DEF ClientSound
  <2> QED BY <1>9, <2>4
<1> QED BY <1>2, <1>3, <1>4, <1>5, <1>8, <1>11, <1>12, <1>13

LEMMA EndPosted ==
  ASSUME TableInv, StreamInv, NEW k \in Turns, NEW n, EndRead(k, n), RunTalk(k), ClientSound,
         \A t \in Turns : At(n, t)' => t = run[k].sender, \A j \in Turns : ~Unread(n, j)'
  PROVE  Posted(k)'
<1>1. /\ n \in Replies /\ 1 \in Stops(k) /\ Of(k, 1) = n /\ Unread(n, k)
      /\ run[k].history \in Seq(Message)
      /\ Twice(run'[k].history) \/ Same(answer[n].to, run[k].history)
      /\ Twice(run'[k].history) => run[k].sender = None
  BY EndFacts
<1>2. k \in Live /\ Types /\ turn' = turn /\ answer' = answer
  BY DEF EndRead, Took, TableInv
<1>3. /\ run'[k].terminal /\ run'[k].sender = None
      /\ run'[k].parked <=> answer[n].calls # {}
      /\ run'[k].history = Append(run[k].history, <<"a", n>>)
      /\ run'[k].calls = run[k].calls
  BY DEF EndRead
<1>4. PICK h, m, new : h = run[k].history /\ m = <<"a", n>> /\ new = Append(h, m)
  OBVIOUS
<1>5. m \in Message
  BY <1>1, <1>2, <1>4, SaidFacts
<1>6. new # <<>> /\ Last(new) = m /\ Front(new) = h /\ run'[k].history = new
  BY <1>1, <1>3, <1>4, <1>5, Appended
<1>7. Waiting(k)' = Waiting(k) /\ n \in Replies'
  BY <1>1, <1>2, <1>3 DEF Waiting, Replies
<1>8. answer[n].calls \subseteq Waiting(k)
  <2> SUFFICES ASSUME NEW c \in answer[n].calls PROVE c \in Waiting(k)
    OBVIOUS
  <2>1. Recorded(k)
    BY <1>2 DEF StreamInv, CallsSound
  <2>2. \/ \E j \in DOMAIN proc[k].stdout :
             j < 1 /\ proc[k].stdout[j].kind = "call" /\ proc[k].stdout[j].call = c
        \/ c \in Waiting(k)
    BY <1>1, <2>1 DEF Recorded
  <2>3. \A j \in DOMAIN proc[k].stdout : ~(j < 1)
    <3>1. proc[k].stdout \in Seq(Output)
      BY <1>2, LiveTypes
    <3> QED BY <3>1
  <2> QED BY <2>2, <2>3
<1>9. ASSUME Twice(new) PROVE \E c \in Waiting(k) : c[1] # n
  <2>1. run[k].sender = None
    BY <1>1, <1>6, <1>9
  <2>2. PICK e \in Replies : RestsAt(k, e)
    BY <2>1 DEF RunTalk, Posted
  <2>3. e # n
    BY <1>1, <2>2 DEF RestsAt
  <2>4. run[k].parked
    <3> SUFFICES ASSUME ~run[k].parked PROVE FALSE
      OBVIOUS
    <3>1. \A i \in DOMAIN proc[k].stdout : proc[k].stdout[i].kind = "result"
      BY <1>2, <2>1 DEF TableInv, RestSound
    <3> QED BY <1>1, <3>1 DEF Stops
  <2>5. answer[e].calls # {} /\ answer[e].calls \subseteq Waiting(k)
    BY <2>2, <2>4 DEF RestsAt
  <2>6. PICK c \in answer[e].calls : TRUE
    BY <2>5
  <2>7. c[1] = e
    BY <2>6 DEF TableInv, Known
  <2> QED BY <2>3, <2>5, <2>7
<1>10. ASSUME NEW p \in Turns, At(n, p)' PROVE new = Append(turn[p].messages, <<"a", n>>)
  <2>1. p = run[k].sender /\ p # None
    BY <1>10, Kinds
  <2>2. h = turn[p].messages
    BY <1>4, <2>1 DEF RunTalk, Posted
  <2> QED BY <1>4, <2>2
<1>11. /\ run'[k].history # <<>> /\ Last(run'[k].history) = <<"a", n>>
       /\ Twice(run'[k].history) \/ Same(answer'[n].to, Front(run'[k].history))
       /\ run'[k].parked <=> answer'[n].calls # {}
       /\ run'[k].parked => /\ answer'[n].calls \subseteq Waiting(k)'
                            /\ Twice(run'[k].history) => \E c \in Waiting(k)' : c[1] # n
       /\ \A p \in Turns : At(n, p)' /\ turn'[p].pc \in {"open", "done"} =>
            run'[k].history = Append(turn'[p].messages, <<"a", n>>)
  BY <1>1, <1>2, <1>3, <1>4, <1>6, <1>7, <1>8, <1>9, <1>10
<1>12. RestsAt(k, n)'
  BY <1>11 DEF RestsAt
<1> QED BY <1>3, <1>7, <1>12 DEF Posted

\* The answer that ends next follows the one whose end is read.
LEMMA EndAhead ==
  ASSUME TableInv, NEW k \in Turns, NEW n, EndRead(k, n), RunTalk(k), ClientSound
  PROVE  Ahead(k)'
<1>1. /\ n \in Replies /\ 1 \in Stops(k) /\ Of(k, 1) = n
      /\ Twice(run'[k].history) \/ Same(Said(n), run'[k].history)
  BY EndFacts
<1>2. /\ Took(k) /\ run'[k].sender = None /\ answer' = answer
      /\ proc'[k].pc = proc[k].pc /\ proc'[k].talk = proc[k].talk
  BY DEF EndRead, Took
<1>3. /\ Stops(k) \subseteq Nat \ {0} /\ Stops(k)' \subseteq Nat \ {0}
      /\ \A i \in Stops(k)' : i + 1 \in Stops(k) /\ Of(k, i)' = Of(k, i + 1)
      /\ \A i \in Stops(k) : i # 1 => i - 1 \in Stops(k)' /\ Of(k, i - 1)' = Of(k, i)
  BY <1>2, Moved DEF Took
<1>4. ASSUME NEW i \in Stops(k)', FirstStop(k, i)'
      PROVE  LET own == answer[Of(k, i + 1)].to IN Given(own) /\ Front(own) = Said(n)
  <2>1. i \in Nat \ {0} /\ i + 1 \in Stops(k)
    BY <1>3
  <2>2. ~FirstStop(k, i + 1)
    BY <1>1, <2>1 DEF FirstStop
  <2>3. PICK b \in Stops(k) :
          /\ b < i + 1
          /\ Given(answer[Of(k, i + 1)].to) /\ Front(answer[Of(k, i + 1)].to) = Said(Of(k, b))
    BY <2>1, <2>2 DEF RunTalk, Linked
  <2>4. b = 1
    <3> SUFFICES ASSUME b # 1 PROVE FALSE
      OBVIOUS
    <3>1. PICK g : g = b - 1
      OBVIOUS
    <3>2. g \in Stops(k)' /\ b \in Nat
      BY <1>3, <3>1
    <3>3. i <= g
      BY <1>4, <3>2 DEF FirstStop
    <3> QED BY <2>1, <2>3, <3>1, <3>2, <3>3
  <2> QED BY <1>1, <2>3, <2>4
<1>5. \A own : Given(own) /\ Front(own) = Said(n) => Fits(own, k)'
  BY <1>1, <1>2 DEF Fits
<1>6. \A own : own = Said(n) => Reached(own, k)'
  BY <1>1, <1>2 DEF Reached
<1>7. ASSUME NEW i \in Stops(k)', FirstStop(k, i)'
      PROVE  Fits(answer[Of(k, i)].to, k)'
  <2>1. PICK own : own = answer[Of(k, i + 1)].to
    OBVIOUS
  <2>2. Given(own) /\ Front(own) = Said(n)
    BY <1>4, <1>7, <2>1
  <2>3. answer'[Of(k, i)'].to = own
    BY <1>2, <1>3, <2>1
  <2>4. Fits(own, k)'
    BY <1>5, <2>2
  <2> QED BY <2>3, <2>4 DEF Fits
<1>8. PICK own : own = proc[k].talk
  OBVIOUS
<1>9. ASSUME Stops(k)' = {}
      PROVE  /\ proc[k].pc = "busy" => Given(own) /\ Front(own) = Said(n)
             /\ proc[k].pc \in {"tools", "idle"} => own = Said(n)
  <2>1. \A i \in Stops(k) : i = 1
    BY <1>3, <1>9
  <2> QED BY <1>1, <1>8, <2>1 DEF RunTalk, Tied
<1>10. ASSUME Stops(k)' = {}
       PROVE  /\ proc[k].pc = "busy" => Fits(own, k)'
              /\ proc[k].pc \in {"tools", "idle"} => Reached(own, k)'
  BY <1>5, <1>6, <1>9, <1>10
<1> QED BY <1>2, <1>7, <1>8, <1>10 DEF Ahead, Fits, Reached

LEMMA EndHelper ==
  ASSUME TableInv, NEW k \in Turns, NEW n, EndRead(k, n), RunTalk(k), ClientSound
  PROVE  HelperTalk(k)'
<1>1. /\ n \in Replies /\ 1 \in Stops(k) /\ Of(k, 1) = n /\ Unread(n, k)
  BY EndFacts
<1>2. /\ Took(k) /\ run'[k].sender = None /\ run'[k].calls = run[k].calls /\ answer' = answer /\ Types
  BY DEF EndRead, Took, TableInv
<1>3. /\ proc'[k].pc = proc[k].pc /\ proc'[k].talk = proc[k].talk
      /\ proc'[k].todo = proc[k].todo /\ proc'[k].held = proc[k].held /\ proc'[k].token = proc[k].token
  BY <1>2 DEF Took
<1>4. CASE proc[k].pc = "tools"
  <2>1. PICK m \in Replies : Works(k, m)
    BY <1>4 DEF RunTalk, HelperTalk
  <2>2. Said(m)' = Said(m) /\ m \in Replies'
    BY <1>2 DEF Said, Replies
  <2>3. /\ proc[k].talk = Said(m) /\ proc[k].todo # <<>>
        /\ \A i \in DOMAIN proc[k].todo : proc[k].todo[i] = <<m, proc[k].todo[1][2] + i - 1>>
        /\ \/ proc[k].token \in {None, <<"x", 0>>}
           \/ proc[k].token = <<"s", 0>> /\ HasX(proc[k].talk)
    BY <1>1, <2>1 DEF Works
  <2>4. PICK p : p = proc'[k]
    OBVIOUS
  <2>5. /\ p.talk = Said(m)' /\ p.todo # <<>>
        /\ \A i \in DOMAIN p.todo : p.todo[i] = <<m, p.todo[1][2] + i - 1>>
        /\ \/ p.token \in {None, <<"x", 0>>}
           \/ p.token = <<"s", 0>> /\ HasX(p.talk)
    BY <1>3, <2>2, <2>3, <2>4
  <2>6. ASSUME Stops(k)' = {}, NEW c \in Range(run[k].calls), c.id[1] = m
        PROVE  c.result = None
    <3>1. \A i \in Stops(k) : i = 1
      BY <1>2, <2>6, Moved DEF Took
    <3>2. proc[k].talk = Said(n)
      BY <1>1, <1>4, <3>1 DEF RunTalk, Tied
    <3>3. m = n
      BY <1>1, <1>2, <2>3, <3>2, SaidOnce
    <3> QED BY <1>1, <2>6, <3>3 DEF RunTalk, CallsTalk
  <2>7. Works(k, m)'
    BY <1>2, <2>4, <2>5, <2>6 DEF Works
  <2> QED BY <1>3, <1>4, <2>2, <2>7 DEF HelperTalk
<1>5. CASE proc[k].pc # "tools" BY <1>3, <1>5 DEF RunTalk, HelperTalk
<1> QED BY <1>4, <1>5

\* A helper that works on calls nobody has marked an error before works on those
\* of the answer whose end is read: there are no others.
LEMMA EndAlign ==
  ASSUME TableInv, NEW k \in Turns, NEW n, EndRead(k, n), RunTalk(k), ClientSound,
         Linked(k)', Tied(k)', LinesTalk(k)'
  PROVE  Align(k)'
<1>1. n \in Replies /\ 1 \in Stops(k) /\ Of(k, 1) = n
  BY EndFacts
<1>2. /\ Took(k) /\ run'[k].calls = run[k].calls /\ answer' = answer /\ Types
  BY DEF EndRead, Took, TableInv
<1>3. PICK p : p = proc[k]
  OBVIOUS
<1>4. /\ proc'[k].pc = p.pc /\ proc'[k].talk = p.talk
      /\ proc'[k].todo = p.todo /\ proc'[k].held = p.held /\ proc'[k].token = p.token
  BY <1>2, <1>3 DEF Took
<1>5. /\ Stops(k) \subseteq Nat \ {0} /\ Stops(k)' \subseteq Nat \ {0}
      /\ \A i \in Stops(k)' : i + 1 \in Stops(k) /\ Of(k, i)' = Of(k, i + 1)
      /\ \A i \in DOMAIN proc'[k].stdout :
           i + 1 \in DOMAIN proc[k].stdout /\ proc'[k].stdout[i] = proc[k].stdout[i + 1]
  BY <1>2, Moved DEF Took
<1>6. ASSUME ~HasX(p.talk), p.pc = "tools", NEW j \in DOMAIN proc'[k].stdout
      PROVE  proc'[k].stdout[j].kind # "call"
  <2> SUFFICES ASSUME proc'[k].stdout[j].kind = "call" PROVE FALSE
    OBVIOUS
  <2>1. Stops(k)' # {}
    BY DEF LinesTalk
  <2>2. PICK i \in Stops(k)' : proc'[k].talk = Said(Of(k, i))'
    BY <1>4, <1>6, <2>1 DEF Tied
  <2>3. PICK m : m = Of(k, i + 1)
    OBVIOUS
  <2>4. i \in Nat \ {0} /\ i + 1 \in Stops(k) /\ Of(k, i)' = m
    BY <1>5, <2>3
  <2>5. m \in Replies
    BY <2>3, <2>4 DEF Stops, TableInv, Known
  <2>6. ~FirstStop(k, i + 1)
    BY <1>1, <2>4 DEF FirstStop
  <2>7. Given(answer[m].to)
    BY <2>3, <2>4, <2>6 DEF RunTalk, Linked
  <2>8. HasX(answer[m].to) /\ (HasX(Said(m)) <=> HasX(answer[m].to))
    BY <1>2, <2>5, <2>7, SaidFacts, GivenHasX
  <2>9. p.talk = Said(m)
    BY <1>2, <1>4, <2>2, <2>4 DEF Said
  <2> QED BY <1>6, <2>8, <2>9
<1>7. \A first, last, d, o : \A m :
        ~HasX(p.talk) /\ p.pc = "tools" /\ Aligned(k, m, first, last, d, o) =>
          Aligned(k, m, first, last, d, 0)' /\ Aligned(k, m, first, last, d, 1)'
  BY <1>2, <1>6 DEF Aligned, Lined
<1>8. ASSUME ~HasX(p.talk), p.pc = "tools" /\ p.token # <<"x", 0>>
      PROVE  /\ p.held # None => p.held = p.todo[1]
             /\ \E d \in Nat :
                  Aligned(k, p.todo[1][1], p.todo[1][2] + (IF p.held = None THEN 0 ELSE 1),
                          p.todo[1][2] + Len(p.todo) - 1, d, Offset(k))'
  <2>1. p.held # None => p.held = p.todo[1]
    BY <1>3, <1>8 DEF RunTalk, Align
  <2>2. PICK d \in Nat :
          Aligned(k, p.todo[1][1], p.todo[1][2] + (IF p.held = None THEN 0 ELSE 1),
                  p.todo[1][2] + Len(p.todo) - 1, d, Offset(k))
    BY <1>3, <1>8 DEF RunTalk, Align
  <2>3. PICK m, first, last, o : /\ m = p.todo[1][1] /\ first = p.todo[1][2] + (IF p.held = None THEN 0 ELSE 1)
                                 /\ last = p.todo[1][2] + Len(p.todo) - 1 /\ o = Offset(k)
    OBVIOUS
  <2>4. Aligned(k, m, first, last, d, 0)' /\ Aligned(k, m, first, last, d, 1)'
    BY <1>7, <1>8, <2>2, <2>3
  <2>5. Offset(k)' \in {0, 1}
    BY DEF Offset
  <2>6. Aligned(k, m, first, last, d, Offset(k))'
    <3>1. CASE Offset(k)' = 0 BY <2>4, <3>1 DEF Aligned
    <3>2. CASE Offset(k)' = 1 BY <2>4, <3>2 DEF Aligned
    <3> QED BY <2>5, <3>1, <3>2
  <2> QED BY <2>1, <2>3, <2>6
<1>9. ASSUME ~HasX(p.talk), p.pc \in {"idle", "busy"}
      PROVE  /\ \A i \in DOMAIN run'[k].calls : run'[k].calls[i].claimed
             /\ \A j \in DOMAIN proc'[k].stdout : proc'[k].stdout[j].kind # "call"
  BY <1>2, <1>3, <1>5, <1>9 DEF RunTalk, Align
<1> QED BY <1>4, <1>8, <1>9 DEF Align

LEMMA EndLine ==
  ASSUME TableInv, StreamInv, NEW k \in Turns, NEW n, EndRead(k, n), RunTalk(k), ClientSound, Passed,
         \A t \in Turns : At(n, t)' => t = run[k].sender, \A j \in Turns : ~Unread(n, j)'
  PROVE  RunTalk(k)'
<1>1. /\ Took(k) /\ Line(k).kind = "stop" /\ n = Line(k).answer
      /\ run'[k].terminal /\ run'[k].calls = run[k].calls
  BY DEF EndRead
<1>2. Posted(k)'
  BY EndPosted
<1>3. InputTalk(k)'
  <2>1. Stops(k) # {}
    BY EndFacts
  <2>2. proc'[k].stdin = proc[k].stdin
    BY <1>1 DEF Took
  <2> QED BY <2>1, <2>2 DEF RunTalk, InputTalk
<1>4. Ahead(k)' /\ HelperTalk(k)'
  BY EndAhead, EndHelper
<1>5. Linked(k)' /\ Tied(k)'
  BY <1>1, ShiftLinks DEF RunTalk, Took
<1>6. Last(run'[k].history) = <<"a", Line(k).answer>>
  <2>2. run[k].history \in Seq(Message) /\ n \in Replies /\ Types
    BY EndFacts DEF TableInv
  <2>3. PICK h, m : h = run[k].history /\ m = <<"a", n>>
    OBVIOUS
  <2>4. m \in Message
    BY <2>2, <2>3, SaidFacts
  <2>5. Last(Append(h, m)) = m
    BY <2>2, <2>3, <2>4, Appended
  <2> QED BY <1>1, <2>3, <2>5 DEF EndRead
<1>7. LinesTalk(k)'
  BY <1>1, <1>6, ShiftLines DEF RunTalk, Took
<1>8. CallsTalk(k)'
  BY <1>1, CallsKept DEF RunTalk
<1>9. Align(k)'
  BY <1>5, <1>7, EndAlign
<1> QED BY <1>2, <1>3, <1>4, <1>5, <1>7, <1>8, <1>9 DEF RunTalk

LEMMA ReadEventTalk ==
  ASSUME TableInv, StreamInv, TalkInv, NEW k \in Turns, ReadEvent(k)
  PROVE  TalkInv'
<1>1. /\ TableInv' /\ Passed
      /\ \A n : Line(k).kind = "stop" /\ n = Line(k).answer =>
           /\ n \in Replies /\ \A t \in Turns : At(n, t)' => t = run[k].sender
           /\ \A j \in Turns : ~Unread(n, j)'
  BY ReadingTable
<1>2. Types /\ Known
  BY DEF TableInv
<1>3. EventRead(k)
  BY <1>2, ReadEventFacts
<1>4. run'[k] # None
  BY <1>2, ReadEventTypes, Kinds
<1>5. Took(k)
  BY <1>3, <1>4 DEF Took, EventRead
<1>6. RunTalk(k) /\ ClientSound
  BY <1>3 DEF TalkInv, RunsTalk, EventRead
<1>7. RunTalk(k)'
  <2>1. CASE Line(k).kind = "stop"
    <3>1. PICK n : n = Line(k).answer
      OBVIOUS
    <3>2. EndRead(k, n)
      BY <1>3, <1>5, <2>1, <3>1 DEF EndRead, EventRead
    <3>3. (\A t \in Turns : At(n, t)' => t = run[k].sender) /\ \A j \in Turns : ~Unread(n, j)'
      BY <1>1, <2>1, <3>1
    <3> QED BY <1>1, <1>6, <3>2, <3>3, EndLine
  <2>2. CASE Line(k).kind # "stop"
    <3>1. Line(k).kind = "call"
      <4>1. proc[k].stdout \in Seq(Output)
        BY <1>2, <1>3, LiveTypes DEF EventRead
      <4>2. Line(k) \in Output
        BY <1>3, <4>1 DEF Line, EventRead
      <4> QED BY <1>3, <2>2, <4>2 DEF Output, EventRead
    <3> QED BY <1>1, <1>3, <1>5, <1>6, <2>2, <3>1, CallLine DEF EventRead
  <2> QED BY <2>1, <2>2
<1>8. ASSUME Sends(k)'
      PROVE  Same(answer[reader'[k].event.answer].to, turn[reader'[k].to].messages)
  <2>1. run[k].sender # None
    BY <1>3, <1>8 DEF Sends, EventRead
  <2>2. reader'[k].to = run[k].sender /\ reader'[k].event.answer = Line(k).answer
    <3>1. PICK e : e = [answer |-> Line(k).answer, last |-> Line(k).kind = "stop"]
      OBVIOUS
    <3>2. reader'[k] = [does |-> "send", to |-> run[k].sender, event |-> e]
      BY <1>3, <2>1, <3>1 DEF EventRead
    <3>3. e.answer = Line(k).answer
      BY <3>1
    <3> QED BY <3>2, <3>3
  <2>3. Same(answer[Line(k).answer].to, turn[run[k].sender].messages)
    BY <1>3, <1>5, <1>6, <2>1, EventTalk DEF EventRead
  <2> QED BY <2>2, <2>3
<1>9. ~Saves(k)'
  BY <1>3 DEF Saves, EventRead
<1> QED BY <1>1, <1>5, <1>7, <1>8, <1>9, TookTalk

LEMMA ReadResultTalk ==
  ASSUME TableInv, TalkInv, NEW k \in Turns, ReadResult(k)
  PROVE  TalkInv'
<1>1. TableInv' /\ Passed
  BY ReadingTable
<1>2. Types
  BY DEF TableInv
<1>3. ResultRead(k)
  BY <1>2, ReadResultFacts
<1>4. run'[k] # None /\ run'[k] = run[k]
  BY <1>3 DEF Live, ResultRead
<1>5. Took(k)
  BY <1>3, <1>4 DEF Took, ResultRead
<1>6. RunTalk(k)
  BY <1>3 DEF TalkInv, RunsTalk, ResultRead
<1>7. RunTalk(k)'
  BY <1>1, <1>3, <1>4, <1>5, <1>6, ResultLine DEF ResultRead
<1>8. ~Sends(k)'
  BY <1>3 DEF Sends, ResultRead
<1>9. ASSUME Saves(k)'
      PROVE  /\ reader'[k].answer \in Replies
             /\ Twice(reader'[k].history) \/ Same(Said(reader'[k].answer), reader'[k].history)
  <2>1. Archivable(run[k])
    BY <1>3, <1>9 DEF Saves, ResultRead
  <2>2. reader'[k].answer = Line(k).answer /\ reader'[k].history = run[k].history
    BY <1>3, <2>1 DEF ResultRead
  <2>3. /\ Line(k).answer \in Replies
        /\ Twice(run[k].history) \/ Same(Said(Line(k).answer), run[k].history)
    BY <1>3, <1>5, <1>6, <2>1, SaveLine DEF ResultRead
  <2> QED BY <2>2, <2>3
<1> QED BY <1>1, <1>5, <1>7, <1>8, <1>9, TookTalk

-----------------------------------------------------------------------------
(* Every turn is sent answers to its own conversation *)

LEMMA InitTalk ==
  Init => TalkInv
<1> SUFFICES ASSUME Init PROVE TalkInv
  OBVIOUS
<1>1. /\ \A t \in Turns : turn[t] = NewTurn /\ run[t] = None /\ reader[t] = None /\ file[t] = NoFile
      /\ archive = {}
  BY DEF Init
<1>2. \A t \in Turns : turn[t].pc = "new" /\ turn[t].saved = None /\ turn[t].channel = <<>>
  BY <1>1 DEF NewTurn
<1>3. Live = {}
  BY <1>1 DEF Live
<1>4. \A t \in Turns : ~Sends(t) /\ ~Saves(t)
  BY <1>1 DEF Sends, Saves
<1>5. FileSound
  BY <1>1 DEF FileSound, NoFile
<1>6. Range(<<>>) = {}
  BY DEF Range
<1>7. Continuity
  BY <1>2, <1>6 DEF Continuity
<1>8. ClientSound /\ SavedSound
  BY <1>2 DEF ClientSound, SavedSound
<1>9. SentSound /\ SaveSound /\ ArchiveSound /\ RunsTalk
  BY <1>1, <1>3, <1>4 DEF SentSound, SaveSound, ArchiveSound, RunsTalk
<1> QED BY <1>5, <1>7, <1>8, <1>9 DEF TalkInv

LEMMA StutterTalk ==
  ASSUME TableInv, TalkInv, UNCHANGED vars
  PROVE  TalkInv'
<1>1. /\ turn' = turn /\ run' = run /\ proc' = proc /\ reader' = reader
      /\ answer' = answer /\ file' = file /\ archive' = archive
  BY DEF vars
<1>2. TableInv' /\ Passed
  BY StutterTable
<1>3. Dropped({}, {})
  <2>1. /\ run = [k \in Turns |-> run[k]] /\ proc = [k \in Turns |-> proc[k]]
        /\ turn = [t \in Turns |-> turn[t]]
    BY DEF TableInv, Types
  <2> QED BY <1>1, <2>1 DEF Dropped
<1>4. /\ \A k \in Turns : reader'[k] \in {reader[k], None}
      /\ \A s \in Turns : file'[s] \in {file[s], NoFile}
  BY <1>1
<1> QED BY <1>2, <1>3, <1>4, DroppedTalk

LEMMA StepTalk ==
  TableInv /\ StreamInv /\ TalkInv /\ ~Eager /\ [Next]_vars => TalkInv'
<1> SUFFICES ASSUME TableInv, StreamInv, TalkInv, ~Eager, [Next]_vars PROVE TalkInv'
  OBVIOUS
<1>0. AskedSound
  BY DEF StreamInv
<1>1. ASSUME NEW t \in Turns, NEW prev \in Turns \cup {None}, Asks(t, prev) PROVE TalkInv'
  BY <1>1, AsksTalk
<1>2. ASSUME NEW t \in Turns, Open(t) PROVE TalkInv'
  BY <1>0, <1>2, ReturnTalk, ContinueTalk, SpawnTalk, EndsTalk DEF Open
<1>3. ASSUME NEW t \in Turns, Process(t) PROVE TalkInv'
  BY <1>3, TakeInputTalk, GenerateTalk, ClaimTalk, HelperStepTalk, ExitTalk DEF Process
<1>4. ASSUME NEW t \in Turns, Reader(t) PROVE TalkInv'
  BY <1>4, ReadEventTalk, SendTalk, ReadResultTalk, SaveTalk, EndsTalk DEF Reader
<1>5. ASSUME NEW t \in Turns, Receive(t) \/ Broken(t) \/ Leave(t) \/ Reap(t) \/ Revoke(t)
      PROVE  TalkInv'
  BY <1>5, ReceiveTalk, EndsTalk
<1>6. CASE UNCHANGED vars BY <1>6, StutterTalk
<1> QED BY <1>1, <1>2, <1>3, <1>4, <1>5, <1>6 DEF Next

\* Where each client reads an answer to its end before it goes on, the messages a
\* run records, those its process has read, the calls and results on their way
\* between the process, its helper and the reader, the transcripts and the
\* checkpoints all tell the same conversation (open_report, read_events,
\* claude_bridge_mcp, checkpoint::save).
THEOREM TalkHolds ==
  ~Eager => (Spec => []TalkInv)
<1> SUFFICES ASSUME ~Eager PROVE Spec => []TalkInv
  OBVIOUS
<1>1. TableInv /\ StreamInv /\ TalkInv /\ [Next]_vars => TalkInv'
  BY StepTalk
<1>2. Spec => []TableInv
  BY TableHolds
<1>3. Spec => []StreamInv
  BY StreamsHold
<1> QED BY <1>1, <1>2, <1>3, InitTalk, PTL DEF Spec

\* Continuity: what a turn is sent answers its own conversation, whichever process
\* took it up: one that was reused, resumed from a checkpoint, parked with tool
\* calls or has gone on by itself after a deadline (open_report, read_events).
THEOREM OwnAnswers ==
  ~Eager => (Spec => []Continuity)
<1> SUFFICES ASSUME ~Eager PROVE Spec => []Continuity
  OBVIOUS
<1>1. TalkInv => Continuity
  BY DEF TalkInv
<1>2. Spec => []TalkInv
  BY TalkHolds
<1> QED BY <1>1, <1>2, PTL

\* ArchiveTrue: a checkpoint holds the conversation it is found by, though it is
\* put together from the run and, later, from a transcript another process of the
\* same session may have written to (checkpoint::save).
THEOREM CheckpointsTrue ==
  ~Eager => (Spec => []ArchiveTrue)
<1> SUFFICES ASSUME ~Eager PROVE Spec => []ArchiveTrue
  OBVIOUS
<1>1. TalkInv => ArchiveTrue
  BY DEF TalkInv, ArchiveSound, ArchiveTrue, Twice
<1>2. Spec => []TalkInv
  BY TalkHolds
<1> QED BY <1>1, <1>2, PTL
=============================================================================
