----------------------------- MODULE ClaudeBridge -----------------------------
(***************************************************************************)
(* The Claude Code subscription bridge (crates/aipass-agent/src/           *)
(* claude_bridge.rs and claude_bridge/): conversations of the local proxy  *)
(* are answered by processes of the official command-line tool.  A process *)
(* outlives its turn: it waits for the next message, or, parked in the     *)
(* middle of a message's tool calls, for the results the client returns in *)
(* its next request, which a helper process polls for.  One mutex guards   *)
(* the table of runs; each run has a thread that reads the process's       *)
(* output and sends it, without the mutex, to the stream of the turn.      *)
(*                                                                         *)
(* A conversation is the sequence of its messages: <<"u", t>> the input of *)
(* turn t, <<"r", t>> the tool results of turn t, <<"a", n>> the n-th      *)
(* answer.  In a process's own conversation tool results may also be       *)
(* <<"x", 0>>, an error reported by the helper, or <<"s", 0>>, the results *)
(* of other calls.  All tool calls have the same name and arguments, the   *)
(* worst case of matching them.  One target, account and context: the      *)
(* runs of others are never looked at.                                     *)
(*                                                                         *)
(* The tool writes each message of a session, with its predecessor, to the *)
(* session's transcript, and resumes a session at the message written      *)
(* last; two processes that resumed one session write to the same file.    *)
(***************************************************************************)
EXTENDS Naturals, FiniteSets, SequencesExt

CONSTANTS
  None,
  MaxRuns,   \* MAX_RUNS
  Room,      \* the capacity of a stream's channel
  Eager,     \* may a client go on before it has read the end of an answer?
  MaxTurns,  \* bound: requests
  MaxCalls,  \* bound: tool calls in an answer
  MaxAnswers \* bound: answers generated

\* Requests, and the runs they start: a run's key is the turn it began with.
Turns == 1 .. MaxTurns

ASSUME BridgeConstants ==
  /\ None \notin Nat
  /\ {MaxRuns, Room, MaxTurns, MaxAnswers} \subseteq Nat \ {0} /\ MaxCalls \in Nat
  /\ Eager \in BOOLEAN

VARIABLES
  turn,    \* each request and its SegmentStream
  run,     \* Inner.runs
  proc,    \* the process of each run, and its MCP helper
  reader,  \* what the thread of read_events holds outside the mutex
  answer,  \* the answers generated: the conversation each is to, its calls
  file,    \* the transcripts of the tool's sessions
  archive  \* the encrypted checkpoints

vars == <<turn, run, proc, reader, answer, file, archive>>

-----------------------------------------------------------------------------
(* What the variables hold *)

Message == {"u", "r", "a", "x", "s"} \X Nat
Conversation == Seq(Message)
CallId == Nat \X Nat

Transcript == [length : Nat, tip : Conversation]
Checkpoint == [history : Conversation, session : Turns, transcript : Transcript]

Event == [answer : Nat, last : BOOLEAN]

Turn == [pc : {"new", "asked", "open", "done", "failed"},
         messages : Conversation, results : SUBSET CallId, saved : Checkpoint \cup {None},
         key : Turns \cup {None}, channel : Seq(Event), got : Nat \cup {None}]

ToolCall == [id : CallId, claimed : BOOLEAN, result : Turns \cup {None}]

Run == [sender : Turns \cup {None}, history : Conversation, calls : Seq(ToolCall),
        parked : BOOLEAN, terminal : BOOLEAN]

Output == [kind : {"call", "stop", "result"}, answer : Nat, call : CallId \cup {None}]

Tool == [pc : {"dead", "idle", "busy", "tools"}, session : Turns \cup {None},
         talk : Conversation, stdin : Conversation, stdout : Seq(Output),
         todo : Seq(CallId), held : CallId \cup {None}, token : Message \cup {None}]

\* An event on its way to a stream, or a result about to be saved.
Sending == [does : {"send"}, to : Turns, event : Event]
Saving == [does : {"save"}, history : Conversation, answer : Nat, session : Turns \cup {None}]

Reply == [to : Conversation, calls : SUBSET CallId]

ASSUME NoneIsNothing ==
  None \notin Checkpoint \cup CallId \cup Message \cup Run \cup Sending \cup Saving

-----------------------------------------------------------------------------

NewTurn == [pc |-> "new", messages |-> <<>>, results |-> {}, saved |-> None,
            key |-> None, channel |-> <<>>, got |-> None]

NoProcess == [pc |-> "dead", session |-> None, talk |-> <<>>, stdin |-> <<>>,
              stdout |-> <<>>, todo |-> <<>>, held |-> None, token |-> None]

\* The number of messages in a transcript, and the conversation up to the last.
NoFile == [length |-> 0, tip |-> <<>>]

Init ==
  /\ turn = [t \in Turns |-> NewTurn]
  /\ run = [k \in Turns |-> None]
  /\ proc = [k \in Turns |-> NoProcess]
  /\ reader = [k \in Turns |-> None]
  /\ answer = <<>>
  /\ file = [s \in Turns |-> NoFile]
  /\ archive = {}

Live == {k \in Turns : run[k] # None}
Idle == {k \in Live : run[k].sender = None}

\* The calls of a run that wait for a result.
Unanswered(k) == {c \in Range(run[k].calls) : c.result = None}
CallIds(C) == {c.id : c \in C}

\* A turn that ends with an error: nothing of it is of use any more.
Failed(t) == turn' = [turn EXCEPT ![t] = [NewTurn EXCEPT !.pc = "failed"]]

\* The conversation a turn's client has after its answer.
Talk(t) == turn[t].messages \o <<<<"a", turn[t].got>>>>

Sends(k) == reader[k] # None /\ reader[k].does = "send"
Saves(k) == reader[k] # None /\ reader[k].does = "save"

\* A transcript that nothing refers to any more is left out of the state.
Useful(s, K) ==
  \/ \E k \in Live \ K : proc[k].session = s
  \/ \E k \in Turns : Saves(k) /\ reader[k].session = s
  \/ \E t \in Turns : turn[t].saved # None /\ turn[t].saved.session = s
  \/ \E c \in archive : c.session = s

\* Dropping a run kills its process; its transcript stays.
Removed(K) ==
  /\ run' = [k \in Turns |-> IF k \in K THEN None ELSE run[k]]
  /\ proc' = [k \in Turns |-> IF k \in K THEN NoProcess ELSE proc[k]]
  /\ file' = [s \in Turns |-> IF Useful(s, K) THEN file[s] ELSE NoFile]

-----------------------------------------------------------------------------
(* The client *)

\* A client may go on once it has an answer; an eager one reads the calls and
\* the text of an answer and does not wait for its last event.
Answered(t) ==
  turn[t].got # None /\ (turn[t].pc = "done" \/ (Eager /\ turn[t].pc = "open"))

\* A request: a new conversation, a message after an answer, or the results of
\* the tool calls of an answer.  checkpoint::load comes first, without the
\* mutex of the runs held on.
Asks(t, prev) ==
  /\ turn[t].pc = "new" /\ \A s \in 1 .. t - 1 : turn[s].pc # "new"
  /\ prev # None => Answered(prev)
  /\ \E tools \in BOOLEAN :
       LET calls == IF tools THEN answer[turn[prev].got].calls ELSE {}
           before == IF prev = None THEN <<>> ELSE Talk(prev)
           found == {c \in archive : c.history = before}
       IN /\ tools => prev # None /\ answer[turn[prev].got].calls # {}
          /\ \E saved \in found \cup {None} :
               /\ saved # None => \A k \in Live : run[k].history # before
               /\ turn' = [turn EXCEPT ![t] =
                    [@ EXCEPT !.pc = "asked", !.results = calls, !.saved = saved,
                              !.messages = Append(before, <<IF tools THEN "r" ELSE "u", t>>)]]
  /\ UNCHANGED <<run, proc, reader, answer, file, archive>>

-----------------------------------------------------------------------------
(* open_report, under the mutex *)

Text(t) == turn[t].results = {}

\* Mutant: any idle run continues the conversation.
Continues_Any(k, t) == ~run[k].parked

\* The run's conversation is the one the request continues.
Continues(k, t) == ~run[k].parked /\ run[k].history = Front(turn[t].messages)

\* Mutant: the run had these calls, whether it waits or not.
Awaits_Any(k, t) == turn[t].results \subseteq CallIds(Unanswered(k))

\* The run waits for these results.
Awaits(k, t) == run[k].parked /\ turn[t].results \subseteq CallIds(Unanswered(k))

Reusable(t) == {k \in Idle : IF Text(t) THEN Continues(k, t) ELSE Awaits(k, t)}

\* The turn has a run: its stream exists, and the run sends to it.
Taken(k, t, calls) ==
  /\ run' = [run EXCEPT ![k] = [@ EXCEPT !.sender = t, !.parked = FALSE, !.terminal = FALSE,
                                         !.history = turn[t].messages, !.calls = calls]]
  /\ turn' = [turn EXCEPT ![t] = [@ EXCEPT !.pc = "open", !.key = k, !.saved = None]]
  /\ UNCHANGED <<reader, answer, file, archive>>

\* validate_results: exactly one result for each pending call.
ReturnResults(t) ==
  \E k \in Reusable(t) :
    /\ turn[t].pc = "asked" /\ ~Text(t)
    /\ turn[t].results = CallIds(Unanswered(k))
    /\ Taken(k, t, [i \in DOMAIN run[k].calls |->
                      [run[k].calls[i] EXCEPT !.result = IF @ = None THEN t ELSE @]])
    /\ UNCHANGED proc

\* write_user to the process that has the conversation.
Continue(t) ==
  \E k \in Reusable(t) :
    /\ turn[t].pc = "asked" /\ Text(t)
    /\ proc[k].pc # "dead"
    /\ proc' = [proc EXCEPT ![k].stdin = Append(@, <<"u", t>>)]
    /\ Taken(k, t, <<>>)

\* Mutant: the oldest run is evicted, in use or not.
Evictable_Any == Live

Evictable == Idle

\* The runs in K are evicted, and still there are too many.
Full(K) == Cardinality(Live \ K) >= MaxRuns

\* Runs that make way: none too many.
Evictions ==
  {K \in SUBSET Evictable : ~Full(K) /\ \A k \in K : Full(K \ {k})}

\* checkpoint::restore: nobody has written to the saved session since.
Resumes(t) == turn[t].saved # None /\ file[turn[t].saved.session] = turn[t].saved.transcript

\* A process that resumes a saved session and has yet to read the last message,
\* or is given all messages; nobody else knows its transcript yet.
Fresh(t) ==
  IF Resumes(t)
  THEN [NoProcess EXCEPT !.pc = "idle", !.session = turn[t].saved.session,
          !.talk = turn[t].saved.transcript.tip, !.stdin = <<Last(turn[t].messages)>>]
  ELSE [NoProcess EXCEPT !.pc = "busy", !.session = t, !.talk = turn[t].messages]

\* A new run.  An active turn of the same conversation may forbid it, if it has
\* a name.
Spawn(t) ==
  \E K \in Evictions :
    /\ turn[t].pc = "asked" /\ Text(t) /\ Reusable(t) = {}
    /\ run' = [k \in Turns |->
         IF k = t THEN [sender |-> t, history |-> turn[t].messages, calls |-> <<>>,
                        parked |-> FALSE, terminal |-> FALSE]
         ELSE IF k \in K THEN None ELSE run[k]]
    /\ proc' = [k \in Turns |->
         IF k = t THEN Fresh(t) ELSE IF k \in K THEN NoProcess ELSE proc[k]]
    /\ file' = [s \in Turns |->
         IF s = t /\ ~Resumes(t) THEN [length |-> 1, tip |-> turn[t].messages]
         ELSE IF Useful(s, K) THEN file[s] ELSE NoFile]
    /\ turn' = [turn EXCEPT ![t] = [@ EXCEPT !.pc = "open", !.key = t, !.saved = None]]
    /\ UNCHANGED <<reader, answer, archive>>

\* An error: an unknown account, results nobody waits for or not all of them,
\* an active turn, no process to be had; runs may have been evicted by then.
Refuse(t) ==
  /\ turn[t].pc = "asked"
  /\ \/ Removed({})
     \/ Text(t) /\ Reusable(t) = {} /\ \E K \in Evictions : Removed(K)
  /\ Failed(t)
  /\ UNCHANGED <<reader, answer, archive>>

-----------------------------------------------------------------------------
(* The process and its helper *)

\* The process has said or been told something more.
Wrote(k, talk) ==
  file' = [file EXCEPT ![proc[k].session] = [length |-> @.length + 1, tip |-> talk]]

TakeInput(k) ==
  LET talk == Append(proc[k].talk, Head(proc[k].stdin)) IN
  /\ proc[k].pc = "idle" /\ proc[k].stdin # <<>>
  /\ proc' = [proc EXCEPT ![k] = [proc[k] EXCEPT !.pc = "busy", !.stdin = Tail(@), !.talk = talk]]
  /\ Wrote(k, talk)
  /\ UNCHANGED <<turn, run, reader, answer, archive>>

\* An answer, with tool calls or not, is written to stdout; the reader gets to
\* it line by line.  Of the lines that are only passed on there are none: those
\* of a call are passed on as well.
Generate(k) ==
  /\ proc[k].pc = "busy" /\ Len(answer) < MaxAnswers
  /\ \E size \in 0 .. MaxCalls :
       LET n == Len(answer) + 1
           ids == [i \in 1 .. size |-> <<n, i>>]
           line(kind, c) == [kind |-> kind, answer |-> n, call |-> c]
           blocks == [i \in 1 .. size |-> line("call", ids[i])]
           ending == IF size = 0 THEN <<line("stop", None), line("result", None)>>
                     ELSE <<line("stop", None)>>
       IN /\ answer' = Append(answer, [to |-> proc[k].talk, calls |-> Range(ids)])
          /\ proc' = [proc EXCEPT ![k] =
               [proc[k] EXCEPT !.pc = IF size = 0 THEN "idle" ELSE "tools",
                         !.talk = Append(@, <<"a", n>>), !.todo = ids,
                         !.stdout = @ \o blocks \o ending]]
          /\ Wrote(k, Append(proc[k].talk, <<"a", n>>))
  /\ UNCHANGED <<turn, run, reader, archive>>

\* What the results of a message come to, one call after the other.
Joined(old, new) ==
  IF <<"x", 0>> \in {old, new} THEN <<"x", 0>>
  ELSE IF <<"s", 0>> \in {old, new} THEN <<"s", 0>>
  ELSE new

\* The helper has something for the call it works on.
Settle(k, token) ==
  LET all == Joined(proc[k].token, token)
      talk == Append(proc[k].talk, all)
  IN IF Len(proc[k].todo) > 1
     THEN /\ proc' = [proc EXCEPT ![k] =
                [proc[k] EXCEPT !.todo = Tail(@), !.held = None, !.token = all]]
          /\ UNCHANGED file
     ELSE /\ proc' = [proc EXCEPT ![k] =
                [proc[k] EXCEPT !.pc = "busy", !.todo = <<>>, !.held = None, !.token = None, !.talk = talk]]
          /\ Wrote(k, talk)

Claimed(k, i) == [run[k].calls EXCEPT ![i].claimed = TRUE]

\* ClaudeBridgeRequest::Call: the first unclaimed call that matches.
Claim(k) ==
  /\ proc[k].pc = "tools" /\ proc[k].held = None /\ run[k] # None
  /\ \E i \in DOMAIN run[k].calls :
       /\ ~run[k].calls[i].claimed
       /\ \A j \in 1 .. i - 1 : run[k].calls[j].claimed
       /\ run' = [run EXCEPT ![k].calls = Claimed(k, i)]
       /\ proc' = [proc EXCEPT ![k].held = run[k].calls[i].id]
  /\ UNCHANGED <<turn, reader, answer, file, archive>>

\* ClaudeBridgeRequest::Poll finds the result.
Poll(k) ==
  /\ proc[k].pc = "tools" /\ proc[k].held # None /\ run[k] # None
  /\ \E c \in Range(run[k].calls) :
       /\ c.id = proc[k].held /\ c.result # None
       /\ Settle(k, IF c.id = Head(proc[k].todo) THEN <<"r", c.result>> ELSE <<"s", 0>>)
  /\ UNCHANGED <<turn, run, reader, answer, archive>>

\* The call does not turn up in time, or its result does not, or the run is too
\* old or the vault locked: the tool is told of an error and goes on.
HelperGivesUp(k) ==
  /\ proc[k].pc = "tools"
  /\ Settle(k, <<"x", 0>>)
  /\ UNCHANGED <<turn, run, reader, answer, archive>>

\* The process ends, or reports an error, which ends its reader and so itself;
\* what it wrote before is still read.  (An end in the middle of an answer is to
\* the others what the kill of Revoke is.)
Exit(k) ==
  /\ proc[k].pc # "dead"
  /\ proc' = [proc EXCEPT ![k] =
       [NoProcess EXCEPT !.session = proc[k].session, !.stdout = proc[k].stdout]]
  /\ UNCHANGED <<turn, run, reader, answer, file, archive>>

-----------------------------------------------------------------------------
(* read_events *)

Line(k) == Head(proc[k].stdout)

\* The run after message_stop: it is nobody's any more.
Ended(r, n) ==
  [r EXCEPT !.terminal = TRUE, !.parked = answer[n].calls # {}, !.sender = None,
            !.history = Append(@, <<"a", n>>)]

\* A line of the answer: a call is recorded, the end leaves the run to the next
\* turn; then the event is sent with the mutex released.
ReadEvent(k) ==
  LET l == Line(k) IN
  /\ run[k] # None /\ reader[k] = None
  /\ proc[k].stdout # <<>> /\ l.kind # "result"
  /\ proc' = [proc EXCEPT ![k].stdout = Tail(@)]
  /\ run' = [run EXCEPT ![k] =
       IF l.kind = "stop" THEN Ended(@, l.answer)
       ELSE [run[k] EXCEPT !.calls = Append(@, [id |-> l.call, claimed |-> FALSE, result |-> None])]]
  /\ reader' = [reader EXCEPT ![k] =
       IF run[k].sender = None THEN None
       ELSE [does |-> "send", to |-> run[k].sender,
             event |-> [answer |-> l.answer, last |-> l.kind = "stop"]]]
  /\ UNCHANGED <<turn, answer, file, archive>>

\* blocking_send
Send(k) ==
  /\ Sends(k) /\ turn[reader[k].to].pc = "open" /\ Len(turn[reader[k].to].channel) < Room
  /\ turn' = [turn EXCEPT ![reader[k].to].channel = Append(@, reader[k].event)]
  /\ reader' = [reader EXCEPT ![k] = None]
  /\ UNCHANGED <<run, proc, answer, file, archive>>

\* The turn has ended, and no other has begun since.
Archivable(r) == r.terminal /\ ~r.parked

\* checkpoint::save: what is to be saved is read under the mutex ...
ReadResult(k) ==
  /\ run[k] # None /\ reader[k] = None
  /\ proc[k].stdout # <<>> /\ Line(k).kind = "result"
  /\ proc' = [proc EXCEPT ![k].stdout = Tail(@)]
  /\ reader' = [reader EXCEPT ![k] =
       IF Archivable(run[k])
       THEN [does |-> "save", history |-> run[k].history, answer |-> Line(k).answer,
             session |-> proc[k].session]
       ELSE None]
  /\ UNCHANGED <<turn, run, answer, file, archive>>

\* Mutant: the transcript is taken as it is.
Complete_Always(transcript, n) == TRUE

\* The last message of a transcript is that answer.
Complete(transcript, n) == transcript.tip # <<>> /\ Last(transcript.tip) = <<"a", n>>

\* ... and the transcript without it.  The agent may refuse to store it, as when
\* the vault is locked.
SaveCheckpoint(k) ==
  LET transcript == file[reader[k].session] IN
  /\ Saves(k)
  /\ \/ UNCHANGED archive
     \/ /\ Complete(transcript, reader[k].answer)
        /\ archive' = {c \in archive : c.history # reader[k].history} \cup
             {[history |-> reader[k].history, session |-> reader[k].session,
               transcript |-> transcript]}
  /\ reader' = [reader EXCEPT ![k] = None]
  /\ UNCHANGED <<turn, run, proc, answer, file>>

\* The output has ended, or nobody takes it.
ReaderEnds(k) ==
  /\ \/ run[k] # None /\ reader[k] = None /\ proc[k].pc = "dead" /\ proc[k].stdout = <<>>
     \/ Sends(k) /\ turn[reader[k].to].pc # "open"
  /\ Removed({k})
  /\ reader' = [reader EXCEPT ![k] = None]
  /\ UNCHANGED <<turn, answer, archive>>

-----------------------------------------------------------------------------
(* SegmentStream *)

\* Somebody may still send to the turn.
HasSender(t) ==
  \/ \E k \in Live : run[k].sender = t
  \/ \E k \in Turns : Sends(k) /\ reader[k].to = t

\* poll_next: an event, the last one ends the stream.
Receive(t) ==
  /\ turn[t].pc = "open" /\ turn[t].channel # <<>>
  /\ LET e == Head(turn[t].channel) IN
     turn' = [turn EXCEPT ![t] = [turn[t] EXCEPT !.channel = Tail(@), !.got = e.answer,
                                    !.pc = IF e.last THEN "done" ELSE "open"]]
  /\ UNCHANGED <<run, proc, reader, answer, file, archive>>

\* The process ended before completion.
Broken(t) ==
  /\ turn[t].pc = "open" /\ turn[t].channel = <<>> /\ ~HasSender(t)
  /\ Failed(t)
  /\ UNCHANGED <<run, proc, reader, answer, file, archive>>

\* Drop of a stream that is not complete, as when the client leaves.
Leave(t) ==
  /\ turn[t].pc = "open"
  /\ Failed(t)
  /\ Removed({turn[t].key})
  /\ UNCHANGED <<reader, answer, archive>>

-----------------------------------------------------------------------------
(* Ends of runs nobody asked for *)

\* The reaper: an idle or a parked run has waited long enough.
Reap(k) ==
  /\ k \in Idle
  /\ Removed({k})
  /\ UNCHANGED <<turn, reader, answer, archive>>

\* retain_targets or revoke: the account, its key or its model has changed, or
\* the vault was locked.
Revoke(k) ==
  /\ k \in Live
  /\ Removed({k})
  /\ UNCHANGED <<turn, reader, answer, archive>>

Open(t) == ReturnResults(t) \/ Continue(t) \/ Spawn(t) \/ Refuse(t)
Process(k) == TakeInput(k) \/ Generate(k) \/ Claim(k) \/ Poll(k) \/ HelperGivesUp(k) \/ Exit(k)
Reader(k) == ReadEvent(k) \/ Send(k) \/ ReadResult(k) \/ SaveCheckpoint(k) \/ ReaderEnds(k)

Next ==
  \E t \in Turns :
    \/ \E prev \in Turns \cup {None} : Asks(t, prev)
    \/ Open(t) \/ Process(t) \/ Reader(t)
    \/ Receive(t) \/ Broken(t) \/ Leave(t) \/ Reap(t) \/ Revoke(t)

Spec == Init /\ [][Next]_vars

-----------------------------------------------------------------------------
(* Properties *)

\* Each variable holds a value of its kind; there are never more processes than
\* MAX_RUNS, nor more events in a channel than it has room for.
TypeOK ==
  /\ turn \in [Turns -> Turn] /\ run \in [Turns -> Run \cup {None}]
  /\ proc \in [Turns -> Tool] /\ reader \in [Turns -> Sending \cup Saving \cup {None}]
  /\ answer \in Seq(Reply) /\ file \in [Turns -> Transcript] /\ archive \subseteq Checkpoint
  /\ Cardinality(Live) <= MaxRuns
  /\ \A t \in Turns : Len(turn[t].channel) <= Room

\* A process's conversation is the client's, message for message; only tool
\* results may be an error of the helper instead, or, once there was such an
\* error, the results of an identical call.
Same(own, client) ==
  /\ Len(own) = Len(client)
  /\ \A i \in DOMAIN own :
       \/ own[i] = client[i]
       \/ client[i][1] = "r" /\ own[i][1] = "x"
       \/ client[i][1] = "r" /\ own[i][1] = "s" /\ \E j \in 1 .. i - 1 : own[j][1] = "x"

\* What a turn is sent answers its own conversation, whichever process took it
\* up: one that was reused, resumed from a checkpoint, parked with tool calls or
\* has gone on by itself after a deadline (open_report, read_events).
Continuity ==
  \A t \in Turns : \A e \in Range(turn[t].channel) : Same(answer[e.answer].to, turn[t].messages)

\* A checkpoint holds the conversation it is found by, although it was put
\* together from the run and, later, from a transcript that this process or
\* another of the same session may have written to (checkpoint::save).  Only a
\* process that went on after a deadline leaves one of two answers in a row, which
\* no client asks for.
ArchiveTrue ==
  \A c \in archive :
    \/ Same(c.transcript.tip, c.history)
    \/ \E i \in 2 .. Len(c.history) : c.history[i - 1][1] = "a" /\ c.history[i][1] = "a"

\* A run that answers a turn is not evicted to make room for another turn, nor
\* ended by the late drop of an earlier turn's stream: it ends with its own
\* stream, its process or a revocation (open_report, SegmentStream::drop).
ActiveKept ==
  [][\A k \in Live :
       run[k].sender # None /\ run'[k] = None =>
         \/ turn'[run[k].sender].pc # "open"
         \/ proc[k].pc = "dead"
         \/ Revoke(k)]_vars

\* A turn never waits for a process that has nothing to do: a run is not given
\* results after its process went on without them, nor a message that does not
\* reach it, whatever the helper's deadlines and the reader's delay
\* (open_report, run_mcp_helper).  Nothing else would end such a turn but its
\* client.
Served ==
  \A k \in Live :
    run[k].sender # None /\ reader[k] = None /\ proc[k].pc = "idle" =>
      proc[k].stdin # <<>> \/ proc[k].stdout # <<>>
=============================================================================
