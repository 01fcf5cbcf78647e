------------------------------- MODULE WsBridge -------------------------------
(***************************************************************************)
(* One Responses WebSocket session adapted to HTTP forwarding              *)
(* (crates/aipass-proxy/src/websocket/bridge.rs): a queue of               *)
(* response.create events, at most one running response in each lane, and  *)
(* the latest response of each lane kept in memory so that a later request *)
(* can continue it.  Conversation items that only their provider can read  *)
(* (encrypted reasoning, file ids) tie a continuation to that provider.    *)
(*                                                                         *)
(* A history is abstracted to its size and to the targets whose provider   *)
(* state it holds.  The client is external: a lane carries one             *)
(* conversation, but requests may be pipelined, may fork another lane and  *)
(* may repeat the whole input instead of naming a previous response.       *)
(***************************************************************************)
EXTENDS Naturals, FiniteSets, SequencesExt

CONSTANTS
  Lanes,      \* stream_id's; Unnamed is the lane of requests without one
  Unnamed,
  Targets,    \* enabled targets of the route
  None,
  MaxLanes,   \* MAX_LANES
  MaxActive,  \* MAX_ACTIVE
  MaxQueued,  \* MAX_QUEUED
  MaxBytes,   \* MAX_SESSION_BYTES, in items
  MaxRequests \* bound: messages of the client

\* The client's requests, and the ids of their responses.
Requests == 1 .. MaxRequests

ASSUME BridgeConstants ==
  /\ Unnamed \in Lanes
  /\ None \notin Requests \cup Targets
  /\ {MaxLanes, MaxActive, MaxQueued, MaxBytes, MaxRequests} \subseteq Nat \ {0}

VARIABLES
  open,      \* the connection
  changed,   \* config_changed: the route's configuration was replaced
  lanes,     \* session.lanes
  queue,     \* session.queue
  active,    \* session.active
  cache,     \* session.cache
  run,       \* the future of each request that was prepared
  outbox,    \* Output::Finished of the channel, oldest first
  sent,      \* messages of the client so far
  accepted,  \* requests enqueued in each lane, in order
  answered,  \* terminal events sent in each lane, in order
  known,     \* what the client knows of the response to each of its requests
  view       \* the response the client's conversation in each lane is at

session == <<lanes, queue, active, cache>>
client == <<sent, known, view>>
vars == <<open, changed, session, run, outbox, accepted, answered, client>>

NoHistory == [size |-> 0, state |-> {}]

Histories == [size : Nat, state : SUBSET Targets]

\* CachedResponse
Cached == [id : Requests, size : 0 .. MaxBytes, state : SUBSET Targets,
           bound : Targets \cup {None}, origin : Targets \cup {None}]

\* What a terminal event tells the client.
Terminal == [ok : BOOLEAN, size : Nat, state : SUBSET Targets]

\* A response.create in the queue.
Request == [id : Requests, lane : Lanes, prev : Requests \cup {None},
            generate : BOOLEAN, valid : BOOLEAN, input : Histories]

\* A prepared request and, once its future has ended, the result.
Result == [known : Terminal, cached : Cached \cup {None}]

Run == [lane : Lanes, prev : Requests \cup {None}, generate : BOOLEAN, history : Histories,
        bound : Targets \cup {None}, origin : Targets \cup {None},
        to : Targets \cup {None}, result : Result \cup {None}]

ASSUME NoneIsNoRecord == None \notin Cached \cup Terminal \cup Request \cup Result \cup Run

Init ==
  /\ open = TRUE /\ changed = FALSE
  /\ lanes = {} /\ queue = <<>> /\ active = {}
  /\ cache = [l \in Lanes |-> None]
  /\ run = [q \in Requests |-> None]
  /\ outbox = <<>>
  /\ sent = 0
  /\ accepted = [l \in Lanes |-> <<>>]
  /\ answered = [l \in Lanes |-> <<>>]
  /\ known = [q \in Requests |-> None]
  /\ view = [l \in Lanes |-> None]

-----------------------------------------------------------------------------
(* Session *)

\* Session::enqueue lets the request in.
Room(l) ==
  /\ l = Unnamed \/ l \in lanes \/ Cardinality(lanes) < MaxLanes
  /\ Len(queue) < MaxQueued

\* Mutant: the head of the queue is taken although its lane is busy.
Startable_Busy(i) == Cardinality(active) < MaxActive

\* Session::next would take the i-th request.
Startable(i) ==
  /\ Cardinality(active) < MaxActive
  /\ queue[i].lane \notin active
  /\ \A j \in 1 .. i - 1 : queue[j].lane \in active

Idle == \A i \in DOMAIN queue : ~Startable(i)

Parents(prev) == {l \in Lanes : cache[l] # None /\ cache[l].id = prev}

\* The cached response a request continues.
Parent(prev) == cache[CHOOSE l \in Parents(prev) : TRUE]

Extended(h, g) == [size |-> h.size + g.size, state |-> h.state \cup g.state]

History(r) ==
  IF r.prev = None THEN r.input
  ELSE Extended([size |-> Parent(r.prev).size, state |-> Parent(r.prev).state], r.input)

GivenBound(r) == IF r.prev = None THEN None ELSE Parent(r.prev).bound
GivenOrigin(r) == IF r.prev = None THEN None ELSE Parent(r.prev).origin

\* Provider state that no parent has bound to a target.
Homeless(r) == GivenBound(r) = None /\ History(r).state # {}

\* The parent's origin or, for repeated input, the lane's.
Origin(r) ==
  IF GivenOrigin(r) # None \/ ~Homeless(r) THEN GivenOrigin(r)
  ELSE IF cache[r.lane] = None THEN None ELSE cache[r.lane].origin

\* Mutant: repeated input may go to any target.
Bound_ParentOnly(r) == GivenBound(r)

\* The target prepare binds the request to.
Bound(r) == IF Homeless(r) THEN Origin(r) ELSE GivenBound(r)

\* Session::prepare accepts the request.
Prepares(r) ==
  /\ r.valid
  /\ r.prev # None => Parents(r.prev) # {}
  /\ Homeless(r) => Origin(r) # None

\* Mutant: a failure evicts the parent wherever it is.
failed_Anywhere(l, prev) == [m \in Lanes |-> IF m \in Parents(prev) THEN None ELSE cache[m]]

\* Session::failed: an error evicts its parent, if its own lane holds it.
failed(l, prev) ==
  IF cache[l] # None /\ cache[l].id = prev THEN [cache EXCEPT ![l] = None] ELSE cache

Fits(l, c) ==
  c.size + FoldFunctionOnSet(LAMBDA d, n : n + (IF d = None THEN 0 ELSE d.size),
                             0, cache, Lanes \ {l}) <= MaxBytes

\* The cache after a response: the lane's old one goes in any case, and the
\* new one is kept if there is room (Session::remember).
remember(l, c) ==
  [cache EXCEPT ![l] = IF c # None /\ Fits(l, c) THEN c ELSE None]

-----------------------------------------------------------------------------
(* serve_session *)

\* A terminal event goes to the client, who learns of the response.
Answer(l, q, result) ==
  /\ answered' = [answered EXCEPT ![l] = Append(@, q)]
  /\ known' = [known EXCEPT ![q] = result]
  /\ view' = IF result.ok THEN [view EXCEPT ![l] = q] ELSE view
  /\ UNCHANGED sent

Rejected == [ok |-> FALSE, size |-> 0, state |-> {}]

Outstanding(l) == Len(answered[l]) < Len(accepted[l])

\* A text message of the client.  Either it continues a response, its lane's
\* or, to start a conversation, any that is known; or it repeats the input of
\* its lane, the last response included; or it starts afresh.
Receive(l) ==
  /\ open /\ Idle
  /\ sent < MaxRequests /\ sent' = sent + 1
  /\ \E prev \in {p \in Requests : known[p] # None /\ known[p].ok} \cup {None},
        repeat, generate, valid \in BOOLEAN :
       LET begins == ~repeat /\ (prev = None \/ prev # view[l])
           said == IF repeat THEN [size |-> known[view[l]].size, state |-> known[view[l]].state]
                   ELSE NoHistory
           q == sent + 1
           r == [id |-> q, lane |-> l, prev |-> prev, generate |-> generate, valid |-> valid,
                 input |-> [said EXCEPT !.size = @ + 1]]
       IN /\ repeat => prev = None /\ view[l] # None
          /\ repeat \/ begins => ~Outstanding(l)
          /\ IF Room(l)
             THEN /\ lanes' = lanes \cup ({l} \ {Unnamed})
                  /\ queue' = Append(queue, r)
                  /\ accepted' = [accepted EXCEPT ![l] = Append(@, q)]
                  /\ view' = IF begins THEN [view EXCEPT ![l] = None] ELSE view
                  /\ UNCHANGED known
             ELSE /\ known' = [known EXCEPT ![q] = Rejected]
                  /\ UNCHANGED <<lanes, queue, accepted, view>>
          /\ open' = (Room(l) \/ ~changed)
  /\ UNCHANGED <<changed, active, cache, run, outbox, answered>>

\* The next request leaves the queue: it is prepared, or refused at once.
Dispatch(i) ==
  LET r == queue[i] IN
  /\ open /\ Startable(i)
  /\ queue' = RemoveAt(queue, i)
  /\ \/ /\ Prepares(r)
        /\ active' = active \cup {r.lane}
        /\ run' = [run EXCEPT ![r.id] =
             [lane |-> r.lane, prev |-> r.prev, generate |-> r.generate,
              history |-> History(r), bound |-> Bound(r), origin |-> Origin(r),
              to |-> None, result |-> None]]
        /\ UNCHANGED <<open, cache, answered, client>>
     \/ /\ ~Prepares(r)
        /\ cache' = failed(r.lane, r.prev)
        /\ IF changed THEN open' = FALSE /\ UNCHANGED <<answered, client>>
           ELSE Answer(r.lane, r.id, Rejected) /\ UNCHANGED open
        /\ UNCHANGED <<active, run>>
  /\ UNCHANGED <<changed, lanes, outbox, accepted>>

-----------------------------------------------------------------------------
(* run_response *)

Finished(q, result, cached) ==
  /\ run' = [run EXCEPT ![q].result = [known |-> result, cached |-> cached]]
  /\ outbox' = Append(outbox, q)

\* cache(): too long a history is not kept.
Kept(q, h, bound, origin) ==
  IF h.size > MaxBytes THEN None
  ELSE [id |-> q, size |-> h.size, state |-> h.state, bound |-> bound, origin |-> origin]

Completed(h) == [ok |-> TRUE, size |-> h.size, state |-> h.state]

Running(q) == open /\ run[q] # None /\ run[q].result = None

\* generate = false: nothing is sent upstream.
WarmUp(q) ==
  LET t == run[q] IN
  /\ Running(q) /\ ~t.generate
  /\ Finished(q, Completed(t.history), Kept(q, t.history, t.bound, t.origin))
  /\ UNCHANGED <<open, changed, session, accepted, answered, client>>

\* forward_request, restricted to the bound target, commits to one.
Forward(q) ==
  LET t == run[q] IN
  /\ Running(q) /\ t.generate /\ t.to = None /\ t.history.size <= MaxBytes
  /\ \E target \in Targets :
       /\ t.bound \in {None, target}
       /\ run' = [run EXCEPT ![q].to = target]
  /\ UNCHANGED <<open, changed, session, outbox, accepted, answered, client>>

\* The stream ends with response.completed or response.incomplete; the output
\* may hold provider state.
Complete(q) ==
  LET t == run[q] IN
  /\ Running(q) /\ t.to # None
  /\ \E output \in {{}, {t.to}} :
       LET h == Extended(t.history, [size |-> 1, state |-> output])
           bound == IF t.bound # None THEN t.bound
                    ELSE IF h.state # {} THEN t.to ELSE None
       IN Finished(q, Completed(h), Kept(q, h, bound, t.to))
  /\ UNCHANGED <<open, changed, session, accepted, answered, client>>

\* No target takes the request, the stream breaks or ends with an error.
Fail(q) ==
  /\ Running(q) /\ run[q].generate
  /\ Finished(q, Rejected, None)
  /\ UNCHANGED <<open, changed, session, accepted, answered, client>>

\* Mutant: a lane stays busy after an error.
Freed_AfterSuccess(t) == IF t.result.known.ok THEN active \ {t.lane} ELSE active

Freed(t) == active \ {t.lane}

\* The oldest of the channel's results is taken up and sent.
Deliver ==
  /\ open /\ Idle /\ outbox # <<>>
  /\ LET q == Head(outbox)
         t == run[q]
     IN /\ active' = Freed(t)
        /\ cache' = IF t.result.known.ok THEN remember(t.lane, t.result.cached)
                    ELSE failed(t.lane, t.prev)
        /\ run' = [run EXCEPT ![q] = None]
        /\ IF changed THEN open' = FALSE /\ UNCHANGED <<answered, client>>
           ELSE Answer(t.lane, q, t.result.known) /\ UNCHANGED open
  /\ outbox' = Tail(outbox)
  /\ UNCHANGED <<changed, lanes, queue, accepted>>

ConfigChanged ==
  /\ open /\ ~changed
  /\ changed' = TRUE
  /\ UNCHANGED <<open, session, run, outbox, accepted, answered, client>>

\* The client leaves or does not read, or the configuration has changed.
Close ==
  /\ open
  /\ open' = FALSE
  /\ UNCHANGED <<changed, session, run, outbox, accepted, answered, client>>

Next ==
  \/ \E l \in Lanes : Receive(l)
  \/ \E i \in DOMAIN queue : Dispatch(i)
  \/ \E q \in Requests : WarmUp(q) \/ Forward(q) \/ Complete(q) \/ Fail(q)
  \/ Deliver \/ ConfigChanged \/ Close

Spec == Init /\ [][Next]_vars

\* The loop goes on; forwarding has time limits, so every future ends.
FairSpec ==
  /\ Spec
  /\ WF_vars(Deliver)
  /\ WF_vars(\E i \in DOMAIN queue : Dispatch(i))
  /\ \A q \in Requests : WF_vars(WarmUp(q) \/ Complete(q) \/ Fail(q))

-----------------------------------------------------------------------------
(* Properties *)

\* Each variable holds a value of its kind.
TypeOK ==
  /\ open \in BOOLEAN /\ changed \in BOOLEAN
  /\ lanes \subseteq Lanes
  /\ queue \in Seq(Request)
  /\ active \subseteq Lanes
  /\ cache \in [Lanes -> Cached \cup {None}]
  /\ run \in [Requests -> Run \cup {None}]
  /\ outbox \in Seq(Requests)
  /\ sent \in 0 .. MaxRequests
  /\ accepted \in [Lanes -> Seq(Requests)]
  /\ answered \in [Lanes -> Seq(Requests)]
  /\ known \in [Requests -> Terminal \cup {None}]
  /\ view \in [Lanes -> Requests \cup {None}]

\* MAX_LANES, MAX_QUEUED and MAX_ACTIVE hold, whatever the client sends.
WithinLimits ==
  /\ Cardinality(lanes) <= MaxLanes
  /\ Len(queue) <= MaxQueued
  /\ Cardinality(active) <= MaxActive

\* What only one provider can read is sent to no other: neither continuations
\* and forks of cached responses nor repeated input leave the target that
\* produced the provider state (bound_target, origin_target).
OriginOnly ==
  \A q \in Requests :
    run[q] # None /\ run[q].to # None => run[q].history.state \subseteq {run[q].to}

\* The accepted requests of a lane are answered in their order, each once,
\* although lanes overtake each other and results wait in the channel.
LaneOrder == \A l \in Lanes : IsPrefix(answered[l], accepted[l])

\* A response leaves the cache only with an answer in its own lane, and on a
\* failure only if the failed request continued it: a failed fork costs the
\* other lane nothing, and a late duplicate costs the newer response nothing.
ParentKept ==
  [][\A l \in Lanes :
       cache[l] # None /\ cache'[l] # cache[l] =>
         \/ ~open'
         \/ \E q \in Requests :
              /\ answered'[l] = Append(answered[l], q)
              /\ known'[q].ok \/ \E r \in Range(queue) \cup Range(run) :
                                   r # None /\ r.lane = l /\ r.prev = cache[l].id]_vars

\* Every accepted request is answered, unless the connection ends: no lane
\* waits for ever behind another, behind a failure or behind the limits.
Answered == \A l \in Lanes : Outstanding(l) ~> ~Outstanding(l) \/ ~open
=============================================================================
