---------------------------- MODULE ProxyRouting ----------------------------
(***************************************************************************)
(* One route of the local proxy (crates/aipass-proxy): how a request       *)
(* chooses an upstream target, is admitted, fails over and holds, and what *)
(* its outcome does to the target's health, to the provider's concurrency  *)
(* and to the binding of its session.  Requests run concurrently and share *)
(* health, occupancy and bindings, each under its own lock; the            *)
(* configuration may change under all of them.                             *)
(*                                                                         *)
(* HTTP and SSE attempts are modelled; the WebSocket transport, quotas and *)
(* image requests are not.  Time is relative: a ban counts down and the    *)
(* age of a failure counts up, so no clock grows.                          *)
(***************************************************************************)
EXTENDS Integers, Sequences, FiniteSets

CONSTANTS
  Targets,
  Providers,
  ProviderOf,        \* the provider entry of each target
  Requests,          \* request slots: a finished one may serve the next request
  Sessions,
  SessionOf,         \* the session each slot's requests belong to
  None,
  Replaceable,       \* targets whose account the user may replace
  Limits,            \* concurrency limits the user may set; 0 is unlimited
  FailureThreshold,  \* failures in a row that open the circuit
  Cooldown,          \* first ban, in ticks
  MaxCooldown,       \* MAX_CIRCUIT_COOLDOWN
  MaxReopen,         \* bound: reopenings counted; the ban has stopped growing
  Window,            \* STABILITY_WINDOW
  RetryAfter,        \* bans a 429 may ask for
  MaxAttempts,       \* attempts per round
  Rounds,            \* silent_retry_rounds
  Hold               \* hold_on_failure

RECOVERY_SUCCESS_THRESHOLD == 2

\* circuit_open_seconds, doubled with each reopening.
Ban(n) == IF Cooldown * 2^n < MaxCooldown THEN Cooldown * 2^n ELSE MaxCooldown

ASSUME RoutingConstants ==
  /\ ProviderOf \in [Targets -> Providers]
  /\ SessionOf \in [Requests -> Sessions]
  /\ None \notin Targets \cup Requests
  /\ Replaceable \subseteq Targets
  /\ Limits \subseteq Nat /\ 0 \in Limits
  /\ IsFiniteSet(Targets) /\ IsFiniteSet(Requests)
  /\ {FailureThreshold, Cooldown, MaxCooldown, Window, MaxAttempts, Rounds} \subseteq Nat \ {0}
  /\ MaxReopen \in Nat /\ RetryAfter \subseteq Nat \ {0} /\ Hold \in BOOLEAN

ASSUME BanStopsGrowing == Ban(MaxReopen) = MaxCooldown

VARIABLES
  health,   \* TargetHealth, per target
  busy,     \* provider_activity: slots in use, per provider
  limit,    \* max_concurrent_requests, per provider
  aff,      \* session_affinity: the target each session is bound to
  req,      \* each request's progress, see RequestType
  foreign   \* history: sessions bound by an attempt on an account since replaced

vars == <<health, busy, limit, aff, req, foreign>>

-----------------------------------------------------------------------------
(* Target health *)

\* open: ticks until open_until, 0 when it has passed unnoticed, -1 for None.
\* age: ticks since last_failure_at, Window once outside it, -1 for None.
HealthType ==
  [fails : 0 .. FailureThreshold, succ : 0 .. RECOVERY_SUCCESS_THRESHOLD - 1,
   open : Int, age : -1 .. Window, recovering : BOOLEAN, reopen : 0 .. MaxReopen,
   probe : Requests \cup {None}]

Healthy == [fails |-> 0, succ |-> 0, open |-> -1, age |-> -1,
            recovering |-> FALSE, reopen |-> 0, probe |-> None]

Open(h) == h.open > 0

degraded(h) == h.recovering \/ h.fails > 0 \/ h.open >= 0

stability_rank(h) ==
  IF degraded(h) THEN 2 ELSE IF h.age \in 0 .. Window - 1 THEN 1 ELSE 0

\* circuit_open, on a ban that has passed: from now on one probe at a time.
Noticed(h) ==
  IF h.open = 0 THEN [h EXCEPT !.open = -1, !.succ = 0, !.recovering = TRUE] ELSE h

\* TargetHealth::fail
fail(h) ==
  LET n == IF stability_rank(h) = 0 THEN 0 ELSE h.reopen
      fails == IF h.fails < FailureThreshold THEN h.fails + 1 ELSE h.fails
      hit == [h EXCEPT !.age = 0, !.succ = 0, !.fails = fails, !.reopen = n]
  IN  IF ~Open(h) /\ (h.recovering \/ fails = FailureThreshold)
      THEN [hit EXCEPT !.open = Ban(n), !.recovering = TRUE,
                       !.reopen = IF n < MaxReopen THEN n + 1 ELSE n]
      ELSE hit

\* mark_rate_limited
RateLimited(h, ticks) ==
  [h EXCEPT !.age = 0, !.succ = 0, !.recovering = TRUE,
            !.open = IF h.open < ticks THEN ticks ELSE h.open]

\* Mutant: one success too many before the target has recovered.
succeed_OffByOne(h) ==
  LET g == Noticed(h) IN
  IF Open(g) \/ ~degraded(g) THEN g
  ELSE IF g.succ < RECOVERY_SUCCESS_THRESHOLD THEN [g EXCEPT !.succ = @ + 1]
  ELSE [g EXCEPT !.fails = 0, !.succ = 0, !.recovering = FALSE]

\* TargetHealth::succeed, for an attempt that did not start before the last
\* failure.
succeed(h) ==
  LET g == Noticed(h) IN
  IF Open(g) \/ ~degraded(g) THEN g
  ELSE IF g.succ + 1 < RECOVERY_SUCCESS_THRESHOLD THEN [g EXCEPT !.succ = @ + 1]
  ELSE [g EXCEPT !.fails = 0, !.succ = 0, !.recovering = FALSE]

-----------------------------------------------------------------------------
(* Requests *)

Phases ==
  {"idle", "choose", "try", "admit", "sent", "cut", "limited", "stream", "drain", "orphan"}

RequestType ==
  [phase : Phases,
   owner : Targets \cup {None},   \* history_owner
   todo : Seq(Targets),           \* targets left in this round
   tries : 0 .. MaxAttempts,      \* round_attempts
   round : 1 .. Rounds,
   submitted : BOOLEAN,           \* generation_submitted
   at : Targets \cup {None},      \* the target of the attempt under way
   before : BOOLEAN,              \* it failed since this attempt passed its gate
   stale : BOOLEAN,               \* it failed since attempt_started
   replaced : SUBSET Targets]     \* accounts replaced since the request came

NoRequest ==
  [phase |-> "idle", owner |-> None, todo |-> <<>>, tries |-> 0, round |-> 1,
   submitted |-> FALSE, at |-> None, before |-> FALSE, stale |-> FALSE,
   replaced |-> {}]

\* ProviderPermit: from admission until the response body is gone.
Holding(q) == req[q].phase \in {"sent", "cut", "limited", "stream", "drain"}

\* RecoveryPermit: from the gate on.
Gated(q) == Holding(q) \/ req[q].phase = "admit"

Holders(p) == {q \in Requests : Holding(q) /\ ProviderOf[req[q].at] = p}

TypeOK ==
  /\ health \in [Targets -> HealthType]
  /\ busy \in [Providers -> Nat]
  /\ limit \in [Providers -> Limits]
  /\ aff \in [Sessions -> Targets \cup {None}]
  /\ req \in [Requests -> RequestType]
  /\ foreign \subseteq Sessions

Init ==
  /\ health = [t \in Targets |-> Healthy]
  /\ busy = [p \in Providers |-> 0]
  /\ limit \in [Providers -> Limits]
  /\ aff = [s \in Sessions |-> None]
  /\ req = [q \in Requests |-> NoRequest]
  /\ foreign = {}

\* Bindings that remain, and what is known of them.
Bind(binding) ==
  /\ aff' = binding
  /\ foreign' = {s \in foreign : binding[s] # None}

\* clear_affinity_for_target
Unbound(t) == [s \in Sessions |-> IF aff[s] = t THEN None ELSE aff[s]]

\* Mutant: the probe is kept by a request that is gone.
Freed_Never(h, q) == h

\* RecoveryPermit::drop
Freed(h, q) == [h EXCEPT !.probe = IF @ = q THEN None ELSE @]

\* ProviderPermit::drop, on target t
Left(t) == [busy EXCEPT ![ProviderOf[t]] = IF @ > 0 THEN @ - 1 ELSE 0]

\* The requests once target t has failed: what started before is outdated.
Outdated(t) ==
  [q \in Requests |->
     IF req[q].at = t
     THEN [req[q] EXCEPT !.before = TRUE, !.stale = req[q].phase # "admit"]
     ELSE req[q]]

\* The request r goes on to its next target.
TryOn(r) == [r EXCEPT !.phase = "try", !.at = None, !.before = FALSE, !.stale = FALSE]

-----------------------------------------------------------------------------
(* Choosing and admitting *)

\* A request comes in.  One that carries provider-bound history can only go
\* where its session is bound; without a binding it is refused at once.
Arrive(q) ==
  /\ req[q].phase = "idle"
  /\ \E owner \in {None, aff[SessionOf[q]]} :
       req' = [req EXCEPT ![q] = [NoRequest EXCEPT !.phase = "choose", !.owner = owner]]
  /\ UNCHANGED <<health, busy, limit, aff, foreign>>

\* The orders in which a round may go through S: the session's target first,
\* then by stability; priority, weight and quota order the rest.
Orders(S, h, first) ==
  LET rank(t) == IF t = first THEN -1 ELSE stability_rank(h[t]) IN
  {o \in [1 .. Cardinality(S) -> S] :
     \A i, j \in DOMAIN o : i < j => o[i] # o[j] /\ rank(o[i]) <= rank(o[j])}

\* ordered_route_targets_for_model: neither banned nor being probed.  A
\* binding to any other target is dropped.  Bound history skips every target
\* but its owner.
Choose(q) ==
  LET h == [t \in Targets |-> Noticed(health[t])]
      usable == {t \in Targets : ~Open(h[t]) /\ h[t].probe = None}
      s == SessionOf[q]
      first == IF aff[s] \in usable THEN aff[s] ELSE None
      list == {t \in usable : req[q].owner \in {None, t}}
  IN  /\ req[q].phase = "choose"
      /\ health' = h
      /\ Bind([aff EXCEPT ![s] = first])
      /\ \E o \in Orders(list, h, first) :
           req' = [req EXCEPT ![q].phase = "try", ![q].todo = o, ![q].tries = 0]
      /\ UNCHANGED <<busy, limit>>

\* Mutant: a recovering target lets everybody through.
MayPass_Always(h) == ~Open(h)

\* RecoveryPermit::acquire lets an attempt through.
MayPass(h) == ~Open(h) /\ (h.recovering => h.probe = None)

\* Mutant: an ambiguous attempt does not stop the round.
Attempting_Unchecked(q) ==
  /\ req[q].phase = "try" /\ req[q].todo # <<>> /\ req[q].tries < MaxAttempts

Attempting(q) ==
  /\ req[q].phase = "try" /\ req[q].todo # <<>> /\ req[q].tries < MaxAttempts
  /\ ~req[q].submitted

\* The next target of the round, if its recovery gate is open.
TryNext(q) ==
  LET t == Head(req[q].todo)
      h == Noticed(health[t])
      rest == [req[q] EXCEPT !.todo = Tail(@)]
  IN  /\ Attempting(q)
      /\ IF MayPass(h)
         THEN /\ health' = [health EXCEPT ![t] =
                              IF h.recovering THEN [h EXCEPT !.probe = q] ELSE h]
              /\ req' = [req EXCEPT ![q] = [rest EXCEPT !.phase = "admit", !.at = t]]
         ELSE /\ health' = [health EXCEPT ![t] = h]
              /\ req' = [req EXCEPT ![q] = rest]
      /\ UNCHANGED <<busy, limit, aff, foreign>>

\* Mutant: the last slot is given out twice.
AtCapacity_OffByOne(p) == limit[p] # 0 /\ busy[p] > limit[p]

AtCapacity(p) == limit[p] # 0 /\ busy[p] >= limit[p]

\* ProviderPermit::acquire, and the request is sent; at the limit it moves on
\* and gives the recovery permit back.  If the configuration has changed
\* meanwhile, the answer is not waited for.
Admit(q) ==
  LET t == req[q].at
      p == ProviderOf[t]
  IN  /\ req[q].phase = "admit"
      /\ IF AtCapacity(p)
         THEN /\ health' = [health EXCEPT ![t] = Freed(@, q)]
              /\ req' = [req EXCEPT ![q] = TryOn(@)]
              /\ UNCHANGED busy
         ELSE /\ busy' = [busy EXCEPT ![p] = @ + 1]
              /\ req' = [req EXCEPT ![q].phase = IF req[q].replaced = {} THEN "sent" ELSE "cut",
                                    ![q].tries = @ + 1]
              /\ UNCHANGED health
      /\ UNCHANGED <<limit, aff, foreign>>

\* Nothing more is tried: an ambiguous attempt stops the request at the next
\* target or at the last round's end, a plain failure only there.
GivesUp(r) ==
  \/ r.submitted /\ r.todo # <<>> /\ r.tries < MaxAttempts
  \/ r.round = Rounds /\ (r.submitted \/ ~Hold)

\* Mutant: rounds are not counted.
RoundEnds_Uncounted(q) ==
  /\ req[q].phase = "try" /\ ~Attempting(q)
  /\ req' = [req EXCEPT ![q] = IF GivesUp(@) THEN NoRequest ELSE [@ EXCEPT !.phase = "choose"]]
  /\ UNCHANGED <<health, busy, limit, aff, foreign>>

\* The round is over: another one, a pause and another, or the answer that
\* all targets failed.
RoundEnds(q) ==
  /\ req[q].phase = "try" /\ ~Attempting(q)
  /\ req' = [req EXCEPT ![q] =
       IF GivesUp(req[q]) THEN NoRequest
       ELSE [req[q] EXCEPT !.phase = "choose", !.round = IF @ < Rounds THEN @ + 1 ELSE 1]]
  /\ UNCHANGED <<health, busy, limit, aff, foreign>>

\* The hold budget runs out before the next attempt.
HoldExpires(q) ==
  /\ Hold /\ req[q].phase \in {"choose", "try"}
  /\ req' = [req EXCEPT ![q] = NoRequest]
  /\ UNCHANGED <<health, busy, limit, aff, foreign>>

-----------------------------------------------------------------------------
(* Outcomes *)

\* mark_failure by q's attempt; r is what becomes of q.  free: its permits go.
mark_failure(q, r, free) ==
  LET t == req[q].at IN
  /\ health' = [health EXCEPT ![t] = IF free THEN Freed(fail(@), q) ELSE fail(@)]
  /\ Bind(Unbound(t))
  /\ req' = [Outdated(t) EXCEPT ![q] = r]
  /\ busy' = IF free THEN Left(t) ELSE busy

\* AttemptContext::fail and the statuses that count against the circuit.  An
\* answer that was lost, or a stream that broke off, may have been generated.
Fails(q) ==
  /\ req[q].phase = "sent"
  /\ \E submitted \in BOOLEAN :
       mark_failure(q, [TryOn(req[q]) EXCEPT !.submitted = submitted], TRUE)
  /\ UNCHANGED limit

\* Any other rejection only unbinds this session: clear_rejected_session.
Rejected(q) ==
  LET t == req[q].at
      s == SessionOf[q]
  IN  /\ req[q].phase = "sent"
      /\ health' = [health EXCEPT ![t] = Freed(@, q)]
      /\ busy' = Left(t)
      /\ Bind(IF aff[s] = t THEN [aff EXCEPT ![s] = None] ELSE aff)
      /\ req' = [req EXCEPT ![q] = TryOn(@)]
      /\ UNCHANGED limit

\* mark_rate_limited: a 429 bans the target at once ...
Throttled(q) ==
  LET t == req[q].at IN
  /\ req[q].phase = "sent"
  /\ \E ticks \in RetryAfter : health' = [health EXCEPT ![t] = RateLimited(@, ticks)]
  /\ req' = [Outdated(t) EXCEPT ![q].phase = "limited"]
  /\ UNCHANGED <<busy, limit, aff, foreign>>

\* ... and unbinds its sessions after the health lock is released.
Unbinds(q) ==
  LET t == req[q].at IN
  /\ req[q].phase = "limited"
  /\ health' = [health EXCEPT ![t] = Freed(@, q)]
  /\ busy' = Left(t)
  /\ Bind(Unbound(t))
  /\ req' = [req EXCEPT ![q] = TryOn(@)]
  /\ UNCHANGED limit

\* Mutant: the session is bound whatever the target's health.
MayBind_Always(h, stale) == TRUE

\* TargetHealth::succeed answers true.
MayBind(h, stale) == ~stale /\ ~Open(h)

\* complete_target_success; a session already bound keeps its target.
complete_target_success(q) ==
  LET t == req[q].at
      s == SessionOf[q]
      binds == MayBind(health[t], req[q].stale) /\ aff[s] = None
  IN  /\ health' = [health EXCEPT ![t] = IF req[q].stale THEN @ ELSE succeed(@)]
      /\ aff' = IF binds THEN [aff EXCEPT ![s] = t] ELSE aff
      /\ foreign' = IF binds /\ t \in req[q].replaced THEN foreign \cup {s} ELSE foreign

\* The whole response has been received, and is now passed on.
Completes(q) ==
  /\ req[q].phase = "sent"
  /\ complete_target_success(q)
  /\ req' = [req EXCEPT ![q].phase = "drain"]
  /\ UNCHANGED <<busy, limit>>

\* The first event of a stream reaches the client: no more failing over.
Commits(q) ==
  /\ req[q].phase = "sent"
  /\ req' = [req EXCEPT ![q].phase = "stream"]
  /\ UNCHANGED <<health, busy, limit, aff, foreign>>

\* track_usage_stream ends with success, with an error, or because the
\* configuration changed; the permits go with the body.
StreamSucceeds(q) ==
  /\ req[q].phase = "stream"
  /\ complete_target_success(q)
  /\ req' = [req EXCEPT ![q].phase = "drain"]
  /\ UNCHANGED <<busy, limit>>

StreamFails(q) ==
  /\ req[q].phase = "stream"
  /\ mark_failure(q, [Outdated(req[q].at)[q] EXCEPT !.phase = "drain"], FALSE)
  /\ UNCHANGED limit

StreamStopped(q) ==
  /\ req[q].phase = "stream" /\ req[q].replaced # {}
  /\ req' = [req EXCEPT ![q].phase = "drain"]
  /\ UNCHANGED <<health, busy, limit, aff, foreign>>

\* Mutant: a client that leaves in the middle of a stream keeps its slot.
Drained_KeepsSlot(q) ==
  LET t == req[q].at IN
  /\ req[q].phase \in {"drain", "stream"}
  /\ health' = [health EXCEPT ![t] = Freed(@, q)]
  /\ busy' = IF req[q].phase = "drain" THEN Left(t) ELSE busy
  /\ req' = [req EXCEPT ![q] = IF @.phase = "drain" THEN NoRequest
                               ELSE [@ EXCEPT !.phase = "orphan"]]
  /\ UNCHANGED <<limit, aff, foreign>>

\* The client has read the response, or left.  Leaving in the middle of a
\* stream frees the permits, and the tracking task is told.
Drained(q) ==
  LET t == req[q].at IN
  /\ req[q].phase \in {"drain", "stream"}
  /\ health' = [health EXCEPT ![t] = Freed(@, q)]
  /\ busy' = Left(t)
  /\ req' = [req EXCEPT ![q] = IF @.phase = "drain" THEN NoRequest
                               ELSE [@ EXCEPT !.phase = "orphan"]]
  /\ UNCHANGED <<limit, aff, foreign>>

\* The task notices, or first handles an event that had already come in.
OrphanEnds(q) ==
  /\ req[q].phase = "orphan"
  /\ \/ /\ req' = [req EXCEPT ![q] = NoRequest]
        /\ UNCHANGED <<health, busy, aff, foreign>>
     \/ /\ complete_target_success(q)
        /\ req' = [req EXCEPT ![q] = NoRequest]
        /\ UNCHANGED busy
     \/ mark_failure(q, NoRequest, FALSE)
  /\ UNCHANGED limit

\* The client leaves, the configuration has changed, or the request itself is
\* refused, before a response is committed: no effect on health.
Dropped(q) ==
  LET t == req[q].at IN
  /\ req[q].phase \in {"choose", "try", "sent", "cut"}
  /\ IF Holding(q)
     THEN health' = [health EXCEPT ![t] = Freed(@, q)] /\ busy' = Left(t)
     ELSE UNCHANGED <<health, busy>>
  /\ req' = [req EXCEPT ![q] = NoRequest]
  /\ UNCHANGED <<limit, aff, foreign>>

-----------------------------------------------------------------------------
(* The user, and time *)

\* update_config with another account at target t: its health and bindings
\* go, and the route's requests are told to stop; what they are doing at that
\* moment, up to the next wait, is done to its end.
ReplaceAccount(t) ==
  /\ health' = [health EXCEPT ![t] = Healthy]
  /\ Bind(Unbound(t))
  /\ req' = [q \in Requests |->
               IF req[q].phase = "idle" THEN req[q]
               ELSE [req[q] EXCEPT !.replaced = @ \cup {t},
                                   !.stale = @ /\ req[q].at # t]]
  /\ UNCHANGED <<busy, limit>>

\* update_config with another limit: nobody is interrupted.
SetLimit(p) ==
  /\ \E n \in Limits : limit' = [limit EXCEPT ![p] = n]
  /\ UNCHANGED <<health, busy, aff, req, foreign>>

\* A binding expires or is evicted.
Expire(s) ==
  /\ Bind([aff EXCEPT ![s] = None])
  /\ UNCHANGED <<health, busy, limit, req>>

Tick ==
  /\ health' = [t \in Targets |->
       [health[t] EXCEPT !.open = IF @ > 0 THEN @ - 1 ELSE @,
                         !.age = IF @ \in 0 .. Window - 1 THEN @ + 1 ELSE @]]
  /\ UNCHANGED <<busy, limit, aff, req, foreign>>

\* What the proxy and the upstream do for a request.
Serve(q) ==
  \/ Choose(q) \/ TryNext(q) \/ Admit(q) \/ RoundEnds(q)
  \/ Rejected(q) \/ Unbinds(q) \/ Completes(q) \/ Commits(q)
  \/ StreamSucceeds(q) \/ StreamStopped(q) \/ OrphanEnds(q)
  \/ (req[q].phase = "cut" /\ Dropped(q))

Next ==
  \/ \E q \in Requests :
       \/ Arrive(q) \/ Serve(q) \/ HoldExpires(q) \/ Fails(q) \/ Throttled(q)
       \/ StreamFails(q) \/ Drained(q) \/ Dropped(q)
  \/ \E t \in Replaceable : ReplaceAccount(t)
  \/ \E p \in Providers : SetLimit(p)
  \/ \E s \in Sessions : Expire(s)
  \/ Tick

Spec == Init /\ [][Next]_vars

\* Bans run out, clients keep sending requests and read what they get, and
\* the proxy and the upstream go on with every request.  The code puts no
\* limit on how long an upstream may generate: that it answers at all is an
\* assumption about it.
FairSpec ==
  /\ Spec /\ WF_vars(Tick)
  /\ \A q \in Requests : WF_vars(Arrive(q)) /\ WF_vars(Serve(q)) /\ WF_vars(Drained(q))

-----------------------------------------------------------------------------
(* Properties *)

\* After a ban one request at a time tries a recovering target: an attempt
\* that passed the gate since the target last failed is the probe; and the
\* probe is never left behind by a request that is gone, which would keep
\* the target out of use for ever.
ProbeExclusive ==
  \A t \in Targets :
    /\ health[t].recovering =>
         \A q \in Requests : Gated(q) /\ req[q].at = t /\ ~req[q].before
                               => health[t].probe = q
    /\ health[t].probe # None =>
         Gated(health[t].probe) /\ req[health[t].probe].at = t

\* Every slot counted is held by a request under way, and none is missing:
\* whichever way a request ends, its provider's occupancy is exact.
SlotsExact == \A p \in Providers : busy[p] = Cardinality(Holders(p))

\* A provider's limit holds for every admission, also for a limit lowered
\* while requests were running.
LimitHolds ==
  [][\A p \in Providers :
       Cardinality(Holders(p)') > Cardinality(Holders(p)) /\ limit[p] # 0
         => Cardinality(Holders(p)') <= limit[p]]_vars

\* A session is never bound to a banned target, except while the request that
\* was just throttled there is about to unbind it: a late success of an older
\* attempt must not restore what a failure has cleared.
BoundIsUsable ==
  \A s \in Sessions :
    aff[s] # None /\ Open(health[aff[s]]) =>
      \E q \in Requests : req[q].phase = "limited" /\ req[q].at = aff[s]

\* A request that may have been generated once is never sent again: after an
\* ambiguous attempt no other target, round or hold follows.
NeverReplayed ==
  [][\A q \in Requests :
       req[q].submitted =>
         \/ req'[q].phase = "idle"
         \/ req'[q].phase \in {"choose", "try"} /\ req'[q].submitted]_vars

\* A target that is or was banned is recovering.
BannedRecovers == \A t \in Targets : health[t].open >= 0 => health[t].recovering

\* An attempt under way has a target, is not the second of a request whose
\* first may have been generated, and is within the round's attempts.
AttemptsSound ==
  \A q \in Requests :
    /\ Gated(q) \/ req[q].phase = "orphan" => req[q].at # None
    /\ req[q].submitted => req[q].phase \in {"choose", "try"}
    /\ req[q].phase = "admit" => req[q].tries < MaxAttempts

\* The inductive invariant: everything above, and what it rests on.
RoutingInv ==
  /\ TypeOK /\ BannedRecovers /\ AttemptsSound
  /\ ProbeExclusive /\ SlotsExact /\ BoundIsUsable

\* Without a hold every request comes to an end: failing over, rounds and
\* recovery gates never keep it going round.
EveryRequestEnds == \A q \in Requests : req[q].phase # "idle" ~> req[q].phase = "idle"

\* What keeps a target from proving itself: failures and refusals upstream,
\* and requests abandoned while there was still a target to try.
Disturbed(q) ==
  \/ Fails(q) \/ Rejected(q) \/ Throttled(q) \/ StreamFails(q)
  \/ (req[q].phase = "stream" /\ Drained(q))
  \/ (req[q].phase = "try" => Attempting(q)) /\ Dropped(q)

\* Once the upstreams answer, no target stays banned or in recovery: some
\* request always gets through its gate, and two successes clear it.
Recovers ==
  <>[][\A q \in Requests : ~Disturbed(q)]_vars
    => \A t \in Targets : []<>~degraded(health[t])

-----------------------------------------------------------------------------
(* What a comment says, and the code does not do *)

\* model_routes.rs: "Opaque history can continue only on its recorded
\* account."  A binding never names a target for an answer that came from an
\* account the user has replaced since.
BindingsCurrent == foreign = {}
=============================================================================
