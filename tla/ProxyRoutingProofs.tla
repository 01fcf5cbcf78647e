------------------------- MODULE ProxyRoutingProofs -------------------------
(***************************************************************************)
(* Proofs about ProxyRouting, for every set of targets, providers,         *)
(* requests and sessions and every retry policy: the inductive invariant   *)
(* RoutingInv and the two action properties that follow from it.           *)
(***************************************************************************)
EXTENDS ProxyRouting, FiniteSetTheorems, TLAPS

-----------------------------------------------------------------------------
(* Target health *)

\* A banned target is recovering.
Sound(h) == h.open >= 0 => h.recovering

\* The length of a ban is a number of ticks.
LEMMA BanType == ASSUME NEW n \in Nat PROVE Ban(n) \in Int
<1>1. 2^n \in Int
  BY Z3
<1> QED
  BY <1>1, RoutingConstants DEF Ban

\* Fields may be set one by one.
LEMMA HealthWith ==
  ASSUME NEW h \in HealthType
  PROVE  /\ \A v \in 0 .. FailureThreshold : [h EXCEPT !.fails = v] \in HealthType
         /\ \A v \in {0, 1} : [h EXCEPT !.succ = v] \in HealthType
         /\ \A v \in Int : [h EXCEPT !.open = v] \in HealthType
         /\ \A v \in -1 .. Window : [h EXCEPT !.age = v] \in HealthType
         /\ \A v \in BOOLEAN : [h EXCEPT !.recovering = v] \in HealthType
         /\ \A v \in 0 .. MaxReopen : [h EXCEPT !.reopen = v] \in HealthType
         /\ \A v \in Requests \cup {None} : [h EXCEPT !.probe = v] \in HealthType
<1>1. \A v \in 0 .. FailureThreshold : [h EXCEPT !.fails = v] \in HealthType
  BY DEF HealthType
<1>2. \A v \in {0, 1} : [h EXCEPT !.succ = v] \in HealthType
  BY DEF HealthType, RECOVERY_SUCCESS_THRESHOLD
<1>3. \A v \in Int : [h EXCEPT !.open = v] \in HealthType
  BY DEF HealthType
<1>4. \A v \in -1 .. Window : [h EXCEPT !.age = v] \in HealthType
  BY DEF HealthType
<1>5. \A v \in BOOLEAN : [h EXCEPT !.recovering = v] \in HealthType
  BY DEF HealthType
<1>6. \A v \in 0 .. MaxReopen : [h EXCEPT !.reopen = v] \in HealthType
  BY DEF HealthType
<1>7. \A v \in Requests \cup {None} : [h EXCEPT !.probe = v] \in HealthType
  BY DEF HealthType
<1> QED
  BY <1>1, <1>2, <1>3, <1>4, <1>5, <1>6, <1>7

\* Noticing that a ban has passed changes nothing that others rely on.
LEMMA NoticedFacts ==
  ASSUME NEW h \in HealthType, Sound(h)
  PROVE  /\ Noticed(h) \in HealthType /\ Sound(Noticed(h))
         /\ Noticed(h).probe = h.probe
         /\ Noticed(h).recovering <=> h.recovering
         /\ Open(Noticed(h)) <=> Open(h)
<1>1. Noticed(h) \in HealthType
  <2> DEFINE a == [h EXCEPT !.open = -1]
             b == [a EXCEPT !.succ = 0]
             c == [b EXCEPT !.recovering = TRUE]
  <2>1. a \in HealthType
    BY DEF HealthType
  <2> HIDE DEF a
  <2>2. b \in HealthType
    BY <2>1, HealthWith
  <2> HIDE DEF b
  <2>3. c \in HealthType
    BY <2>2, HealthWith
  <2>4. Noticed(h) = IF h.open = 0 THEN c ELSE h
    BY DEF Noticed, a, b
  <2> QED
    BY <2>3, <2>4
<1>2. /\ Sound(Noticed(h))
      /\ Noticed(h).probe = h.probe
      /\ Noticed(h).recovering <=> h.recovering
      /\ Open(Noticed(h)) <=> Open(h)
  BY DEF Noticed, HealthType, Sound, Open
<1> QED
  BY <1>1, <1>2

\* A failure keeps the probe.
LEMMA FailFacts ==
  ASSUME NEW h \in HealthType, Sound(h)
  PROVE  /\ fail(h) \in HealthType /\ Sound(fail(h))
         /\ fail(h).probe = h.probe
<1> DEFINE n == IF stability_rank(h) = 0 THEN 0 ELSE h.reopen
           k == IF h.fails < FailureThreshold THEN h.fails + 1 ELSE h.fails
           m == IF n < MaxReopen THEN n + 1 ELSE n
           a == [h EXCEPT !.age = 0]
           b == [a EXCEPT !.succ = 0]
           c == [b EXCEPT !.fails = k]
           hit == [c EXCEPT !.reopen = n]
           d == [hit EXCEPT !.open = Ban(n)]
           e == [d EXCEPT !.recovering = TRUE]
           opened == [e EXCEPT !.reopen = m]
<1>1. n \in 0 .. MaxReopen /\ k \in 0 .. FailureThreshold /\ m \in 0 .. MaxReopen
  BY RoutingConstants DEF HealthType
<1>2. Ban(n) \in Int
  BY <1>1, BanType, RoutingConstants
<1>3. fail(h) = IF ~Open(h) /\ (h.recovering \/ k = FailureThreshold) THEN opened ELSE hit
  BY DEF fail
<1> HIDE DEF n, k, m
<1>4. a \in HealthType /\ a.open = h.open /\ (a.recovering <=> h.recovering) /\ a.probe = h.probe
  BY HealthWith, RoutingConstants DEF HealthType
<1> HIDE DEF a
<1>5. b \in HealthType /\ b.open = h.open /\ (b.recovering <=> h.recovering) /\ b.probe = h.probe
  BY <1>4, HealthWith DEF HealthType
<1> HIDE DEF b
<1>6. c \in HealthType /\ c.open = h.open /\ (c.recovering <=> h.recovering) /\ c.probe = h.probe
  BY <1>1, <1>5, HealthWith DEF HealthType
<1> HIDE DEF c
<1>7. hit \in HealthType /\ hit.open = h.open /\ (hit.recovering <=> h.recovering) /\ hit.probe = h.probe
  BY <1>1, <1>6, HealthWith DEF HealthType
<1> HIDE DEF hit
<1>8. d \in HealthType /\ d.probe = h.probe
  BY <1>2, <1>7, HealthWith DEF HealthType
<1> HIDE DEF d
<1>9. e \in HealthType /\ e.probe = h.probe /\ e.recovering
  BY <1>8, HealthWith DEF HealthType
<1> HIDE DEF e
<1>10. opened \in HealthType /\ opened.probe = h.probe /\ opened.recovering
  BY <1>1, <1>9, HealthWith DEF HealthType
<1> HIDE DEF opened
<1> QED
  BY <1>3, <1>7, <1>10 DEF Sound

\* A 429 keeps the probe and leaves the target recovering.
LEMMA RateLimitedFacts ==
  ASSUME NEW h \in HealthType, NEW ticks \in RetryAfter
  PROVE  /\ RateLimited(h, ticks) \in HealthType /\ Sound(RateLimited(h, ticks))
         /\ RateLimited(h, ticks).probe = h.probe
<1> DEFINE k == IF h.open < ticks THEN ticks ELSE h.open
           a == [h EXCEPT !.age = 0]
           b == [a EXCEPT !.succ = 0]
           c == [b EXCEPT !.recovering = TRUE]
           d == [c EXCEPT !.open = k]
<1>1. k \in Int
  BY RoutingConstants DEF HealthType
<1>2. RateLimited(h, ticks) = d
  BY DEF RateLimited
<1> HIDE DEF k
<1>3. a \in HealthType /\ a.probe = h.probe
  BY HealthWith, RoutingConstants DEF HealthType
<1> HIDE DEF a
<1>4. b \in HealthType /\ b.probe = h.probe
  BY <1>3, HealthWith DEF HealthType
<1> HIDE DEF b
<1>5. c \in HealthType /\ c.probe = h.probe /\ c.recovering
  BY <1>4, HealthWith DEF HealthType
<1> HIDE DEF c
<1>6. d \in HealthType /\ d.probe = h.probe /\ d.recovering
  BY <1>1, <1>5, HealthWith DEF HealthType
<1> QED
  BY <1>2, <1>6 DEF Sound

\* A success keeps the probe, opens no circuit and starts no recovery.
LEMMA SucceedFacts ==
  ASSUME NEW h \in HealthType, Sound(h)
  PROVE  /\ succeed(h) \in HealthType /\ Sound(succeed(h))
         /\ succeed(h).probe = h.probe
         /\ succeed(h).recovering => h.recovering
         /\ Open(succeed(h)) => Open(h)
<1> DEFINE g == Noticed(h)
           a == [g EXCEPT !.fails = 0]
           b == [a EXCEPT !.succ = 0]
           c == [b EXCEPT !.recovering = FALSE]
           d == [g EXCEPT !.succ = g.succ + 1]
<1>1. /\ g \in HealthType /\ Sound(g) /\ g.probe = h.probe
      /\ (g.recovering <=> h.recovering) /\ (Open(g) <=> Open(h))
  BY NoticedFacts
<1>2. g.open # 0
  BY DEF Noticed, HealthType
<1>3. succeed(h) = IF Open(g) \/ ~degraded(g) THEN g ELSE IF g.succ + 1 < 2 THEN d ELSE c
  BY DEF succeed, RECOVERY_SUCCESS_THRESHOLD
<1> HIDE DEF g
<1>4. a \in HealthType /\ a.open = g.open /\ a.probe = h.probe
  BY <1>1, HealthWith, RoutingConstants DEF HealthType
<1> HIDE DEF a
<1>5. b \in HealthType /\ b.open = g.open /\ b.probe = h.probe
  BY <1>4, HealthWith DEF HealthType
<1> HIDE DEF b
<1>6. c \in HealthType /\ c.open = g.open /\ c.probe = h.probe /\ ~c.recovering
  BY <1>5, HealthWith DEF HealthType
<1> HIDE DEF c
<1>7. g.succ + 1 < 2 => /\ d \in HealthType /\ d.open = g.open /\ d.probe = h.probe
                        /\ d.recovering <=> g.recovering
  <2>1. g.succ + 1 < 2 => g.succ + 1 \in {0, 1}
    BY <1>1 DEF HealthType, RECOVERY_SUCCESS_THRESHOLD
  <2> QED
    BY <1>1, <2>1, HealthWith DEF HealthType
<1> HIDE DEF d
<1> QED
  BY <1>1, <1>2, <1>3, <1>6, <1>7 DEF Sound, Open, HealthType

\* Giving a permit back touches the probe only, and only one's own.
LEMMA FreedFacts ==
  ASSUME NEW h \in HealthType, NEW q \in Requests
  PROVE  /\ Freed(h, q) \in HealthType
         /\ Sound(h) => Sound(Freed(h, q))
         /\ Freed(h, q).recovering <=> h.recovering
         /\ Open(Freed(h, q)) <=> Open(h)
         /\ Freed(h, q).probe = IF h.probe = q THEN None ELSE h.probe
  BY DEF Freed, HealthType, Sound, Open

-----------------------------------------------------------------------------
(* Requests *)

\* Fields may be set one by one.
LEMMA RequestWith ==
  ASSUME NEW r \in RequestType
  PROVE  /\ \A v \in Phases : [r EXCEPT !.phase = v] \in RequestType
         /\ \A v \in Targets \cup {None} : [r EXCEPT !.owner = v] \in RequestType
         /\ \A v \in Seq(Targets) : [r EXCEPT !.todo = v] \in RequestType
         /\ \A v \in 0 .. MaxAttempts : [r EXCEPT !.tries = v] \in RequestType
         /\ \A v \in 1 .. Rounds : [r EXCEPT !.round = v] \in RequestType
         /\ \A v \in BOOLEAN : [r EXCEPT !.submitted = v] \in RequestType
         /\ \A v \in Targets \cup {None} : [r EXCEPT !.at = v] \in RequestType
         /\ \A v \in BOOLEAN : [r EXCEPT !.before = v] \in RequestType
         /\ \A v \in BOOLEAN : [r EXCEPT !.stale = v] \in RequestType
         /\ \A v \in SUBSET Targets : [r EXCEPT !.replaced = v] \in RequestType
<1>1. \A v \in Phases : [r EXCEPT !.phase = v] \in RequestType
  BY DEF RequestType
<1>2. \A v \in Targets \cup {None} : [r EXCEPT !.owner = v] \in RequestType
  BY DEF RequestType
<1>3. \A v \in Seq(Targets) : [r EXCEPT !.todo = v] \in RequestType
  BY DEF RequestType
<1>4. \A v \in 0 .. MaxAttempts : [r EXCEPT !.tries = v] \in RequestType
  BY DEF RequestType
<1>5. \A v \in 1 .. Rounds : [r EXCEPT !.round = v] \in RequestType
  BY DEF RequestType
<1>6. \A v \in BOOLEAN : [r EXCEPT !.submitted = v] \in RequestType
  BY DEF RequestType
<1>7. \A v \in Targets \cup {None} : [r EXCEPT !.at = v] \in RequestType
  BY DEF RequestType
<1>8. \A v \in BOOLEAN : [r EXCEPT !.before = v] \in RequestType
  BY DEF RequestType
<1>9. \A v \in BOOLEAN : [r EXCEPT !.stale = v] \in RequestType
  BY DEF RequestType
<1>10. \A v \in SUBSET Targets : [r EXCEPT !.replaced = v] \in RequestType
  BY DEF RequestType
<1> QED
  BY <1>1, <1>2, <1>3, <1>4, <1>5, <1>6, <1>7, <1>8, <1>9, <1>10

\* An idle slot is a request.
LEMMA NoRequestType == NoRequest \in RequestType
<1>1. <<>> \in Seq(Targets)
  OBVIOUS
<1> QED
  BY <1>1, RoutingConstants DEF NoRequest, RequestType, Phases

\* A request that goes on to its next target has left the one before.
LEMMA TryOnFacts ==
  ASSUME NEW r \in RequestType
  PROVE  /\ TryOn(r) \in RequestType
         /\ TryOn(r).phase = "try" /\ TryOn(r).at = None
         /\ TryOn(r).submitted <=> r.submitted
<1> DEFINE a == [r EXCEPT !.phase = "try"]
           b == [a EXCEPT !.at = None]
           c == [b EXCEPT !.before = FALSE]
           d == [c EXCEPT !.stale = FALSE]
<1>1. TryOn(r) = d
  BY DEF TryOn
<1>2. a \in RequestType
  BY RequestWith DEF Phases
<1> HIDE DEF a
<1>3. b \in RequestType
  BY <1>2, RequestWith
<1> HIDE DEF b
<1>4. c \in RequestType
  BY <1>3, RequestWith
<1> HIDE DEF c
<1>5. d \in RequestType
  BY <1>4, RequestWith
<1>6. /\ TryOn(r).phase = "try" /\ TryOn(r).at = None
      /\ TryOn(r).submitted <=> r.submitted
  BY DEF TryOn, RequestType
<1> QED
  BY <1>1, <1>5, <1>6

\* A failure of t outdates the attempts under way on t and nothing else.
LEMMA OutdatedFacts ==
  ASSUME TypeOK, NEW t \in Targets
  PROVE  /\ Outdated(t) \in [Requests -> RequestType]
         /\ \A x \in Requests :
              /\ Outdated(t)[x].phase = req[x].phase
              /\ Outdated(t)[x].at = req[x].at /\ Outdated(t)[x].tries = req[x].tries
              /\ Outdated(t)[x].submitted <=> req[x].submitted
              /\ Outdated(t)[x].before <=> (req[x].before \/ req[x].at = t)
<1> SUFFICES ASSUME NEW x \in Requests
             PROVE  /\ Outdated(t)[x] \in RequestType
                    /\ Outdated(t)[x].phase = req[x].phase
                    /\ Outdated(t)[x].at = req[x].at /\ Outdated(t)[x].tries = req[x].tries
                    /\ Outdated(t)[x].submitted <=> req[x].submitted
                    /\ Outdated(t)[x].before <=> (req[x].before \/ req[x].at = t)
  BY DEF Outdated
<1> DEFINE a == [req[x] EXCEPT !.before = TRUE]
           v == req[x].phase # "admit"
           b == [a EXCEPT !.stale = v]
<1>1. req[x] \in RequestType
  BY DEF TypeOK
<1>2. v \in BOOLEAN
  OBVIOUS
<1>0. Outdated(t)[x] = IF req[x].at = t THEN b ELSE req[x]
  BY DEF Outdated
<1> HIDE DEF v
<1>3. /\ a \in RequestType /\ a.phase = req[x].phase /\ a.at = req[x].at /\ a.tries = req[x].tries
      /\ (a.submitted <=> req[x].submitted) /\ a.before
  <2>1. a \in RequestType
    BY <1>1, RequestWith
  <2> QED
    BY <1>1, <2>1 DEF RequestType
<1> HIDE DEF a
<1>4. /\ b \in RequestType /\ b.phase = req[x].phase /\ b.at = req[x].at /\ b.tries = req[x].tries
      /\ (b.submitted <=> req[x].submitted) /\ b.before
  BY <1>2, <1>3, RequestWith DEF RequestType
<1> HIDE DEF b
<1> QED
  BY <1>0, <1>1, <1>4

-----------------------------------------------------------------------------
(* What a step may do to each part of the invariant *)

\* The slots stay exact when nobody takes or leaves one,
LEMMA SlotsSame ==
  ASSUME SlotsExact, busy' = busy,
         \A x \in Requests : /\ Holding(x)' <=> Holding(x)
                             /\ Holding(x) => req'[x].at = req[x].at
  PROVE  SlotsExact'
<1>1. \A p \in Providers : Holders(p)' = Holders(p)
  BY DEF Holders
<1> QED
  BY <1>1 DEF SlotsExact

\* when a request leaves one it holds,
LEMMA SlotsLeft ==
  ASSUME TypeOK, SlotsExact, AttemptsSound, NEW q \in Requests, Holding(q), ~Holding(q)',
         busy' = Left(req[q].at),
         \A x \in Requests \ {q} : /\ Holding(x)' <=> Holding(x)
                                   /\ Holding(x) => req'[x].at = req[x].at
  PROVE  SlotsExact'
<1>1. busy \in [Providers -> Nat]
  BY DEF TypeOK
<1>0. PICK p \in Providers : p = ProviderOf[req[q].at]
  BY RoutingConstants DEF TypeOK, AttemptsSound, Gated, RequestType
<1>2. /\ Holders(p)' = Holders(p) \ {q} /\ q \in Holders(p)
      /\ \A o \in Providers \ {p} : Holders(o)' = Holders(o)
  BY <1>0 DEF Holders
<1>3. IsFiniteSet(Holders(p))
  BY FS_Subset, RoutingConstants DEF Holders
<1>4. Cardinality(Holders(p)') = Cardinality(Holders(p)) - 1
  BY <1>2, <1>3, FS_RemoveElement
<1>5. busy[p] = Cardinality(Holders(p)) /\ Cardinality(Holders(p)) \in Nat
  BY <1>1, <1>3, FS_CardinalityType DEF SlotsExact
<1>6. Cardinality(Holders(p)) # 0
  BY <1>2, <1>3, FS_EmptySet
<1>8. busy[p] > 0
  BY <1>5, <1>6
<1>7. busy' = [busy EXCEPT ![p] = busy[p] - 1]
  BY <1>0, <1>1, <1>8 DEF Left
<1> QED
  BY <1>1, <1>2, <1>4, <1>5, <1>7 DEF SlotsExact

\* and when one takes a slot and is counted.
LEMMA SlotsTaken ==
  ASSUME TypeOK, SlotsExact, NEW q \in Requests, ~Holding(q), Holding(q)',
         NEW t \in Targets, req'[q].at = t,
         busy' = [busy EXCEPT ![ProviderOf[t]] = @ + 1],
         \A x \in Requests \ {q} : /\ Holding(x)' <=> Holding(x)
                                   /\ Holding(x) => req'[x].at = req[x].at
  PROVE  SlotsExact'
<1> DEFINE p == ProviderOf[t]
<1>1. p \in Providers /\ busy \in [Providers -> Nat]
  BY RoutingConstants DEF TypeOK
<1>2. /\ Holders(p)' = Holders(p) \cup {q} /\ q \notin Holders(p)
      /\ \A o \in Providers \ {p} : Holders(o)' = Holders(o)
  BY DEF Holders
<1>3. IsFiniteSet(Holders(p))
  BY FS_Subset, RoutingConstants DEF Holders
<1>4. Cardinality(Holders(p)') = Cardinality(Holders(p)) + 1
  BY <1>2, <1>3, FS_AddElement
<1>5. busy' = [busy EXCEPT ![p] = busy[p] + 1]
  BY <1>1
<1> HIDE DEF p
<1> QED
  BY <1>1, <1>2, <1>4, <1>5 DEF SlotsExact

\* The probe stays exclusive when nobody new passes a gate: a target starts
\* recovering only as its attempts are outdated, and its probe is dropped
\* only by the request that leaves with it.
LEMMA ProbeKept ==
  ASSUME TypeOK, TypeOK', ProbeExclusive,
         \A x \in Requests :
           /\ Gated(x)' => Gated(x) /\ req'[x].at = req[x].at
           /\ req[x].before /\ Gated(x)' => req'[x].before,
         \A t \in Targets :
           /\ health'[t].recovering =>
                health[t].recovering \/ \A x \in Requests : req[x].at = t /\ Gated(x)' => req'[x].before
           /\ \A x \in Requests :
                /\ health'[t].probe = x => health[t].probe = x /\ Gated(x)'
                /\ health'[t].recovering /\ health[t].probe = x /\ Gated(x)' => health'[t].probe = x
  PROVE  ProbeExclusive'
<1>1. ASSUME NEW t \in Targets, health'[t].recovering, NEW q \in Requests,
             Gated(q)', req'[q].at = t, ~req'[q].before
      PROVE  health'[t].probe = q
  BY <1>1 DEF ProbeExclusive
<1>2. ASSUME NEW t \in Targets, NEW x \in Requests, health'[t].probe = x
      PROVE  Gated(x)' /\ req'[x].at = t
  <2>1. health[t].probe = x /\ Gated(x)' /\ req'[x].at = req[x].at
    BY <1>2
  <2>2. req[x].at = t
    BY <2>1, RoutingConstants DEF ProbeExclusive
  <2> QED
    BY <2>1, <2>2
<1>3. \A t \in Targets : health'[t].probe # None => health'[t].probe \in Requests
  BY DEF TypeOK, HealthType
<1> QED
  BY <1>1, <1>2, <1>3 DEF ProbeExclusive, Gated, Holding

\* A binding is fine that was there before, on a target that is not banned
\* now, or was so before with its throttled request still to unbind it.
LEMMA BoundKept ==
  ASSUME TypeOK, TypeOK', BoundIsUsable,
         \A s \in Sessions : aff'[s] # None /\ Open(health[aff[s]])' =>
           \/ \E x \in Requests : req'[x].phase = "limited" /\ req'[x].at = aff'[s]
           \/ /\ aff'[s] = aff[s] /\ Open(health[aff[s]])
              /\ \A x \in Requests : req[x].phase = "limited" /\ req[x].at = aff[s] =>
                   req'[x].phase = "limited" /\ req'[x].at = aff[s]
  PROVE  BoundIsUsable'
  BY DEF BoundIsUsable, Open

-----------------------------------------------------------------------------
(* Every step preserves the invariant *)

\* A step that moves requests without touching permits or shared state.
LEMMA QuietStep ==
  ASSUME RoutingInv, UNCHANGED <<health, busy, limit, aff, foreign>>,
         req' \in [Requests -> RequestType], AttemptsSound',
         \A x \in Requests :
           /\ Gated(x)' <=> Gated(x)
           /\ Holding(x)' <=> Holding(x)
           /\ Gated(x) => req'[x].at = req[x].at /\ (req[x].before => req'[x].before)
           /\ req[x].phase = "limited" => req'[x].phase = "limited" /\ req'[x].at = req[x].at
  PROVE  RoutingInv'
<1>1. TypeOK'
  BY DEF RoutingInv, TypeOK
<1>2. BannedRecovers'
  BY DEF RoutingInv, BannedRecovers
<1>3. \A x \in Requests : Holding(x) => Gated(x)
  BY DEF Gated
<1>4. SlotsExact'
  BY <1>3, SlotsSame DEF RoutingInv
<1>5. \A t \in Targets : \A x \in Requests : health[t].probe = x => Gated(x)
  BY RoutingConstants DEF RoutingInv, ProbeExclusive
<1>6. ProbeExclusive'
  BY <1>1, <1>5, ProbeKept DEF RoutingInv
<1>7. BoundIsUsable'
  BY <1>1, BoundKept DEF RoutingInv, Open
<1> QED
  BY <1>1, <1>2, <1>4, <1>6, <1>7 DEF RoutingInv

\* The same, for one request that is not let through or out.
LEMMA QuietMove ==
  ASSUME RoutingInv, UNCHANGED <<health, busy, limit, aff, foreign>>,
         NEW q \in Requests, NEW r \in RequestType, req' = [req EXCEPT ![q] = r],
         r.phase # "limited", r.phase # "orphan", req[q].phase # "limited",
         r.submitted => r.phase \in {"choose", "try"},
         \/ r.phase \in {"idle", "choose", "try"} /\ req[q].phase \in {"idle", "choose", "try", "orphan"}
         \/ /\ r.phase \in {"sent", "cut", "stream", "drain"}
            /\ req[q].phase \in {"sent", "cut", "stream", "drain"}
            /\ r.at = req[q].at /\ (req[q].before => r.before)
  PROVE  RoutingInv'
<1>1. req \in [Requests -> RequestType] /\ req' \in [Requests -> RequestType]
  BY DEF RoutingInv, TypeOK
<1>2. req'[q] = r /\ \A x \in Requests \ {q} : req'[x] = req[x]
  BY <1>1
<1>3. AttemptsSound'
  BY <1>2 DEF RoutingInv, AttemptsSound, Gated, Holding
<1>4. ASSUME NEW x \in Requests
      PROVE  /\ Gated(x)' <=> Gated(x)
             /\ Holding(x)' <=> Holding(x)
             /\ Gated(x) => req'[x].at = req[x].at /\ (req[x].before => req'[x].before)
             /\ req[x].phase = "limited" => req'[x].phase = "limited" /\ req'[x].at = req[x].at
  BY <1>2 DEF Gated, Holding
<1> QED
  BY <1>1, <1>3, <1>4, QuietStep

\* A request that arrives holds nothing.
LEMMA ArriveInv == ASSUME RoutingInv, NEW q \in Requests, Arrive(q) PROVE RoutingInv'
<1>1. PICK owner \in {None, aff[SessionOf[q]]} :
        req' = [req EXCEPT ![q] = [NoRequest EXCEPT !.phase = "choose", !.owner = owner]]
  BY DEF Arrive
<1>2. owner \in Targets \cup {None}
  BY RoutingConstants DEF RoutingInv, TypeOK
<1> DEFINE a == [NoRequest EXCEPT !.phase = "choose"]
           r == [a EXCEPT !.owner = owner]
<1>3. req' = [req EXCEPT ![q] = r] /\ r.phase = "choose"
  BY <1>1 DEF NoRequest
<1>4. a \in RequestType
  BY NoRequestType, RequestWith DEF Phases
<1> HIDE DEF a
<1>5. r \in RequestType
  BY <1>2, <1>4, RequestWith
<1> HIDE DEF r
<1> QED
  BY <1>3, <1>5, QuietMove DEF Arrive

\* Going to the next round, or giving up, holds nothing.
LEMMA RoundEndsInv == ASSUME RoutingInv, NEW q \in Requests, RoundEnds(q) PROVE RoutingInv'
<1> DEFINE n == IF req[q].round < Rounds THEN req[q].round + 1 ELSE 1
           a == [req[q] EXCEPT !.phase = "choose"]
           b == [a EXCEPT !.round = n]
           r == IF GivesUp(req[q]) THEN NoRequest ELSE b
<1>1. req[q] \in RequestType
  BY DEF RoutingInv, TypeOK
<1>2. n \in 1 .. Rounds
  BY <1>1, RoutingConstants DEF RequestType
<1>3. req' = [req EXCEPT ![q] = r]
  BY DEF RoundEnds
<1> HIDE DEF n
<1>4. a \in RequestType
  BY <1>1, RequestWith DEF Phases
<1>5. a.phase = "choose"
  BY <1>1 DEF RequestType
<1> HIDE DEF a
<1>6. b \in RequestType
  BY <1>2, <1>4, RequestWith
<1>7. b.phase = "choose"
  BY <1>4, <1>5 DEF RequestType
<1> HIDE DEF b
<1>8. r \in RequestType /\ r.phase \in {"idle", "choose"} /\ (r.submitted => r.phase = "choose")
  BY <1>6, <1>7, NoRequestType DEF NoRequest
<1> HIDE DEF r
<1> QED
  BY <1>3, <1>8, QuietMove DEF RoundEnds

\* A hold that runs out ends a request that holds nothing.
LEMMA HoldExpiresInv == ASSUME RoutingInv, NEW q \in Requests, HoldExpires(q) PROVE RoutingInv'
<1>1. NoRequest \in RequestType /\ NoRequest.phase = "idle" /\ ~NoRequest.submitted
  BY NoRequestType DEF NoRequest
<1> QED
  BY <1>1, QuietMove DEF HoldExpires

\* Committing keeps the permits.
LEMMA CommitsInv == ASSUME RoutingInv, NEW q \in Requests, Commits(q) PROVE RoutingInv'
<1> DEFINE r == [req[q] EXCEPT !.phase = "stream"]
<1>1. req[q] \in RequestType /\ ~req[q].submitted
  BY DEF RoutingInv, TypeOK, AttemptsSound, Commits
<1>2. r \in RequestType
  BY <1>1, RequestWith DEF Phases
<1>3. r.phase = "stream" /\ r.at = req[q].at /\ (r.before <=> req[q].before) /\ ~r.submitted
  BY <1>1 DEF RequestType
<1>4. req' = [req EXCEPT ![q] = r]
  BY DEF Commits
<1> HIDE DEF r
<1> QED
  BY <1>2, <1>3, <1>4, QuietMove DEF Commits

\* A stream stopped by the configuration keeps its permits until its body goes.
LEMMA StreamStoppedInv ==
  ASSUME RoutingInv, NEW q \in Requests, StreamStopped(q) PROVE RoutingInv'
<1> DEFINE r == [req[q] EXCEPT !.phase = "drain"]
<1>1. req[q] \in RequestType /\ ~req[q].submitted
  BY DEF RoutingInv, TypeOK, AttemptsSound, StreamStopped
<1>2. r \in RequestType
  BY <1>1, RequestWith DEF Phases
<1>3. r.phase = "drain" /\ r.at = req[q].at /\ (r.before <=> req[q].before) /\ ~r.submitted
  BY <1>1 DEF RequestType
<1>4. req' = [req EXCEPT ![q] = r]
  BY DEF StreamStopped
<1> HIDE DEF r
<1> QED
  BY <1>2, <1>3, <1>4, QuietMove DEF StreamStopped

\* What others see of a step of q: their attempts go on, at most outdated.
OthersGoOn(q) ==
  \A x \in Requests \ {q} :
    /\ req'[x].phase = req[x].phase /\ req'[x].at = req[x].at /\ req'[x].tries = req[x].tries
    /\ req'[x].submitted <=> req[x].submitted
    /\ req[x].before => req'[x].before

\* A step in which q leaves its attempt on t and gives its permits back; h is
\* what the outcome makes of the target's health.
LEMMA LeaveStep ==
  ASSUME RoutingInv, NEW q \in Requests, Holding(q), NEW t \in Targets, req[q].at = t,
         NEW h \in HealthType, Sound(h), h.probe = health[t].probe,
         health' = [health EXCEPT ![t] = Freed(h, q)],
         busy' = Left(t), limit' = limit, foreign' \subseteq Sessions,
         req' \in [Requests -> RequestType], OthersGoOn(q),
         req'[q].phase \in {"idle", "try", "orphan"},
         req'[q].phase = "orphan" => req'[q].at # None,
         req'[q].submitted => req'[q].phase = "try",
         h.recovering => \/ health[t].recovering
                         \/ \A x \in Requests \ {q} : req[x].at = t => req'[x].before,
         aff' \in [Sessions -> Targets \cup {None}],
         \A s \in Sessions : aff'[s] \in {aff[s], None},
         \A s \in Sessions : aff'[s] = t => req[q].phase # "limited" /\ (Open(h) => Open(health[t]))
  PROVE  RoutingInv'
<1>1. /\ Freed(h, q) \in HealthType /\ Sound(Freed(h, q))
      /\ Freed(h, q).recovering <=> h.recovering
      /\ Open(Freed(h, q)) <=> Open(h)
      /\ Freed(h, q).probe = IF health[t].probe = q THEN None ELSE health[t].probe
  BY FreedFacts
<1>2. /\ health \in [Targets -> HealthType] /\ health' \in [Targets -> HealthType]
      /\ health'[t] = Freed(h, q) /\ \A u \in Targets \ {t} : health'[u] = health[u]
  BY <1>1 DEF RoutingInv, TypeOK
<1>3. TypeOK'
  <2>1. busy \in [Providers -> Nat] /\ ProviderOf[t] \in Providers
    BY RoutingConstants DEF RoutingInv, TypeOK
  <2>2. busy' = [busy EXCEPT ![ProviderOf[t]] =
                   IF busy[ProviderOf[t]] > 0 THEN busy[ProviderOf[t]] - 1 ELSE 0]
    BY DEF Left
  <2>3. (IF busy[ProviderOf[t]] > 0 THEN busy[ProviderOf[t]] - 1 ELSE 0) \in Nat
    BY <2>1
  <2>4. busy' \in [Providers -> Nat]
    BY <2>1, <2>2, <2>3
  <2> QED
    BY <1>2, <2>4 DEF RoutingInv, TypeOK
<1>4. BannedRecovers'
  BY <1>1, <1>2 DEF RoutingInv, BannedRecovers, Sound
<1>5. AttemptsSound'
  BY DEF RoutingInv, AttemptsSound, OthersGoOn, Gated, Holding
<1>6. /\ ~Holding(q)' /\ ~Gated(q)'
      /\ \A x \in Requests \ {q} : (Holding(x)' <=> Holding(x)) /\ (Gated(x)' <=> Gated(x))
  BY DEF OthersGoOn, Holding, Gated
<1>7. SlotsExact'
  BY <1>6, SlotsLeft DEF RoutingInv, OthersGoOn
<1>8. ProbeExclusive'
  <2>1. \A x \in Requests : /\ Gated(x)' => Gated(x) /\ req'[x].at = req[x].at
                            /\ req[x].before /\ Gated(x)' => req'[x].before
    BY <1>6 DEF OthersGoOn
  <2>2. ASSUME NEW u \in Targets
        PROVE  /\ health'[u].recovering => \/ health[u].recovering
                    \/ \A x \in Requests : req[x].at = u /\ Gated(x)' => req'[x].before
               /\ \A x \in Requests :
                    /\ health'[u].probe = x => health[u].probe = x /\ Gated(x)'
                    /\ health'[u].recovering /\ health[u].probe = x /\ Gated(x)' => health'[u].probe = x
    <3>1. \A x \in Requests : health[u].probe = x => Gated(x) /\ req[x].at = u
      BY RoutingConstants DEF RoutingInv, ProbeExclusive
    <3>2. CASE u = t
      BY <1>1, <1>2, <1>6, <3>1, <3>2, RoutingConstants
    <3>3. CASE u # t
      BY <1>2, <1>6, <3>1, <3>3
    <3> QED
      BY <3>2, <3>3
  <2> QED
    BY <1>3, <2>1, <2>2, ProbeKept DEF RoutingInv
<1>9. BoundIsUsable'
  <2>1. ASSUME NEW s \in Sessions, aff'[s] # None, Open(health[aff[s]])'
        PROVE  /\ aff'[s] = aff[s] /\ Open(health[aff[s]])
               /\ \A x \in Requests : req[x].phase = "limited" /\ req[x].at = aff[s] =>
                    req'[x].phase = "limited" /\ req'[x].at = aff[s]
    <3>1. aff'[s] = aff[s] /\ aff[s] \in Targets
      BY <2>1 DEF RoutingInv, TypeOK
    <3>2. CASE aff[s] = t
      BY <1>1, <1>2, <2>1, <3>1, <3>2 DEF OthersGoOn, Open
    <3>3. CASE aff[s] # t
      BY <1>2, <2>1, <3>1, <3>3 DEF OthersGoOn, Open
    <3> QED
      BY <3>1, <3>2, <3>3
  <2> QED
    BY <1>3, <2>1, BoundKept DEF RoutingInv
<1> QED
  BY <1>3, <1>4, <1>5, <1>7, <1>8, <1>9 DEF RoutingInv

\* An attempt under way has a target with its health.
LEMMA AttemptTarget ==
  ASSUME RoutingInv, NEW q \in Requests, Gated(q) \/ req[q].phase = "orphan"
  PROVE  /\ req[q] \in RequestType /\ req[q].at \in Targets /\ ~req[q].submitted
         /\ health[req[q].at] \in HealthType /\ Sound(health[req[q].at])
<1>1. req[q] \in RequestType /\ req[q].at \in Targets /\ ~req[q].submitted
  BY DEF RoutingInv, TypeOK, AttemptsSound, RequestType, Gated, Holding
<1> QED
  BY <1>1 DEF RoutingInv, TypeOK, BannedRecovers, Sound

\* Bindings dropped by a step stay well-formed.
LEMMA BindFacts ==
  ASSUME TypeOK, NEW b \in [Sessions -> Targets \cup {None}], Bind(b)
  PROVE  aff' = b /\ foreign' \subseteq Sessions
  BY DEF TypeOK, Bind

\* clear_affinity_for_target leaves no binding to t.
LEMMA UnboundFacts ==
  ASSUME TypeOK, NEW t \in Targets
  PROVE  /\ Unbound(t) \in [Sessions -> Targets \cup {None}]
         /\ \A s \in Sessions : Unbound(t)[s] \in {aff[s], None} /\ Unbound(t)[s] # t
  BY RoutingConstants DEF TypeOK, Unbound

\* What a failure of t by q's attempt does to requests and bindings.
LEMMA MarkFacts ==
  ASSUME TypeOK, NEW q \in Requests, NEW t \in Targets, NEW r \in RequestType,
         req' = [Outdated(t) EXCEPT ![q] = r], Bind(Unbound(t))
  PROVE  /\ req' \in [Requests -> RequestType] /\ req'[q] = r /\ OthersGoOn(q)
         /\ \A x \in Requests \ {q} : req[x].at = t => req'[x].before
         /\ foreign' \subseteq Sessions /\ aff' \in [Sessions -> Targets \cup {None}]
         /\ \A s \in Sessions : aff'[s] \in {aff[s], None} /\ aff'[s] # t
<1>1. PICK o \in [Requests -> RequestType] :
        /\ o = Outdated(t)
        /\ \A x \in Requests :
             /\ o[x].phase = req[x].phase /\ o[x].at = req[x].at /\ o[x].tries = req[x].tries
             /\ o[x].submitted <=> req[x].submitted
             /\ o[x].before <=> (req[x].before \/ req[x].at = t)
  BY OutdatedFacts
<1>2. /\ req' \in [Requests -> RequestType] /\ req'[q] = r /\ OthersGoOn(q)
      /\ \A x \in Requests \ {q} : req[x].at = t => req'[x].before
  BY <1>1 DEF OthersGoOn
<1>3. /\ foreign' \subseteq Sessions /\ aff' \in [Sessions -> Targets \cup {None}]
      /\ \A s \in Sessions : aff'[s] \in {aff[s], None} /\ aff'[s] # t
  BY BindFacts, UnboundFacts
<1> QED
  BY <1>2, <1>3

\* A failed attempt gives its permits back, outdates and unbinds.
LEMMA FailsInv == ASSUME RoutingInv, NEW q \in Requests, Fails(q) PROVE RoutingInv'
<1>1. PICK submitted \in BOOLEAN :
        mark_failure(q, [TryOn(req[q]) EXCEPT !.submitted = submitted], TRUE)
  BY DEF Fails
<1>2. PICK t \in Targets : t = req[q].at
  BY AttemptTarget DEF Fails, Gated, Holding
<1>3. Holding(q) /\ req[q] \in RequestType /\ health[t] \in HealthType /\ Sound(health[t])
  BY <1>2, AttemptTarget DEF Fails, Gated, Holding
<1> DEFINE r == [TryOn(req[q]) EXCEPT !.submitted = submitted]
           h == fail(health[t])
<1>4. r \in RequestType /\ r.phase = "try"
  <2> DEFINE a == TryOn(req[q])
  <2>1. a \in RequestType /\ a.phase = "try"
    BY <1>3, TryOnFacts
  <2>2. r = [a EXCEPT !.submitted = submitted]
    OBVIOUS
  <2> HIDE DEF a, r
  <2>3. r \in RequestType
    BY <2>1, <2>2, RequestWith
  <2> QED
    BY <2>1, <2>2, <2>3 DEF RequestType
<1>5. h \in HealthType /\ Sound(h) /\ h.probe = health[t].probe
  BY <1>3, FailFacts
<1>6. /\ health' = [health EXCEPT ![t] = Freed(h, q)]
      /\ Bind(Unbound(t)) /\ busy' = Left(t) /\ limit' = limit
      /\ req' = [Outdated(t) EXCEPT ![q] = r]
  BY <1>1, <1>2 DEF mark_failure, Fails
<1> HIDE DEF r, h
<1>7. TypeOK
  BY DEF RoutingInv
<1>8. /\ req' \in [Requests -> RequestType] /\ req'[q] = r /\ OthersGoOn(q)
      /\ \A x \in Requests \ {q} : req[x].at = t => req'[x].before
      /\ foreign' \subseteq Sessions /\ aff' \in [Sessions -> Targets \cup {None}]
      /\ \A s \in Sessions : aff'[s] \in {aff[s], None} /\ aff'[s] # t
  BY <1>4, <1>6, <1>7, MarkFacts
<1> QED
  BY <1>2, <1>3, <1>4, <1>5, <1>6, <1>8, LeaveStep

\* A rejected attempt gives its permits back.
LEMMA RejectedInv == ASSUME RoutingInv, NEW q \in Requests, Rejected(q) PROVE RoutingInv'
<1>1. PICK t \in Targets : t = req[q].at
  BY AttemptTarget DEF Rejected, Gated, Holding
<1>2. Holding(q) /\ req[q] \in RequestType /\ health[t] \in HealthType /\ Sound(health[t]) /\ TypeOK
  BY <1>1, AttemptTarget DEF Rejected, Gated, Holding, RoutingInv
<1>3. PICK r \in RequestType : r = TryOn(req[q]) /\ r.phase = "try"
  BY <1>2, TryOnFacts
<1>4. PICK b \in [Sessions -> Targets \cup {None}] :
        /\ b = IF aff[SessionOf[q]] = t THEN [aff EXCEPT ![SessionOf[q]] = None] ELSE aff
        /\ \A s \in Sessions : b[s] \in {aff[s], None}
  <2> DEFINE c == [aff EXCEPT ![SessionOf[q]] = None]
  <2>1. aff \in [Sessions -> Targets \cup {None}] /\ SessionOf[q] \in Sessions
    BY <1>2, RoutingConstants DEF TypeOK
  <2>2. /\ c \in [Sessions -> Targets \cup {None}]
        /\ \A s \in Sessions : c[s] \in {aff[s], None}
    BY <2>1
  <2> HIDE DEF c
  <2> QED
    BY <2>1, <2>2 DEF c
<1>5. /\ health' = [health EXCEPT ![t] = Freed(health[t], q)]
      /\ busy' = Left(t) /\ limit' = limit /\ Bind(b) /\ req' = [req EXCEPT ![q] = r]
  BY <1>1, <1>2, <1>3, <1>4 DEF Rejected, TypeOK
<1>6. aff' = b /\ foreign' \subseteq Sessions
  BY <1>2, <1>5, BindFacts
<1>7. /\ req' \in [Requests -> RequestType] /\ req'[q] = r
      /\ OthersGoOn(q) /\ req[q].phase # "limited"
  BY <1>2, <1>5 DEF TypeOK, OthersGoOn, Rejected
<1>8. /\ aff' \in [Sessions -> Targets \cup {None}]
      /\ \A s \in Sessions : aff'[s] \in {aff[s], None}
  BY <1>4, <1>6
<1> QED
  BY <1>1, <1>2, <1>3, <1>5, <1>6, <1>7, <1>8, LeaveStep

\* The second half of mark_rate_limited leaves no binding to the target.
LEMMA UnbindsInv == ASSUME RoutingInv, NEW q \in Requests, Unbinds(q) PROVE RoutingInv'
<1>1. PICK t \in Targets : t = req[q].at
  BY AttemptTarget DEF Unbinds, Gated, Holding
<1>2. Holding(q) /\ req[q] \in RequestType /\ health[t] \in HealthType /\ Sound(health[t]) /\ TypeOK
  BY <1>1, AttemptTarget DEF Unbinds, Gated, Holding, RoutingInv
<1>3. PICK r \in RequestType : r = TryOn(req[q]) /\ r.phase = "try"
  BY <1>2, TryOnFacts
<1>4. /\ health' = [health EXCEPT ![t] = Freed(health[t], q)]
      /\ busy' = Left(t) /\ limit' = limit /\ Bind(Unbound(t)) /\ req' = [req EXCEPT ![q] = r]
  BY <1>1, <1>2, <1>3 DEF Unbinds, TypeOK
<1>5. /\ foreign' \subseteq Sessions
      /\ aff' \in [Sessions -> Targets \cup {None}]
      /\ \A s \in Sessions : aff'[s] \in {aff[s], None} /\ aff'[s] # t
  BY <1>2, <1>4, BindFacts, UnboundFacts
<1>6. req' \in [Requests -> RequestType] /\ req'[q] = r /\ OthersGoOn(q)
  BY <1>2, <1>4 DEF TypeOK, OthersGoOn
<1> QED
  BY <1>1, <1>2, <1>3, <1>4, <1>5, <1>6, LeaveStep

\* A request that leaves its attempt without an outcome.
LEMMA LeaveQuietly ==
  ASSUME RoutingInv, NEW q \in Requests, req[q].phase \in {"sent", "cut", "stream", "drain"},
         health' = [health EXCEPT ![req[q].at] = Freed(@, q)], busy' = Left(req[q].at),
         UNCHANGED <<limit, aff, foreign>>,
         NEW r \in RequestType, req' = [req EXCEPT ![q] = r],
         r.phase \in {"idle", "orphan"}, ~r.submitted, r.phase = "orphan" => r.at = req[q].at
  PROVE  RoutingInv'
<1>1. PICK t \in Targets : t = req[q].at
  BY AttemptTarget DEF Gated, Holding
<1>2. /\ Holding(q) /\ req[q] \in RequestType /\ health[t] \in HealthType /\ Sound(health[t])
      /\ TypeOK
  BY <1>1, AttemptTarget DEF Gated, Holding, RoutingInv
<1>3. health' = [health EXCEPT ![t] = Freed(health[t], q)] /\ busy' = Left(t)
  BY <1>1, <1>2 DEF TypeOK
<1>4. /\ req' \in [Requests -> RequestType] /\ req'[q] = r
      /\ OthersGoOn(q) /\ req[q].phase # "limited"
  BY <1>2 DEF TypeOK, OthersGoOn
<1>5. /\ aff' \in [Sessions -> Targets \cup {None}] /\ foreign' \subseteq Sessions
      /\ \A s \in Sessions : aff'[s] \in {aff[s], None}
  BY <1>2 DEF TypeOK
<1>6. r.phase = "orphan" => r.at # None
  BY <1>1, RoutingConstants
<1> QED
  BY <1>1, <1>2, <1>3, <1>4, <1>5, <1>6, LeaveStep

\* A body that goes takes its permits along.
LEMMA DrainedInv == ASSUME RoutingInv, NEW q \in Requests, Drained(q) PROVE RoutingInv'
<1>1. req[q] \in RequestType /\ ~req[q].submitted
  BY AttemptTarget DEF Drained, Gated, Holding
<1>2. PICK o \in RequestType :
        /\ o = [req[q] EXCEPT !.phase = "orphan"] /\ o.phase = "orphan"
        /\ o.at = req[q].at /\ ~o.submitted
  <2> DEFINE o == [req[q] EXCEPT !.phase = "orphan"]
  <2>1. o \in RequestType
    BY <1>1, RequestWith DEF Phases
  <2>2. o.phase = "orphan" /\ o.at = req[q].at /\ (o.submitted <=> req[q].submitted)
    BY <1>1 DEF RequestType
  <2> QED
    BY <1>1, <2>1, <2>2
<1>3. PICK r \in RequestType : r = IF req[q].phase = "drain" THEN NoRequest ELSE o
  BY NoRequestType
<1>4. NoRequest.phase = "idle" /\ ~NoRequest.submitted
  BY DEF NoRequest
<1>5. /\ r.phase \in {"idle", "orphan"} /\ ~r.submitted
      /\ r.phase = "orphan" => r.at = req[q].at
  BY <1>2, <1>3, <1>4
<1>6. req' = [req EXCEPT ![q] = r]
  BY <1>2, <1>3 DEF Drained
<1> QED
  BY <1>5, <1>6, LeaveQuietly DEF Drained

\* A request dropped before its response gives back what it holds.
LEMMA DroppedInv == ASSUME RoutingInv, NEW q \in Requests, Dropped(q) PROVE RoutingInv'
<1>1. NoRequest \in RequestType /\ NoRequest.phase = "idle" /\ ~NoRequest.submitted
  BY NoRequestType DEF NoRequest
<1>2. CASE Holding(q)
  BY <1>1, <1>2, LeaveQuietly DEF Dropped, Holding
<1>3. CASE ~Holding(q)
  BY <1>1, <1>3, QuietMove DEF Dropped, Holding
<1> QED
  BY <1>2, <1>3

\* A step that takes and gives back no permit: requests keep theirs, and what
\* it makes of a target's health keeps the probe unless it ends recovery.
LEMMA SharedStep ==
  ASSUME RoutingInv, busy' = busy, limit' \in [Providers -> Limits],
         foreign' \subseteq Sessions, aff' \in [Sessions -> Targets \cup {None}],
         req' \in [Requests -> RequestType], health' \in [Targets -> HealthType],
         AttemptsSound',
         \A x \in Requests :
           /\ Gated(x)' <=> Gated(x)
           /\ Holding(x)' <=> Holding(x)
           /\ Gated(x) => req'[x].at = req[x].at /\ (req[x].before => req'[x].before),
         \A u \in Targets :
           /\ Sound(health'[u])
           /\ health'[u].probe \in {health[u].probe, None}
           /\ health'[u].recovering =>
                /\ health'[u].probe = health[u].probe
                /\ \/ health[u].recovering
                   \/ \A x \in Requests : Gated(x) /\ req[x].at = u => req'[x].before,
         \A s \in Sessions : aff'[s] # None /\ Open(health[aff[s]])' =>
           \/ \E x \in Requests : req'[x].phase = "limited" /\ req'[x].at = aff'[s]
           \/ /\ aff'[s] = aff[s] /\ Open(health[aff[s]])
              /\ \A x \in Requests : req[x].phase = "limited" /\ req[x].at = aff[s] =>
                   req'[x].phase = "limited" /\ req'[x].at = aff[s]
  PROVE  RoutingInv'
<1>1. TypeOK'
  BY DEF RoutingInv, TypeOK
<1>2. BannedRecovers'
  BY DEF BannedRecovers, Sound
<1>3. \A x \in Requests : Holding(x) => Gated(x)
  BY DEF Gated
<1>4. SlotsExact'
  BY <1>3, SlotsSame DEF RoutingInv
<1>5. \A u \in Targets : \A x \in Requests : health[u].probe = x => Gated(x)
  BY RoutingConstants DEF RoutingInv, ProbeExclusive
<1>6. ProbeExclusive'
  BY <1>1, <1>5, ProbeKept, RoutingConstants DEF RoutingInv
<1>7. BoundIsUsable'
  BY <1>1, BoundKept DEF RoutingInv
<1> QED
  BY <1>1, <1>2, <1>4, <1>6, <1>7 DEF RoutingInv

\* Another limit touches nothing that is under way.
LEMMA SetLimitInv == ASSUME RoutingInv, NEW p \in Providers, SetLimit(p) PROVE RoutingInv'
<1>1. limit' \in [Providers -> Limits]
  BY DEF SetLimit, RoutingInv, TypeOK
<1>2. /\ TypeOK' /\ BannedRecovers' /\ AttemptsSound'
      /\ ProbeExclusive' /\ SlotsExact' /\ BoundIsUsable'
  BY <1>1 DEF SetLimit, RoutingInv, TypeOK, BannedRecovers, AttemptsSound, ProbeExclusive,
              SlotsExact, BoundIsUsable, Gated, Holding, Holders, Open
<1> QED
  BY <1>2 DEF RoutingInv

\* A binding that expires breaks nothing.
LEMMA ExpireInv == ASSUME RoutingInv, NEW s \in Sessions, Expire(s) PROVE RoutingInv'
<1>1. TypeOK /\ UNCHANGED <<health, busy, limit, req>> /\ Bind([aff EXCEPT ![s] = None])
  BY DEF Expire, RoutingInv
<1>2. PICK b \in [Sessions -> Targets \cup {None}] :
        b = [aff EXCEPT ![s] = None] /\ \A z \in Sessions : b[z] \in {aff[z], None}
  BY <1>1 DEF TypeOK
<1>3. aff' = b /\ foreign' \subseteq Sessions
  BY <1>1, <1>2, BindFacts
<1>4. \A z \in Sessions : aff'[z] # None => aff'[z] = aff[z]
  BY <1>2, <1>3
<1>5. TypeOK'
  BY <1>1, <1>2, <1>3 DEF TypeOK
<1>6. BoundIsUsable'
  BY <1>1, <1>4 DEF BoundIsUsable, RoutingInv, Open
<1>7. BannedRecovers' /\ AttemptsSound' /\ ProbeExclusive' /\ SlotsExact'
  BY <1>1 DEF RoutingInv, BannedRecovers, AttemptsSound, ProbeExclusive,
              SlotsExact, Gated, Holding, Holders
<1> QED
  BY <1>5, <1>6, <1>7 DEF RoutingInv

\* Time passing opens no circuit.
LEMMA TickInv == ASSUME RoutingInv, Tick PROVE RoutingInv'
<1> DEFINE o(t) == IF health[t].open > 0 THEN health[t].open - 1 ELSE health[t].open
           n(t) == IF health[t].age \in 0 .. Window - 1 THEN health[t].age + 1 ELSE health[t].age
<1>1. ASSUME NEW t \in Targets
      PROVE  /\ health[t] \in HealthType /\ Sound(health[t])
             /\ health'[t] \in HealthType
             /\ health'[t].open = o(t) /\ health'[t].probe = health[t].probe
             /\ health'[t].recovering <=> health[t].recovering
  <2>1. health[t] \in HealthType /\ Sound(health[t])
    BY DEF RoutingInv, TypeOK, BannedRecovers, Sound
  <2> DEFINE a == [health[t] EXCEPT !.open = o(t)]
             b == [a EXCEPT !.age = n(t)]
  <2>2. o(t) \in Int /\ n(t) \in -1 .. Window
    BY <2>1, RoutingConstants DEF HealthType
  <2>3. health'[t] = b
    BY DEF Tick
  <2> HIDE DEF o, n
  <2>4. a \in HealthType
    BY <2>1, <2>2, HealthWith
  <2>5. a.open = o(t) /\ a.probe = health[t].probe /\ (a.recovering <=> health[t].recovering)
    BY <2>1 DEF HealthType
  <2> HIDE DEF a
  <2>6. b \in HealthType
    BY <2>2, <2>4, HealthWith
  <2>7. b.open = o(t) /\ b.probe = health[t].probe /\ (b.recovering <=> health[t].recovering)
    BY <2>4, <2>5 DEF HealthType
  <2> QED
    BY <2>1, <2>3, <2>6, <2>7
<1>2. \A t \in Targets : Sound(health'[t]) /\ (Open(health'[t]) => Open(health[t]))
  BY <1>1 DEF Sound, Open, HealthType
<1>3. UNCHANGED <<busy, limit, aff, req, foreign>>
  BY DEF Tick
<1>4. health' \in [Targets -> HealthType]
  <2>1. \A t \in Targets : health'[t] \in HealthType
    BY <1>1
  <2> QED
    BY <2>1 DEF Tick
<1>5. TypeOK'
  BY <1>3, <1>4 DEF RoutingInv, TypeOK
<1>6. BannedRecovers' /\ AttemptsSound' /\ SlotsExact'
  BY <1>2, <1>3 DEF RoutingInv, BannedRecovers, AttemptsSound, SlotsExact, Sound, Gated, Holding, Holders
<1>7. ProbeExclusive'
  BY <1>1, <1>3 DEF RoutingInv, ProbeExclusive, Gated, Holding
<1>8. BoundIsUsable'
  <2>1. \A s \in Sessions : aff[s] # None => aff[s] \in Targets
    BY DEF RoutingInv, TypeOK
  <2> QED
    BY <1>2, <1>3, <2>1 DEF RoutingInv, BoundIsUsable, Open
<1> QED
  BY <1>5, <1>6, <1>7, <1>8 DEF RoutingInv

\* An outcome of q's attempt on t, which keeps its permits or had none; h is
\* what it makes of the target's health.
LEMMA OutcomeStep ==
  ASSUME RoutingInv, NEW q \in Requests, NEW t \in Targets, req[q].at = t,
         NEW h \in HealthType, Sound(h), h.probe = health[t].probe,
         health' = [health EXCEPT ![t] = h],
         busy' = busy, limit' = limit, foreign' \subseteq Sessions,
         req' \in [Requests -> RequestType], OthersGoOn(q),
         req[q].phase # "limited", ~req'[q].submitted,
         \/ /\ Holding(q) /\ Holding(q)' /\ req'[q].at = t
            /\ req[q].before => req'[q].before
         \/ req[q].phase = "orphan" /\ req'[q].phase = "idle",
         h.recovering => \/ health[t].recovering
                         \/ \A x \in Requests : Gated(x) /\ req[x].at = t => req'[x].before,
         aff' \in [Sessions -> Targets \cup {None}],
         \A s \in Sessions : aff'[s] \in {aff[s], t, None},
         \A s \in Sessions : aff'[s] = t /\ Open(h) =>
           \/ req'[q].phase = "limited" /\ req'[q].at = t
           \/ aff[s] = t /\ Open(health[t])
  PROVE  RoutingInv'
<1>1. /\ health \in [Targets -> HealthType] /\ health' \in [Targets -> HealthType]
      /\ health'[t] = h /\ \A u \in Targets \ {t} : health'[u] = health[u]
      /\ limit' \in [Providers -> Limits]
  BY DEF RoutingInv, TypeOK
<1>2. \A u \in Targets : Sound(health[u])
  BY DEF RoutingInv, BannedRecovers, Sound
<1>3. AttemptsSound'
  BY RoutingConstants DEF RoutingInv, AttemptsSound, OthersGoOn, Gated, Holding
<1>4. \A x \in Requests :
        /\ Gated(x)' <=> Gated(x)
        /\ Holding(x)' <=> Holding(x)
        /\ Gated(x) => req'[x].at = req[x].at /\ (req[x].before => req'[x].before)
  BY DEF OthersGoOn, Gated, Holding
<1>5. ASSUME NEW u \in Targets
      PROVE  /\ Sound(health'[u])
             /\ health'[u].probe \in {health[u].probe, None}
             /\ health'[u].recovering =>
                  /\ health'[u].probe = health[u].probe
                  /\ \/ health[u].recovering
                     \/ \A x \in Requests : Gated(x) /\ req[x].at = u => req'[x].before
  BY <1>1, <1>2
<1>6. ASSUME NEW s \in Sessions, aff'[s] # None, Open(health[aff[s]])'
      PROVE  \/ \E x \in Requests : req'[x].phase = "limited" /\ req'[x].at = aff'[s]
             \/ /\ aff'[s] = aff[s] /\ Open(health[aff[s]])
                /\ \A x \in Requests : req[x].phase = "limited" /\ req[x].at = aff[s] =>
                     req'[x].phase = "limited" /\ req'[x].at = aff[s]
  <2>1. aff'[s] \in Targets
    BY <1>6
  <2>2. \A x \in Requests : req[x].phase = "limited" =>
          req'[x].phase = "limited" /\ req'[x].at = req[x].at
    BY DEF OthersGoOn
  <2>3. CASE aff'[s] = t
    <3>1. Open(h)
      BY <1>1, <1>6, <2>3 DEF Open
    <3> QED
      BY <2>2, <2>3, <3>1
  <2>4. CASE aff'[s] # t
    <3>1. aff'[s] = aff[s] /\ Open(health[aff[s]])
      BY <1>1, <1>6, <2>1, <2>4 DEF Open
    <3> QED
      BY <2>2, <3>1
  <2> QED
    BY <2>3, <2>4
<1> QED
  BY <1>1, <1>3, <1>4, <1>5, <1>6, SharedStep

\* The first half of mark_rate_limited leaves its request to unbind.
LEMMA ThrottledInv == ASSUME RoutingInv, NEW q \in Requests, Throttled(q) PROVE RoutingInv'
<1>1. PICK t \in Targets : t = req[q].at
  BY AttemptTarget DEF Throttled, Gated, Holding
<1>2. /\ Holding(q) /\ req[q] \in RequestType /\ ~req[q].submitted
      /\ health[t] \in HealthType /\ TypeOK
  BY <1>1, AttemptTarget DEF Throttled, Gated, Holding, RoutingInv
<1>3. PICK ticks \in RetryAfter : health' = [health EXCEPT ![t] = RateLimited(health[t], ticks)]
  BY <1>1, <1>2 DEF Throttled, TypeOK
<1>4. PICK h \in HealthType :
        h = RateLimited(health[t], ticks) /\ Sound(h) /\ h.probe = health[t].probe
  BY <1>2, RateLimitedFacts
<1>5. PICK o \in [Requests -> RequestType] :
        /\ o = Outdated(t)
        /\ \A x \in Requests :
             /\ o[x].phase = req[x].phase /\ o[x].at = req[x].at /\ o[x].tries = req[x].tries
             /\ o[x].submitted <=> req[x].submitted
             /\ o[x].before <=> (req[x].before \/ req[x].at = t)
  BY <1>2, OutdatedFacts
<1>6. PICK r \in RequestType :
        /\ r = [o[q] EXCEPT !.phase = "limited"] /\ r.phase = "limited"
        /\ r.at = t /\ ~r.submitted /\ r.before
  <2> DEFINE r == [o[q] EXCEPT !.phase = "limited"]
  <2>1. r \in RequestType
    BY RequestWith DEF Phases
  <2>2. /\ r.phase = "limited" /\ r.at = o[q].at
        /\ (r.submitted <=> o[q].submitted) /\ (r.before <=> o[q].before)
    BY DEF RequestType
  <2> QED
    BY <1>1, <1>2, <1>5, <2>1, <2>2
<1>7. req' = [o EXCEPT ![q] = r] /\ UNCHANGED <<busy, limit, aff, foreign>>
  BY <1>1, <1>5, <1>6 DEF Throttled
<1>8. /\ req' \in [Requests -> RequestType] /\ req'[q] = r /\ OthersGoOn(q)
      /\ \A x \in Requests : req[x].at = t => req'[x].before
  BY <1>5, <1>6, <1>7 DEF OthersGoOn
<1>9. Holding(q)' /\ req'[q].phase = "limited" /\ req'[q].at = t
  BY <1>6, <1>8 DEF Holding
<1>10. /\ aff' \in [Sessions -> Targets \cup {None}] /\ foreign' \subseteq Sessions
       /\ \A s \in Sessions : aff'[s] = aff[s]
  BY <1>2, <1>7 DEF TypeOK
<1>11. /\ req[q].phase # "limited" /\ ~req'[q].submitted /\ req'[q].before
       /\ health' = [health EXCEPT ![t] = h]
  BY <1>3, <1>4, <1>6, <1>8 DEF Throttled
<1> QED
  BY <1>1, <1>2, <1>4, <1>7, <1>8, <1>9, <1>10, <1>11, OutcomeStep

\* complete_target_success on an attempt that keeps its permits or has none.
LEMMA SuccessInv ==
  ASSUME RoutingInv, NEW q \in Requests, complete_target_success(q),
         UNCHANGED <<busy, limit>>, NEW r \in RequestType, req' = [req EXCEPT ![q] = r],
         ~r.submitted,
         \/ /\ req[q].phase \in {"sent", "stream"} /\ r.phase = "drain"
            /\ r.at = req[q].at /\ (r.before <=> req[q].before)
         \/ req[q].phase = "orphan" /\ r.phase = "idle"
  PROVE  RoutingInv'
<1>1. PICK t \in Targets : t = req[q].at
  BY AttemptTarget DEF Gated, Holding
<1>2. health[t] \in HealthType /\ Sound(health[t]) /\ TypeOK
  BY <1>1, AttemptTarget DEF Gated, Holding, RoutingInv
<1>3. PICK h \in HealthType :
        /\ h = IF req[q].stale THEN health[t] ELSE succeed(health[t])
        /\ Sound(h) /\ h.probe = health[t].probe
        /\ h.recovering => health[t].recovering
        /\ Open(h) => Open(health[t])
  BY <1>2, SucceedFacts
<1>4. health' = [health EXCEPT ![t] = h]
  BY <1>1, <1>2, <1>3 DEF complete_target_success, TypeOK
<1>5. /\ aff' \in [Sessions -> Targets \cup {None}] /\ foreign' \subseteq Sessions
      /\ \A s \in Sessions : aff'[s] \in {aff[s], t, None}
      /\ \A s \in Sessions : aff'[s] = t /\ aff[s] # t => ~Open(health[t])
  <2>1. aff \in [Sessions -> Targets \cup {None}] /\ SessionOf[q] \in Sessions
    BY <1>2, RoutingConstants DEF TypeOK
  <2>2. /\ foreign' \subseteq Sessions
        /\ \/ aff' = aff
           \/ aff' = [aff EXCEPT ![SessionOf[q]] = t] /\ ~Open(health[t])
    BY <1>1, <1>2, <2>1 DEF complete_target_success, MayBind, TypeOK
  <2> QED
    BY <2>1, <2>2
<1>6. req' \in [Requests -> RequestType] /\ req'[q] = r /\ OthersGoOn(q)
  BY <1>2 DEF TypeOK, OthersGoOn
<1>7. /\ req[q].phase # "limited" /\ ~req'[q].submitted
      /\ \/ /\ Holding(q) /\ Holding(q)' /\ req'[q].at = t
            /\ req[q].before => req'[q].before
         \/ req[q].phase = "orphan" /\ req'[q].phase = "idle"
  BY <1>1, <1>6 DEF Holding
<1> QED
  BY <1>1, <1>3, <1>4, <1>5, <1>6, <1>7, OutcomeStep

\* A request that only changes its phase.
LEMMA PhaseMove ==
  ASSUME NEW q \in Requests, NEW v \in Phases, req[q] \in RequestType
  PROVE  \E r \in RequestType :
           /\ r = [req[q] EXCEPT !.phase = v]
           /\ r.phase = v /\ r.at = req[q].at /\ r.tries = req[q].tries
           /\ (r.submitted <=> req[q].submitted) /\ (r.before <=> req[q].before)
<1> DEFINE r == [req[q] EXCEPT !.phase = v]
<1>1. r \in RequestType
  BY RequestWith
<1>2. /\ r.phase = v /\ r.at = req[q].at /\ r.tries = req[q].tries
      /\ (r.submitted <=> req[q].submitted) /\ (r.before <=> req[q].before)
  BY DEF RequestType
<1> QED
  BY <1>1, <1>2

\* A success binds only to a target that is not banned.
LEMMA CompletesInv ==
  ASSUME RoutingInv, NEW q \in Requests, Completes(q) \/ StreamSucceeds(q) PROVE RoutingInv'
<1>1. req[q] \in RequestType /\ ~req[q].submitted
  BY AttemptTarget DEF Completes, StreamSucceeds, Gated, Holding
<1>2. PICK r \in RequestType :
        /\ r = [req[q] EXCEPT !.phase = "drain"]
        /\ r.phase = "drain" /\ r.at = req[q].at
        /\ ~r.submitted /\ (r.before <=> req[q].before)
  BY <1>1, PhaseMove DEF Phases
<1>3. /\ req' = [req EXCEPT ![q] = r] /\ complete_target_success(q)
      /\ UNCHANGED <<busy, limit>> /\ req[q].phase \in {"sent", "stream"}
  BY <1>2 DEF Completes, StreamSucceeds
<1> QED
  BY <1>2, <1>3, SuccessInv

\* A stream that breaks off outdates the attempts under way and unbinds.
LEMMA StreamFailsInv == ASSUME RoutingInv, NEW q \in Requests, StreamFails(q) PROVE RoutingInv'
<1>1. PICK t \in Targets : t = req[q].at /\ ~req[q].submitted
  BY AttemptTarget DEF StreamFails, Gated, Holding
<1>2. health[t] \in HealthType /\ Sound(health[t]) /\ TypeOK /\ req[q].phase = "stream"
  BY <1>1, AttemptTarget DEF StreamFails, Gated, Holding, RoutingInv
<1>3. PICK h \in HealthType : h = fail(health[t]) /\ Sound(h) /\ h.probe = health[t].probe
  BY <1>2, FailFacts
<1>4. PICK o \in RequestType :
        /\ o = Outdated(t)[q] /\ o.at = t /\ ~o.submitted /\ o.before
  BY <1>1, <1>2, OutdatedFacts
<1>5. PICK r \in RequestType :
        /\ r = [o EXCEPT !.phase = "drain"]
        /\ r.phase = "drain" /\ r.at = t /\ ~r.submitted /\ r.before
  <2> DEFINE r == [o EXCEPT !.phase = "drain"]
  <2>1. r \in RequestType
    BY RequestWith DEF Phases
  <2>2. /\ r.phase = "drain" /\ r.at = o.at
        /\ (r.submitted <=> o.submitted) /\ (r.before <=> o.before)
    BY DEF RequestType
  <2> QED
    BY <1>4, <2>1, <2>2
<1>6. health' = [health EXCEPT ![t] = h] /\ busy' = busy /\ limit' = limit
  BY <1>1, <1>2, <1>3 DEF StreamFails, mark_failure, TypeOK
<1>7. req' = [Outdated(t) EXCEPT ![q] = r] /\ Bind(Unbound(t))
  BY <1>1, <1>4, <1>5 DEF StreamFails, mark_failure
<1>8. /\ req' \in [Requests -> RequestType] /\ req'[q] = r /\ OthersGoOn(q)
      /\ \A x \in Requests \ {q} : req[x].at = t => req'[x].before
      /\ foreign' \subseteq Sessions /\ aff' \in [Sessions -> Targets \cup {None}]
      /\ \A s \in Sessions : aff'[s] \in {aff[s], None} /\ aff'[s] # t
  BY <1>2, <1>7, MarkFacts
<1>9. /\ Holding(q) /\ Holding(q)' /\ req[q].phase # "limited"
      /\ \A x \in Requests : req[x].at = t => req'[x].before
      /\ ~req'[q].submitted /\ req'[q].at = t
  BY <1>2, <1>5, <1>8 DEF Holding
<1> QED
  BY <1>1, <1>3, <1>6, <1>8, <1>9, OutcomeStep

\* The tracking task of a client that left holds no permits.
LEMMA OrphanEndsInv == ASSUME RoutingInv, NEW q \in Requests, OrphanEnds(q) PROVE RoutingInv'
<1>1. NoRequest \in RequestType /\ NoRequest.phase = "idle" /\ ~NoRequest.submitted
  BY NoRequestType DEF NoRequest
<1>2. req[q].phase = "orphan" /\ limit' = limit
  BY DEF OrphanEnds
<1>3. CASE req' = [req EXCEPT ![q] = NoRequest] /\ UNCHANGED <<health, busy, aff, foreign>>
  BY <1>1, <1>2, <1>3, QuietMove
<1>4. CASE /\ complete_target_success(q)
           /\ req' = [req EXCEPT ![q] = NoRequest] /\ UNCHANGED busy
  BY <1>1, <1>2, <1>4, SuccessInv
<1>5. CASE mark_failure(q, NoRequest, FALSE)
  <2>1. PICK t \in Targets : t = req[q].at
    BY <1>2, AttemptTarget
  <2>2. health[t] \in HealthType /\ Sound(health[t]) /\ TypeOK
    BY <1>2, <2>1, AttemptTarget DEF RoutingInv
  <2>3. PICK h \in HealthType : h = fail(health[t]) /\ Sound(h) /\ h.probe = health[t].probe
    BY <2>2, FailFacts
  <2>4. health' = [health EXCEPT ![t] = h] /\ busy' = busy
    BY <1>5, <2>1, <2>2, <2>3 DEF mark_failure, TypeOK
  <2>5. req' = [Outdated(t) EXCEPT ![q] = NoRequest] /\ Bind(Unbound(t))
    BY <1>5, <2>1 DEF mark_failure
  <2>6. /\ req' \in [Requests -> RequestType] /\ req'[q] = NoRequest /\ OthersGoOn(q)
        /\ \A x \in Requests \ {q} : req[x].at = t => req'[x].before
        /\ foreign' \subseteq Sessions /\ aff' \in [Sessions -> Targets \cup {None}]
        /\ \A s \in Sessions : aff'[s] \in {aff[s], None} /\ aff'[s] # t
    BY <1>1, <2>2, <2>5, MarkFacts
  <2>7. /\ req[q].phase = "orphan" /\ req'[q].phase = "idle" /\ ~req'[q].submitted
        /\ \A x \in Requests : Gated(x) /\ req[x].at = t => req'[x].before
    BY <1>1, <1>2, <2>6 DEF Gated, Holding
  <2> QED
    BY <1>2, <2>1, <2>3, <2>4, <2>6, <2>7, OutcomeStep
<1> QED
  BY <1>3, <1>4, <1>5 DEF OrphanEnds

\* Replacing an account is noted by the requests, which go on.
LEMMA ReplacedFacts ==
  ASSUME TypeOK, NEW t \in Targets, ReplaceAccount(t), NEW x \in Requests
  PROVE  /\ req'[x] \in RequestType
         /\ req'[x].phase = req[x].phase /\ req'[x].at = req[x].at
         /\ req'[x].tries = req[x].tries
         /\ (req'[x].submitted <=> req[x].submitted) /\ (req'[x].before <=> req[x].before)
<1> DEFINE v == req[x].replaced \cup {t}
           w == req[x].stale /\ req[x].at # t
           a == [req[x] EXCEPT !.replaced = v]
           b == [a EXCEPT !.stale = w]
<1>1. req[x] \in RequestType
  BY DEF TypeOK
<1>2. v \in SUBSET Targets /\ w \in BOOLEAN
  BY <1>1 DEF RequestType
<1>3. req'[x] = IF req[x].phase = "idle" THEN req[x] ELSE b
  BY DEF ReplaceAccount
<1> HIDE DEF v, w
<1>4. a \in RequestType
  BY <1>1, <1>2, RequestWith
<1>5. /\ a.phase = req[x].phase /\ a.at = req[x].at /\ a.tries = req[x].tries
      /\ (a.submitted <=> req[x].submitted) /\ (a.before <=> req[x].before)
  BY <1>1 DEF RequestType
<1> HIDE DEF a
<1>6. b \in RequestType
  BY <1>2, <1>4, RequestWith
<1>7. /\ b.phase = req[x].phase /\ b.at = req[x].at /\ b.tries = req[x].tries
      /\ (b.submitted <=> req[x].submitted) /\ (b.before <=> req[x].before)
  BY <1>4, <1>5 DEF RequestType
<1> HIDE DEF b
<1> QED
  BY <1>1, <1>3, <1>6, <1>7

\* A replaced account starts healthy, without probe or binding.
LEMMA ReplaceAccountInv ==
  ASSUME RoutingInv, NEW t \in Replaceable, ReplaceAccount(t) PROVE RoutingInv'
<1>1. t \in Targets /\ TypeOK /\ AttemptsSound
  BY RoutingConstants DEF RoutingInv
<1>2. Healthy \in HealthType /\ Sound(Healthy) /\ Healthy.probe = None /\ ~Healthy.recovering
  BY RoutingConstants DEF Healthy, HealthType, Sound, RECOVERY_SUCCESS_THRESHOLD
<1>3. /\ health' \in [Targets -> HealthType] /\ health'[t] = Healthy
      /\ \A u \in Targets \ {t} : health'[u] = health[u] /\ Sound(health[u])
  BY <1>1, <1>2 DEF ReplaceAccount, RoutingInv, TypeOK, BannedRecovers, Sound
<1>4. /\ foreign' \subseteq Sessions /\ aff' \in [Sessions -> Targets \cup {None}]
      /\ \A s \in Sessions : aff'[s] \in {aff[s], None} /\ aff'[s] # t
  BY <1>1, BindFacts, UnboundFacts DEF ReplaceAccount
<1>5. \A x \in Requests :
        /\ req'[x] \in RequestType
        /\ req'[x].phase = req[x].phase /\ req'[x].at = req[x].at
        /\ req'[x].tries = req[x].tries
        /\ (req'[x].submitted <=> req[x].submitted) /\ (req'[x].before <=> req[x].before)
  BY <1>1, ReplacedFacts
<1>6. req' \in [Requests -> RequestType]
  <2>1. \A x \in Requests : req'[x] \in RequestType
    BY <1>5
  <2> QED
    BY <2>1 DEF ReplaceAccount
<1>7. AttemptsSound'
  BY <1>1, <1>5 DEF AttemptsSound, Gated, Holding
<1>8. \A x \in Requests :
        /\ Gated(x)' <=> Gated(x)
        /\ Holding(x)' <=> Holding(x)
        /\ Gated(x) => req'[x].at = req[x].at /\ (req[x].before => req'[x].before)
  BY <1>5 DEF Gated, Holding
<1>9. \A u \in Targets :
        /\ Sound(health'[u])
        /\ health'[u].probe \in {health[u].probe, None}
        /\ health'[u].recovering =>
             health'[u].probe = health[u].probe /\ health[u].recovering
  BY <1>2, <1>3
<1>10. ASSUME NEW s \in Sessions, aff'[s] # None, Open(health[aff[s]])'
       PROVE  /\ aff'[s] = aff[s] /\ Open(health[aff[s]])
              /\ \A x \in Requests : req[x].phase = "limited" /\ req[x].at = aff[s] =>
                   req'[x].phase = "limited" /\ req'[x].at = aff[s]
  BY <1>3, <1>4, <1>5, <1>10 DEF Open
<1>11. busy' = busy /\ limit' \in [Providers -> Limits]
  BY <1>1 DEF ReplaceAccount, TypeOK
<1> QED
  BY <1>3, <1>4, <1>6, <1>7, <1>8, <1>9, <1>10, <1>11, SharedStep

\* What Noticed makes of all targets.
LEMMA NoticedAll ==
  ASSUME RoutingInv, NEW t \in Targets
  PROVE  /\ Noticed(health[t]) \in HealthType /\ Sound(Noticed(health[t]))
         /\ Noticed(health[t]).probe = health[t].probe
         /\ Noticed(health[t]).recovering <=> health[t].recovering
         /\ Open(Noticed(health[t])) <=> Open(health[t])
<1>1. health[t] \in HealthType /\ Sound(health[t])
  BY DEF RoutingInv, TypeOK, BannedRecovers, Sound
<1> QED
  BY <1>1, NoticedFacts

\* Choosing notices bans that have passed and drops at most one binding.
LEMMA ChooseInv == ASSUME RoutingInv, NEW q \in Requests, Choose(q) PROVE RoutingInv'
<1>1. TypeOK /\ AttemptsSound /\ req[q] \in RequestType /\ req[q].phase = "choose"
  BY DEF RoutingInv, TypeOK, Choose
<1> DEFINE s == SessionOf[q]
           h == [t \in Targets |-> Noticed(health[t])]
           usable == {t \in Targets : ~Open(h[t]) /\ h[t].probe = None}
           first == IF aff[s] \in usable THEN aff[s] ELSE None
           list == {t \in usable : req[q].owner \in {None, t}}
<1>2. /\ health' = h /\ Bind([aff EXCEPT ![s] = first])
      /\ \E o \in Orders(list, h, first) :
           req' = [req EXCEPT ![q].phase = "try", ![q].todo = o, ![q].tries = 0]
      /\ UNCHANGED <<busy, limit>>
  BY DEF Choose
<1>3. PICK o \in Seq(Targets) :
        req' = [req EXCEPT ![q].phase = "try", ![q].todo = o, ![q].tries = 0]
  <2>1. PICK o \in Orders(list, h, first) :
          req' = [req EXCEPT ![q].phase = "try", ![q].todo = o, ![q].tries = 0]
    BY <1>2
  <2>2. o \in [1 .. Cardinality(list) -> list]
    BY DEF Orders
  <2>3. list \subseteq Targets
    OBVIOUS
  <2> HIDE DEF list
  <2>4. Cardinality(list) \in Nat
    BY <2>3, FS_Subset, FS_CardinalityType, RoutingConstants
  <2>5. o \in Seq(list)
    BY <2>2, <2>4
  <2>6. o \in Seq(Targets)
    BY <2>3, <2>5
  <2> QED
    BY <2>1, <2>6
<1>4. /\ aff' \in [Sessions -> Targets \cup {None}] /\ foreign' \subseteq Sessions
      /\ \A z \in Sessions : aff'[z] \in {aff[z], None}
  <2>1. s \in Sessions /\ aff \in [Sessions -> Targets \cup {None}]
    BY <1>1, RoutingConstants DEF TypeOK
  <2>2. first \in {aff[s], None}
    OBVIOUS
  <2> HIDE DEF s, first
  <2>3. PICK b \in [Sessions -> Targets \cup {None}] :
          b = [aff EXCEPT ![s] = first] /\ \A z \in Sessions : b[z] \in {aff[z], None}
    BY <2>1, <2>2
  <2> QED
    BY <1>1, <1>2, <2>3, BindFacts
<1>5. \A t \in Targets :
        /\ health'[t] \in HealthType /\ Sound(health'[t])
        /\ health'[t].probe = health[t].probe
        /\ health'[t].recovering <=> health[t].recovering
        /\ Open(health'[t]) <=> Open(health[t])
  BY <1>2, NoticedAll
<1>6. health' \in [Targets -> HealthType]
  BY <1>2, <1>5
<1> HIDE DEF s, h, usable, first, list
<1>7. PICK r \in RequestType :
        req' = [req EXCEPT ![q] = r] /\ r.phase = "try"
  <2> DEFINE a == [req[q] EXCEPT !.phase = "try"]
             b == [a EXCEPT !.todo = o]
             c == [b EXCEPT !.tries = 0]
  <2>1. req' = [req EXCEPT ![q] = c]
    BY <1>1, <1>3 DEF TypeOK
  <2>2. a \in RequestType
    BY <1>1, RequestWith DEF Phases
  <2>3. a.phase = "try"
    BY <1>1 DEF RequestType
  <2> HIDE DEF a
  <2>4. b \in RequestType
    BY <2>2, RequestWith
  <2>5. b.phase = "try"
    BY <2>2, <2>3 DEF RequestType
  <2> HIDE DEF b
  <2>6. c \in RequestType
    BY <2>4, RequestWith, RoutingConstants
  <2>7. c.phase = "try"
    BY <2>4, <2>5 DEF RequestType
  <2> HIDE DEF c
  <2> QED
    BY <2>1, <2>6, <2>7
<1>8. /\ req' \in [Requests -> RequestType] /\ req'[q] = r
      /\ \A x \in Requests \ {q} : req'[x] = req[x]
  BY <1>1, <1>7 DEF TypeOK
<1>9. AttemptsSound'
  BY <1>1, <1>7, <1>8 DEF AttemptsSound, Gated, Holding
<1>10. \A x \in Requests :
        /\ Gated(x)' <=> Gated(x)
        /\ Holding(x)' <=> Holding(x)
        /\ Gated(x) => req'[x].at = req[x].at /\ (req[x].before => req'[x].before)
        /\ req[x].phase = "limited" => req'[x].phase = "limited" /\ req'[x].at = req[x].at
  BY <1>1, <1>7, <1>8 DEF Gated, Holding
<1>11. ASSUME NEW z \in Sessions, aff'[z] # None, Open(health[aff[z]])'
       PROVE  /\ aff'[z] = aff[z] /\ Open(health[aff[z]])
              /\ \A x \in Requests : req[x].phase = "limited" /\ req[x].at = aff[z] =>
                   req'[x].phase = "limited" /\ req'[x].at = aff[z]
  BY <1>4, <1>5, <1>10, <1>11 DEF Open
<1>12. busy' = busy /\ limit' \in [Providers -> Limits]
  BY <1>1, <1>2 DEF TypeOK
<1> QED
  BY <1>4, <1>5, <1>6, <1>8, <1>9, <1>10, <1>11, <1>12, SharedStep

\* The recovery gate lets a request through only as the one probe.
LEMMA TryNextInv == ASSUME RoutingInv, NEW q \in Requests, TryNext(q) PROVE RoutingInv'
<1>1. /\ TypeOK /\ AttemptsSound /\ req[q] \in RequestType /\ Attempting(q)
      /\ req[q].phase = "try" /\ ~req[q].submitted /\ req[q].tries < MaxAttempts
  BY DEF RoutingInv, TypeOK, TryNext, Attempting
<1>2. PICK t \in Targets : t = Head(req[q].todo)
  BY <1>1 DEF Attempting, RequestType
<1>3. Tail(req[q].todo) \in Seq(Targets)
  BY <1>1 DEF Attempting, RequestType
<1>4. PICK h \in HealthType :
        /\ h = Noticed(health[t]) /\ Sound(h) /\ h.probe = health[t].probe
        /\ h.recovering <=> health[t].recovering
        /\ Open(h) <=> Open(health[t])
  BY NoticedAll
<1>5. PICK rest \in RequestType :
        /\ rest = [req[q] EXCEPT !.todo = Tail(req[q].todo)]
        /\ rest.phase = "try" /\ ~rest.submitted /\ rest.tries < MaxAttempts
  <2> DEFINE a == [req[q] EXCEPT !.todo = Tail(req[q].todo)]
  <2>1. a \in RequestType
    BY <1>1, <1>3, RequestWith
  <2>2. a.phase = req[q].phase /\ (a.submitted <=> req[q].submitted) /\ a.tries = req[q].tries
    BY <1>1 DEF RequestType
  <2> QED
    BY <1>1, <2>1, <2>2
<1>6. \A u \in Targets : health[u] \in HealthType /\ Sound(health[u])
  BY DEF RoutingInv, TypeOK, BannedRecovers, Sound
<1>7. UNCHANGED <<busy, limit, aff, foreign>>
  BY DEF TryNext
<1>8. CASE ~MayPass(h)
  <2>1. health' = [health EXCEPT ![t] = h] /\ req' = [req EXCEPT ![q] = rest]
    BY <1>2, <1>4, <1>5, <1>8 DEF TryNext
  <2>2. /\ health' \in [Targets -> HealthType] /\ req' \in [Requests -> RequestType]
        /\ req'[q] = rest /\ \A x \in Requests \ {q} : req'[x] = req[x]
        /\ \A u \in Targets : /\ Sound(health'[u]) /\ health'[u].probe = health[u].probe
                              /\ health'[u].recovering <=> health[u].recovering
                              /\ Open(health'[u]) => Open(health[u])
    BY <1>1, <1>4, <1>6, <2>1 DEF TypeOK
  <2>3. AttemptsSound'
    BY <1>1, <1>5, <2>2 DEF AttemptsSound, Gated, Holding
  <2>4. \A x \in Requests :
          /\ Gated(x)' <=> Gated(x)
          /\ Holding(x)' <=> Holding(x)
          /\ Gated(x) => req'[x].at = req[x].at /\ (req[x].before => req'[x].before)
          /\ req[x].phase = "limited" => req'[x].phase = "limited" /\ req'[x].at = req[x].at
    BY <1>1, <1>5, <2>2 DEF Gated, Holding
  <2>5. ASSUME NEW z \in Sessions, aff'[z] # None, Open(health[aff[z]])'
        PROVE  /\ aff'[z] = aff[z] /\ Open(health[aff[z]])
               /\ \A x \in Requests : req[x].phase = "limited" /\ req[x].at = aff[z] =>
                    req'[x].phase = "limited" /\ req'[x].at = aff[z]
    BY <1>1, <1>7, <2>2, <2>4, <2>5 DEF Open, TypeOK
  <2>6. /\ busy' = busy /\ limit' \in [Providers -> Limits] /\ foreign' \subseteq Sessions
        /\ aff' \in [Sessions -> Targets \cup {None}]
    BY <1>1, <1>7 DEF TypeOK
  <2> QED
    BY <2>2, <2>3, <2>4, <2>5, <2>6, SharedStep
<1>9. CASE MayPass(h)
  <2>1. PICK r \in RequestType :
          /\ r = [rest EXCEPT !.phase = "admit", !.at = t]
          /\ r.phase = "admit" /\ r.at = t /\ ~r.submitted /\ r.tries < MaxAttempts
    <3> DEFINE a == [rest EXCEPT !.phase = "admit"]
               b == [a EXCEPT !.at = t]
    <3>1. a \in RequestType
      BY RequestWith DEF Phases
    <3>2. a.phase = "admit" /\ (a.submitted <=> rest.submitted) /\ a.tries = rest.tries
      BY DEF RequestType
    <3>3. b = [rest EXCEPT !.phase = "admit", !.at = t]
      OBVIOUS
    <3> HIDE DEF a
    <3>4. b \in RequestType
      BY <3>1, RequestWith
    <3>5. b.phase = "admit" /\ b.at = t /\ (b.submitted <=> rest.submitted) /\ b.tries = rest.tries
      BY <3>1, <3>2 DEF RequestType
    <3> HIDE DEF b
    <3> QED
      BY <1>5, <3>3, <3>4, <3>5
  <2>2. PICK g \in HealthType :
          /\ g = IF h.recovering THEN [h EXCEPT !.probe = q] ELSE h
          /\ Sound(g) /\ (g.recovering <=> h.recovering) /\ (Open(g) <=> Open(h))
          /\ h.recovering => g.probe = q
          /\ ~h.recovering => g.probe = health[t].probe
    <3> DEFINE k == [h EXCEPT !.probe = q]
    <3>1. k \in HealthType
      BY HealthWith
    <3>2. k.probe = q /\ (k.recovering <=> h.recovering) /\ k.open = h.open
      BY DEF HealthType
    <3> HIDE DEF k
    <3>3. Sound(k) /\ (Open(k) <=> Open(h))
      BY <1>4, <3>2 DEF Sound, Open
    <3>4. CASE h.recovering
      BY <3>1, <3>2, <3>3, <3>4 DEF k
    <3>5. CASE ~h.recovering
      BY <1>4, <3>5
    <3> QED
      BY <3>4, <3>5
  <2>3. health' = [health EXCEPT ![t] = g] /\ req' = [req EXCEPT ![q] = r]
    BY <1>2, <1>4, <1>5, <1>9, <2>1, <2>2 DEF TryNext
  <2>4. /\ health' \in [Targets -> HealthType] /\ req' \in [Requests -> RequestType]
        /\ req'[q] = r /\ \A x \in Requests \ {q} : req'[x] = req[x]
        /\ health'[t] = g /\ \A u \in Targets \ {t} : health'[u] = health[u]
    BY <1>1, <2>3 DEF TypeOK
  <2>5. TypeOK'
    BY <1>1, <1>7, <2>4 DEF TypeOK
  <2>6. BannedRecovers'
    BY <1>6, <2>2, <2>4 DEF BannedRecovers, Sound
  <2>7. AttemptsSound'
    <3>1. t # None
      BY RoutingConstants
    <3>2. ASSUME NEW x \in Requests \ {q}
          PROVE  /\ (Gated(x) \/ req[x].phase = "orphan" => req[x].at # None)'
                 /\ (req[x].submitted => req[x].phase \in {"choose", "try"})'
                 /\ (req[x].phase = "admit" => req[x].tries < MaxAttempts)'
      <4>1. req'[x] = req[x]
        BY <2>4
      <4> QED
        BY <1>1, <4>1 DEF AttemptsSound, Gated, Holding
    <3>3. /\ req'[q].at # None /\ ~req'[q].submitted /\ req'[q].tries < MaxAttempts
      BY <2>1, <2>4, <3>1
    <3> QED
      BY <3>2, <3>3 DEF AttemptsSound
  <2>8. /\ Gated(q)' /\ ~Gated(q) /\ ~Holding(q) /\ ~Holding(q)'
        /\ \A x \in Requests \ {q} : (Gated(x)' <=> Gated(x)) /\ (Holding(x)' <=> Holding(x))
    BY <1>1, <2>1, <2>4 DEF Gated, Holding
  <2>9. SlotsExact'
    BY <1>7, <2>4, <2>8, SlotsSame DEF RoutingInv
  <2>10. BoundIsUsable'
    <3>1. \A u \in Targets : Open(health'[u]) => Open(health[u])
      BY <1>4, <2>2, <2>4
    <3>2. \A x \in Requests : req[x].phase = "limited" =>
            req'[x].phase = "limited" /\ req'[x].at = req[x].at
      BY <1>1, <2>4
    <3>3. \A z \in Sessions : aff[z] # None => aff[z] \in Targets
      BY <1>1 DEF TypeOK
    <3> QED
      BY <1>7, <3>1, <3>2, <3>3 DEF RoutingInv, BoundIsUsable, Open
  <2>11. ProbeExclusive'
    <3>1. ASSUME NEW u \in Targets, health'[u].recovering, NEW x \in Requests,
                 Gated(x)', req'[x].at = u, ~req'[x].before
          PROVE  health'[u].probe = x
      <4>1. CASE x = q
        <5>1. u = t /\ g.recovering
          BY <2>1, <2>4, <3>1, <4>1
        <5>2. g.probe = q
          BY <2>2, <5>1
        <5> QED
          BY <2>4, <4>1, <5>1, <5>2
      <4>2. CASE x # q
        <5>1. Gated(x) /\ req[x].at = u /\ ~req[x].before
          BY <2>4, <2>8, <3>1, <4>2
        <5>2. u # t
          BY <1>4, <1>9, <2>2, <2>4, <3>1, <5>1, RoutingConstants
             DEF MayPass, RoutingInv, ProbeExclusive
        <5> QED
          BY <2>4, <3>1, <5>1, <5>2 DEF RoutingInv, ProbeExclusive
      <4> QED
        BY <4>1, <4>2
    <3>2. ASSUME NEW u \in Targets, NEW x \in Requests, health'[u].probe = x
          PROVE  Gated(x)' /\ req'[x].at = u
      <4>1. CASE health[u].probe = x
        <5>1. Gated(x) /\ req[x].at = u
          BY <4>1, RoutingConstants DEF RoutingInv, ProbeExclusive
        <5> QED
          BY <2>4, <2>8, <5>1
      <4>2. CASE health[u].probe # x
        <5>1. u = t
          BY <2>4, <3>2, <4>2
        <5>2. g.probe = x
          BY <2>4, <3>2, <5>1
        <5>3. x = q
          BY <2>2, <4>2, <5>1, <5>2
        <5> QED
          BY <2>1, <2>4, <2>8, <5>1, <5>3
      <4> QED
        BY <4>1, <4>2
    <3>3. \A u \in Targets : health'[u].probe # None => health'[u].probe \in Requests
      BY <2>4 DEF HealthType
    <3> QED
      BY <3>1, <3>2, <3>3 DEF ProbeExclusive, Gated, Holding
  <2> QED
    BY <2>5, <2>6, <2>7, <2>9, <2>10, <2>11 DEF RoutingInv
<1> QED
  BY <1>8, <1>9

\* An admission takes one slot and counts it, or gives the probe back.
LEMMA AdmitInv == ASSUME RoutingInv, NEW q \in Requests, Admit(q) PROVE RoutingInv'
<1>1. PICK t \in Targets : t = req[q].at
  BY AttemptTarget DEF Admit, Gated
<1>2. /\ req[q] \in RequestType /\ ~req[q].submitted /\ req[q].phase = "admit"
      /\ req[q].tries < MaxAttempts /\ TypeOK /\ AttemptsSound
      /\ health[t] \in HealthType /\ Sound(health[t]) /\ Gated(q) /\ ~Holding(q)
  BY <1>1, AttemptTarget DEF Admit, Gated, Holding, RoutingInv, AttemptsSound
<1>3. \A u \in Targets : \A x \in Requests : health[u].probe = x => Gated(x) /\ req[x].at = u
  BY RoutingConstants DEF RoutingInv, ProbeExclusive
<1>4. UNCHANGED <<limit, aff, foreign>>
  BY DEF Admit
<1>5. CASE AtCapacity(ProviderOf[t])
  <2>1. PICK r \in RequestType : r = TryOn(req[q]) /\ r.phase = "try"
    BY <1>2, TryOnFacts
  <2>2. PICK g \in HealthType :
          /\ g = Freed(health[t], q) /\ Sound(g)
          /\ g.recovering <=> health[t].recovering
          /\ Open(g) <=> Open(health[t])
          /\ g.probe = IF health[t].probe = q THEN None ELSE health[t].probe
    BY <1>2, FreedFacts
  <2>3. health' = [health EXCEPT ![t] = g] /\ req' = [req EXCEPT ![q] = r] /\ busy' = busy
    BY <1>1, <1>2, <1>5, <2>1, <2>2 DEF Admit, TypeOK
  <2>4. /\ health' \in [Targets -> HealthType] /\ req' \in [Requests -> RequestType]
        /\ req'[q] = r /\ \A x \in Requests \ {q} : req'[x] = req[x]
        /\ health'[t] = g /\ \A u \in Targets \ {t} : health'[u] = health[u]
    BY <1>2, <2>3 DEF TypeOK
  <2>5. TypeOK'
    BY <1>2, <1>4, <2>3, <2>4 DEF TypeOK
  <2>6. BannedRecovers' /\ AttemptsSound'
    BY <1>2, <2>1, <2>2, <2>4 DEF RoutingInv, BannedRecovers, AttemptsSound, Sound, Gated, Holding
  <2>7. /\ ~Gated(q)' /\ ~Holding(q)'
        /\ \A x \in Requests \ {q} : (Gated(x)' <=> Gated(x)) /\ (Holding(x)' <=> Holding(x))
    BY <2>1, <2>4 DEF Gated, Holding
  <2>8. SlotsExact'
    BY <1>2, <2>3, <2>4, <2>7, SlotsSame DEF RoutingInv
  <2>9. BoundIsUsable'
    <3>1. \A u \in Targets : Open(health'[u]) => Open(health[u])
      BY <2>2, <2>4
    <3>2. \A x \in Requests : req[x].phase = "limited" =>
            req'[x].phase = "limited" /\ req'[x].at = req[x].at
      BY <1>2, <2>4
    <3>3. \A z \in Sessions : aff[z] # None => aff[z] \in Targets
      BY <1>2 DEF TypeOK
    <3> QED
      BY <1>4, <3>1, <3>2, <3>3 DEF RoutingInv, BoundIsUsable, Open
  <2>10. ProbeExclusive'
    <3>1. \A x \in Requests : /\ Gated(x)' => Gated(x) /\ req'[x].at = req[x].at
                              /\ req[x].before /\ Gated(x)' => req'[x].before
      BY <2>4, <2>7
    <3>2. \A u \in Targets :
            /\ health'[u].recovering => health[u].recovering
            /\ \A x \in Requests :
                 /\ health'[u].probe = x => health[u].probe = x /\ Gated(x)'
                 /\ health'[u].recovering /\ health[u].probe = x /\ Gated(x)' => health'[u].probe = x
      BY <1>1, <1>3, <2>2, <2>4, <2>7, RoutingConstants
    <3> QED
      BY <2>5, <3>1, <3>2, ProbeKept DEF RoutingInv
  <2> QED
    BY <2>5, <2>6, <2>8, <2>9, <2>10 DEF RoutingInv
<1>6. CASE ~AtCapacity(ProviderOf[t])
  <2>1. PICK r \in RequestType :
          /\ req' = [req EXCEPT ![q] = r] /\ r.phase \in {"sent", "cut"}
          /\ r.at = t /\ ~r.submitted /\ (r.before <=> req[q].before)
    <3> DEFINE v == IF req[q].replaced = {} THEN "sent" ELSE "cut"
               n == req[q].tries + 1
               a == [req[q] EXCEPT !.phase = v]
               b == [a EXCEPT !.tries = n]
    <3>1. req' = [req EXCEPT ![q] = b]
      BY <1>1, <1>2, <1>6 DEF Admit, TypeOK
    <3>2. v \in Phases /\ v \in {"sent", "cut"} /\ n \in 0 .. MaxAttempts
      BY <1>2, RoutingConstants DEF Phases, RequestType
    <3> HIDE DEF v, n
    <3>3. a \in RequestType
      BY <1>2, <3>2, RequestWith
    <3>4. /\ a.phase = v /\ a.at = req[q].at
          /\ (a.submitted <=> req[q].submitted) /\ (a.before <=> req[q].before)
      BY <1>2 DEF RequestType
    <3> HIDE DEF a
    <3>5. b \in RequestType
      BY <3>2, <3>3, RequestWith
    <3>6. /\ b.phase = v /\ b.at = req[q].at
          /\ (b.submitted <=> req[q].submitted) /\ (b.before <=> req[q].before)
      BY <3>3, <3>4 DEF RequestType
    <3> HIDE DEF b
    <3> QED
      BY <1>1, <1>2, <3>1, <3>2, <3>5, <3>6
  <2>2. busy' = [busy EXCEPT ![ProviderOf[t]] = @ + 1] /\ health' = health
    BY <1>1, <1>6 DEF Admit
  <2>3. /\ req' \in [Requests -> RequestType]
        /\ req'[q] = r /\ \A x \in Requests \ {q} : req'[x] = req[x]
    BY <1>2, <2>1 DEF TypeOK
  <2>4. TypeOK'
    <3>1. busy \in [Providers -> Nat] /\ ProviderOf[t] \in Providers
      BY <1>2, RoutingConstants DEF TypeOK
    <3>2. busy' \in [Providers -> Nat]
      BY <2>2, <3>1
    <3> QED
      BY <1>2, <1>4, <2>2, <2>3, <3>2 DEF TypeOK
  <2>5. BannedRecovers' /\ AttemptsSound'
    BY <1>2, <2>1, <2>2, <2>3, RoutingConstants
       DEF RoutingInv, BannedRecovers, AttemptsSound, Gated, Holding
  <2>6. /\ Gated(q)' /\ Holding(q)'
        /\ \A x \in Requests \ {q} : (Gated(x)' <=> Gated(x)) /\ (Holding(x)' <=> Holding(x))
    BY <2>1, <2>3 DEF Gated, Holding
  <2>7. SlotsExact'
    BY <1>2, <2>1, <2>2, <2>3, <2>6, SlotsTaken DEF RoutingInv
  <2>8. ProbeExclusive'
    <3>1. \A x \in Requests : /\ Gated(x)' => Gated(x) /\ req'[x].at = req[x].at
                              /\ req[x].before /\ Gated(x)' => req'[x].before
      BY <1>1, <1>2, <2>1, <2>3, <2>6
    <3>2. \A x \in Requests : Gated(x) => Gated(x)'
      BY <2>6
    <3> QED
      BY <1>2, <1>3, <2>2, <2>4, <3>1, <3>2, ProbeKept DEF RoutingInv
  <2>9. BoundIsUsable'
    <3>1. \A x \in Requests : req[x].phase = "limited" =>
            req'[x].phase = "limited" /\ req'[x].at = req[x].at
      BY <1>2, <2>3
    <3> QED
      BY <1>4, <2>2, <3>1 DEF RoutingInv, BoundIsUsable, Open
  <2> QED
    BY <2>4, <2>5, <2>7, <2>8, <2>9 DEF RoutingInv
<1> QED
  BY <1>5, <1>6

-----------------------------------------------------------------------------
(* The theorems *)

\* The invariant holds when the proxy starts.
LEMMA InitInv == Init => RoutingInv
<1> SUFFICES ASSUME Init PROVE RoutingInv
  OBVIOUS
<1>1. Healthy \in HealthType /\ Healthy.open = -1 /\ Healthy.probe = None /\ ~Healthy.recovering
  BY RoutingConstants DEF Healthy, HealthType, RECOVERY_SUCCESS_THRESHOLD
<1>2. /\ NoRequest \in RequestType /\ NoRequest.phase = "idle" /\ ~NoRequest.submitted
  BY NoRequestType DEF NoRequest
<1>3. /\ \A t \in Targets : health[t] = Healthy
      /\ \A q \in Requests : req[q] = NoRequest
      /\ \A s \in Sessions : aff[s] = None
  BY DEF Init
<1>4. TypeOK
  BY <1>1, <1>2 DEF Init, TypeOK
<1>5. \A q \in Requests : ~Holding(q) /\ ~Gated(q)
  BY <1>2, <1>3 DEF Holding, Gated
<1>6. BannedRecovers /\ AttemptsSound /\ ProbeExclusive /\ BoundIsUsable
  BY <1>1, <1>2, <1>3, <1>5 DEF BannedRecovers, AttemptsSound, ProbeExclusive, BoundIsUsable
<1>7. SlotsExact
  <2>1. \A p \in Providers : Holders(p) = {}
    BY <1>5 DEF Holders
  <2> QED
    BY <2>1, FS_EmptySet DEF SlotsExact, Init
<1> QED
  BY <1>4, <1>6, <1>7 DEF RoutingInv

\* Every step preserves it.
LEMMA NextInv == RoutingInv /\ [Next]_vars => RoutingInv'
<1> SUFFICES ASSUME RoutingInv, [Next]_vars PROVE RoutingInv'
  OBVIOUS
<1>1. ASSUME NEW q \in Requests, Serve(q) PROVE RoutingInv'
  BY <1>1, ChooseInv, TryNextInv, AdmitInv, RoundEndsInv, RejectedInv, UnbindsInv, CompletesInv,
     CommitsInv, StreamStoppedInv, OrphanEndsInv, DroppedInv DEF Serve
<1>2. ASSUME NEW q \in Requests,
             \/ Arrive(q) \/ HoldExpires(q) \/ Fails(q) \/ Throttled(q)
             \/ StreamFails(q) \/ Drained(q) \/ Dropped(q)
      PROVE  RoutingInv'
  BY <1>2, ArriveInv, HoldExpiresInv, FailsInv, ThrottledInv, StreamFailsInv, DrainedInv, DroppedInv
<1>3. CASE UNCHANGED vars
  BY <1>3 DEF vars, RoutingInv, TypeOK, BannedRecovers, AttemptsSound, ProbeExclusive,
              SlotsExact, BoundIsUsable, Gated, Holding, Holders, Open
<1> QED
  BY <1>1, <1>2, <1>3, ReplaceAccountInv, SetLimitInv, ExpireInv, TickInv DEF Next

\* The routing invariant: the state shared by concurrent requests (health,
\* occupancy, bindings) is consistent with what each of them is doing, for
\* any number of targets, providers, sessions and requests.
THEOREM RoutingInvariant == Spec => []RoutingInv
<1>1. Init => RoutingInv
  BY InitInv
<1>2. RoutingInv /\ [Next]_vars => RoutingInv'
  BY NextInv
<1> QED
  BY <1>1, <1>2, PTL DEF Spec

\* RecoveryPermit: a recovering target is probed by one request at a time,
\* and no probe outlives its request.
THEOREM ProbeIsExclusive == Spec => []ProbeExclusive
<1>1. RoutingInv => ProbeExclusive
  BY DEF RoutingInv
<1> QED
  BY <1>1, RoutingInvariant, PTL

\* ProviderPermit: a provider's occupancy is the number of its requests under
\* way; no way of ending a request leaks a slot.
THEOREM SlotsAreExact == Spec => []SlotsExact
<1>1. RoutingInv => SlotsExact
  BY DEF RoutingInv
<1> QED
  BY <1>1, RoutingInvariant, PTL

\* Affinity: a session is bound to a banned target only while the request
\* throttled there is about to unbind it.
THEOREM BoundTargetsUsable == Spec => []BoundIsUsable
<1>1. RoutingInv => BoundIsUsable
  BY DEF RoutingInv
<1> QED
  BY <1>1, RoutingInvariant, PTL

\* What every step but an admission does to request x: it takes no slot, and
\* after an ambiguous attempt it sends nothing.
Follows(x) ==
  /\ Holding(x)' => Holding(x) /\ req'[x].at = req[x].at
  /\ req[x].submitted =>
       \/ req'[x].phase = "idle"
       \/ req'[x].phase \in {"choose", "try"} /\ req'[x].submitted

\* Nothing happens to a request without a step of its own.
LEMMA OthersFollow ==
  ASSUME RoutingInv, NEW q \in Requests, NEW x \in Requests \ {q},
         \/ req'[x] = req[x]
         \/ /\ req'[x].phase = req[x].phase /\ req'[x].at = req[x].at
            /\ req'[x].submitted <=> req[x].submitted
  PROVE  Follows(x)
  BY DEF RoutingInv, AttemptsSound, Follows, Holding

\* Steps of a request that fail no target.
LEMMA ServeFollows ==
  ASSUME RoutingInv, NEW q \in Requests, NEW x \in Requests,
         \/ Arrive(q) \/ Choose(q) \/ TryNext(q) \/ RoundEnds(q) \/ HoldExpires(q)
         \/ Rejected(q) \/ Unbinds(q) \/ Commits(q) \/ Completes(q) \/ StreamSucceeds(q)
         \/ StreamStopped(q) \/ Drained(q) \/ Dropped(q)
  PROVE  Follows(x)
<1>1. TypeOK /\ AttemptsSound /\ req \in [Requests -> RequestType] /\ req[q] \in RequestType
  BY DEF RoutingInv, TypeOK
<1>2. CASE x # q
  <2>1. req'[x] = req[x]
    BY <1>1, <1>2 DEF Arrive, Choose, TryNext, RoundEnds, HoldExpires, Rejected, Unbinds, Commits,
              Completes, StreamSucceeds, StreamStopped, Drained, Dropped
  <2> QED
    BY <1>2, <2>1, OthersFollow
<1>3. CASE x = q
  <2>1. NoRequest.phase = "idle" /\ TryOn(req[q]).phase = "try"
    BY <1>1, TryOnFacts DEF NoRequest
  <2>2. CASE Arrive(q)
    <3>1. req'[q].phase = "choose" /\ req[q].phase = "idle"
      BY <1>1, <2>2 DEF Arrive, NoRequest
    <3> QED
      BY <1>1, <1>3, <3>1 DEF AttemptsSound, Follows, Holding
  <2>3. CASE Choose(q)
    <3>1. PICK o : req' = [req EXCEPT ![q].phase = "try", ![q].todo = o, ![q].tries = 0]
      BY <2>3 DEF Choose
    <3>2. req'[q].phase = "try" /\ (req'[q].submitted <=> req[q].submitted)
      BY <1>1, <3>1 DEF RequestType
    <3> QED
      BY <1>3, <3>2 DEF Follows, Holding
  <2>4. CASE TryNext(q)
    <3>1. req'[q].phase \in {"try", "admit"} /\ ~req[q].submitted
      BY <1>1, <2>4 DEF TryNext, Attempting, RequestType
    <3> QED
      BY <1>3, <3>1 DEF Follows, Holding
  <2>5. CASE RoundEnds(q)
    BY <1>1, <1>3, <2>1, <2>5 DEF RoundEnds, RequestType, Follows, Holding
  <2>6. CASE HoldExpires(q) \/ Dropped(q)
    BY <1>1, <1>3, <2>1, <2>6 DEF HoldExpires, Dropped, Follows, Holding
  <2>7. CASE Rejected(q) \/ Unbinds(q)
    BY <1>1, <1>3, <2>1, <2>7 DEF Rejected, Unbinds, AttemptsSound, Follows, Holding
  <2>8. CASE Commits(q) \/ Completes(q) \/ StreamSucceeds(q) \/ StreamStopped(q)
    BY <1>1, <1>3, <2>8 DEF Commits, Completes, StreamSucceeds, StreamStopped, RequestType,
              AttemptsSound, Follows, Holding
  <2>9. CASE Drained(q)
    BY <1>1, <1>3, <2>1, <2>9 DEF Drained, RequestType, AttemptsSound, Follows, Holding
  <2> QED
    BY <2>2, <2>3, <2>4, <2>5, <2>6, <2>7, <2>8, <2>9
<1> QED
  BY <1>2, <1>3

\* Steps of a request that fail its target.
LEMMA FailureFollows ==
  ASSUME RoutingInv, NEW q \in Requests, NEW x \in Requests,
         Fails(q) \/ StreamFails(q) \/ Throttled(q) \/ OrphanEnds(q)
  PROVE  Follows(x)
<1>1. PICK t \in Targets : t = req[q].at
  BY AttemptTarget DEF Fails, StreamFails, Throttled, OrphanEnds, Gated, Holding
<1>2. TypeOK /\ AttemptsSound /\ req \in [Requests -> RequestType] /\ ~req[q].submitted
  BY DEF RoutingInv, TypeOK, AttemptsSound, Fails, StreamFails, Throttled, OrphanEnds
<1>3. PICK o \in [Requests -> RequestType] :
        /\ o = Outdated(t)
        /\ \A z \in Requests :
             /\ o[z].phase = req[z].phase /\ o[z].at = req[z].at
             /\ o[z].submitted <=> req[z].submitted
  BY <1>2, OutdatedFacts
<1>4. CASE x # q
  <2>1. req'[x] = req[x] \/ req'[x] = o[x]
    BY <1>1, <1>2, <1>3, <1>4 DEF Fails, StreamFails, Throttled, OrphanEnds, mark_failure
  <2> QED
    BY <1>3, <1>4, <2>1, OthersFollow
<1>5. CASE x = q
  <2>1. TryOn(req[q]) \in RequestType /\ TryOn(req[q]).phase = "try" /\ NoRequest.phase = "idle"
    BY <1>2, TryOnFacts DEF NoRequest
  <2>2. CASE Fails(q)
    <3>1. req'[q].phase = "try"
      BY <1>1, <1>3, <2>1, <2>2 DEF Fails, mark_failure, RequestType
    <3> QED
      BY <1>2, <1>5, <3>1 DEF Follows, Holding
  <2>3. CASE StreamFails(q)
    <3>1. req'[q] = [o[q] EXCEPT !.phase = "drain"] /\ Holding(q)
      BY <1>1, <1>3, <2>3 DEF StreamFails, mark_failure, Holding
    <3>2. req'[q].at = req[q].at
      BY <1>3, <3>1 DEF RequestType
    <3> QED
      BY <1>2, <1>5, <3>1, <3>2 DEF Follows
  <2>4. CASE Throttled(q)
    <3>1. req'[q] = [o[q] EXCEPT !.phase = "limited"] /\ Holding(q)
      BY <1>1, <1>3, <2>4 DEF Throttled, Holding
    <3>2. req'[q].at = req[q].at
      BY <1>3, <3>1 DEF RequestType
    <3> QED
      BY <1>2, <1>5, <3>1, <3>2 DEF Follows
  <2>5. CASE OrphanEnds(q)
    <3>1. req'[q] = NoRequest
      BY <1>1, <1>2, <1>3, <2>5 DEF OrphanEnds, mark_failure
    <3> QED
      BY <1>5, <2>1, <3>1 DEF Follows, Holding
  <2> QED
    BY <2>2, <2>3, <2>4, <2>5
<1> QED
  BY <1>4, <1>5

\* Steps of the user and of time.
LEMMA UserFollows ==
  ASSUME RoutingInv, NEW x \in Requests,
         \/ \E t \in Replaceable : ReplaceAccount(t)
         \/ \E p \in Providers : SetLimit(p)
         \/ \E s \in Sessions : Expire(s)
         \/ Tick
         \/ UNCHANGED vars
  PROVE  Follows(x)
<1>1. req[x] \in RequestType /\ (req[x].submitted => req[x].phase \in {"choose", "try"})
  BY DEF RoutingInv, TypeOK, AttemptsSound
<1>2. /\ req'[x].phase = req[x].phase /\ req'[x].at = req[x].at
      /\ req'[x].submitted <=> req[x].submitted
  <2>1. CASE req' = req
    BY <2>1
  <2>2. CASE \E t \in Replaceable : ReplaceAccount(t)
    BY <2>2, ReplacedFacts, RoutingConstants DEF RoutingInv
  <2> QED
    BY <2>1, <2>2 DEF SetLimit, Expire, Tick, vars
<1> QED
  BY <1>1, <1>2 DEF Follows, Holding

\* Only an admission takes a slot or sends.
LEMMA AllFollow ==
  ASSUME RoutingInv, [Next]_vars, \A q \in Requests : ~Admit(q), NEW x \in Requests
  PROVE  Follows(x)
  BY ServeFollows, FailureFollows, UserFollows DEF Next, Serve

\* An admission sends a request that has no ambiguous attempt behind it, and
\* takes the slot only below the limit.
LEMMA AdmitTakes ==
  ASSUME RoutingInv, NEW q \in Requests, Admit(q)
  PROVE  /\ \A x \in Requests \ {q} : Follows(x)
         /\ ~req[q].submitted
         /\ \A p \in Providers :
              \/ Holders(p)' \subseteq Holders(p)
              \/ /\ Holders(p)' = Holders(p) \cup {q} /\ q \notin Holders(p)
                 /\ limit[p] # 0 => busy[p] < limit[p]
<1>1. /\ TypeOK /\ req \in [Requests -> RequestType] /\ ~req[q].submitted
      /\ req[q].phase = "admit"
  BY DEF RoutingInv, TypeOK, AttemptsSound, Admit
<1>2. PICK t \in Targets : t = req[q].at
  BY AttemptTarget DEF Admit, Gated
<1>3. \A x \in Requests \ {q} : req'[x] = req[x]
  BY <1>1 DEF Admit
<1>4. /\ \A x \in Requests \ {q} : Follows(x)
      /\ \A x \in Requests \ {q} : Holding(x)' <=> Holding(x)
  BY <1>3, OthersFollow DEF Holding
<1>5. ~Holding(q)
  BY <1>1 DEF Holding
<1>6. CASE AtCapacity(ProviderOf[t])
  <2>1. req'[q].phase = "try"
    BY <1>1, <1>2, <1>6, TryOnFacts DEF Admit
  <2>2. \A p \in Providers : Holders(p)' \subseteq Holders(p)
    <3>1. ~Holding(q)'
      BY <2>1 DEF Holding
    <3> QED
      BY <1>3, <1>4, <3>1 DEF Holders
  <2> QED
    BY <1>1, <1>4, <2>2
<1>7. CASE ~AtCapacity(ProviderOf[t])
  <2>1. PICK v \in {"sent", "cut"} :
          req' = [req EXCEPT ![q].phase = v, ![q].tries = @ + 1]
    BY <1>2, <1>7 DEF Admit
  <2>2. req'[q].at = t
    BY <1>1, <1>2, <2>1 DEF RequestType
  <2>3. ASSUME NEW p \in Providers, p # ProviderOf[t]
        PROVE  Holders(p)' \subseteq Holders(p)
    BY <1>3, <1>4, <2>2, <2>3 DEF Holders
  <2>4. PICK p \in Providers : p = ProviderOf[t]
    BY RoutingConstants
  <2>5. req'[q].phase = v
    BY <1>1, <2>1 DEF RequestType
  <2>6. Holding(q)'
    BY <2>5 DEF Holding
  <2>7. Holders(p)' = Holders(p) \cup {q} /\ q \notin Holders(p)
    BY <1>3, <1>4, <1>5, <2>2, <2>4, <2>6 DEF Holders
  <2>8. limit[p] # 0 => busy[p] < limit[p]
    <3>1. busy[p] \in Nat /\ limit[p] \in Nat
      BY <1>1, RoutingConstants DEF TypeOK
    <3> QED
      BY <1>7, <2>4, <3>1 DEF AtCapacity
  <2> QED
    BY <1>1, <1>4, <2>3, <2>4, <2>7, <2>8
<1> QED
  BY <1>6, <1>7

\* Concurrency limits: an admission never takes a provider beyond the limit
\* then in force, however the limit changes and requests end.
THEOREM LimitAlwaysHolds == Spec => LimitHolds
<1>1. ASSUME RoutingInv, [Next]_vars
      PROVE  [\A p \in Providers :
                Cardinality(Holders(p)') > Cardinality(Holders(p)) /\ limit[p] # 0
                  => Cardinality(Holders(p)') <= limit[p]]_vars
  <2> SUFFICES ASSUME NEW p \in Providers,
                      Cardinality(Holders(p)') > Cardinality(Holders(p)), limit[p] # 0
               PROVE  Cardinality(Holders(p)') <= limit[p]
    OBVIOUS
  <2>1. IsFiniteSet(Holders(p)) /\ busy[p] = Cardinality(Holders(p)) /\ busy[p] \in Nat
    BY <1>1, FS_Subset, RoutingConstants DEF RoutingInv, TypeOK, SlotsExact, Holders
  <2>2. limit[p] \in Nat
    BY <1>1, RoutingConstants DEF RoutingInv, TypeOK
  <2>3. ~(Holders(p)' \subseteq Holders(p))
    BY <2>1, FS_Subset, FS_CardinalityType
  <2>4. PICK q \in Requests : Admit(q)
    <3>1. CASE \A q \in Requests : ~Admit(q)
      <4>1. \A x \in Requests : Follows(x)
        BY <1>1, <3>1, AllFollow
      <4> QED
        BY <2>3, <4>1 DEF Follows, Holders
    <3> QED
      BY <3>1
  <2>5. /\ Holders(p)' = Holders(p) \cup {q} /\ q \notin Holders(p)
        /\ busy[p] < limit[p]
    BY <1>1, <2>3, <2>4, AdmitTakes
  <2>6. Cardinality(Holders(p)') = Cardinality(Holders(p)) + 1
    BY <2>1, <2>5, FS_AddElement
  <2> QED
    BY <2>1, <2>2, <2>5, <2>6
<1> QED
  BY <1>1, RoutingInvariant, PTL DEF Spec, LimitHolds

\* generation_submitted: after an attempt whose answer may have been
\* generated, the request is never sent to any target again.
THEOREM NothingReplayed == Spec => NeverReplayed
<1>1. ASSUME RoutingInv, [Next]_vars
      PROVE  [\A q \in Requests :
                req[q].submitted =>
                  \/ req'[q].phase = "idle"
                  \/ req'[q].phase \in {"choose", "try"} /\ req'[q].submitted]_vars
  <2>1. CASE \A q \in Requests : ~Admit(q)
    BY <1>1, <2>1, AllFollow DEF Follows
  <2>2. ASSUME NEW q \in Requests, Admit(q), NEW x \in Requests, req[x].submitted
        PROVE  \/ req'[x].phase = "idle"
               \/ req'[x].phase \in {"choose", "try"} /\ req'[x].submitted
    <3>1. ~req[q].submitted /\ \A z \in Requests \ {q} : Follows(z)
      BY <1>1, <2>2, AdmitTakes
    <3> QED
      BY <2>2, <3>1 DEF Follows
  <2> QED
    BY <2>1, <2>2
<1> QED
  BY <1>1, RoutingInvariant, PTL DEF Spec, NeverReplayed
=============================================================================
