---------------------------- MODULE WsBridgeProofs ----------------------------
(***************************************************************************)
(* Proofs about WsBridge, for every set of lanes and targets, every limit  *)
(* and every number of requests: the inductive invariant BridgeInv, and    *)
(* the properties that follow from it.                                     *)
(***************************************************************************)
EXTENDS WsBridge, FiniteSetTheorems, TLAPS

\* Provider state lies at the target a history is bound to, and what is bound
\* to a target came from there.
Tied(h, bound, origin) ==
  IF bound = None THEN h.state = {} ELSE h.state \subseteq {bound} /\ origin = bound

CacheTied ==
  \A l \in Lanes : cache[l] # None => Tied(cache[l], cache[l].bound, cache[l].origin)

TiedRun(t) ==
  /\ Tied(t.history, t.bound, t.origin)
  /\ t.to # None /\ t.bound # None => t.to = t.bound
  /\ t.result # None /\ t.result.cached # None =>
       /\ Tied(t.result.cached, t.result.cached.bound, t.result.cached.origin)
       /\ t.result.known.state = t.result.cached.state

RunTied == \A q \in Requests : run[q] # None => TiedRun(run[q])

\* Repeated input may go where the response kept in its lane came from; its
\* lane does not move on before it is prepared.
Anchored ==
  \A i \in DOMAIN queue :
    /\ queue[i].prev # None => queue[i].input.state = {}
    /\ queue[i].input.state # {} =>
         /\ cache[queue[i].lane] # None =>
              queue[i].input.state \subseteq {cache[queue[i].lane].origin}
         /\ \A q \in Requests : run[q] # None => run[q].lane # queue[i].lane
         /\ \A j \in 1 .. i - 1 : queue[j].lane # queue[i].lane

\* The response kept in a lane, if there is one, is the client's latest there.
ViewSound ==
  \A l \in Lanes : view[l] # None =>
    /\ known[view[l]] # None
    /\ cache[l] # None => known[view[l]].state \subseteq {cache[l].origin}

\* Nothing is known of a request before it is answered.
Unknown ==
  /\ \A q \in Requests : q > sent \/ run[q] # None => known[q] = None
  /\ \A i \in DOMAIN queue : known[queue[i].id] = None

\* The queue is in the order of arrival, and what runs left it before.
Ordered ==
  /\ \A i \in DOMAIN queue : queue[i].id <= sent
  /\ \A i, j \in DOMAIN queue : i < j => queue[i].id < queue[j].id
  /\ \A q \in Requests : run[q] # None =>
       /\ q <= sent /\ run[q].lane \in active
       /\ \A p \in Requests : run[p] # None /\ run[p].lane = run[q].lane => p = q
       /\ \A i \in DOMAIN queue :
            /\ queue[i].id # q
            /\ queue[i].lane = run[q].lane => q < queue[i].id

\* The channel holds results of requests that still occupy their lane.
Channel ==
  \A i \in DOMAIN outbox :
    /\ run[outbox[i]] # None /\ run[outbox[i]].result # None
    /\ \A j \in DOMAIN outbox : i # j => outbox[i] # outbox[j]

\* The answers of a lane are the first of what it accepted.
InTurn ==
  \A l \in Lanes :
    /\ \A i \in DOMAIN accepted[l] : accepted[l][i] <= sent
    /\ \A i, j \in DOMAIN accepted[l] : i < j => accepted[l][i] < accepted[l][j]
    /\ Len(answered[l]) <= Len(accepted[l])
    /\ \A i \in DOMAIN answered[l] : answered[l][i] = accepted[l][i]

\* A request is accepted and not yet answered.
Awaited(l, q) ==
  \E i \in DOMAIN accepted[l] : i > Len(answered[l]) /\ accepted[l][i] = q

\* A request waits in the queue or occupies its lane.
Held(l, q) ==
  \/ run[q] # None /\ run[q].lane = l
  \/ \E i \in DOMAIN queue : queue[i].id = q /\ queue[i].lane = l

Accounted == \A l \in Lanes, q \in Requests : Awaited(l, q) <=> Held(l, q)

\* What holds as long as the connection does; no step is left to take then.
Live == Anchored /\ ViewSound /\ Unknown /\ Ordered /\ Channel /\ Accounted

BridgeInv == TypeOK /\ CacheTied /\ RunTied /\ InTurn /\ (open => Live)

-----------------------------------------------------------------------------
(* Sequences *)

\* What is left of a sequence after RemoveAt.
LEMMA Removed ==
  ASSUME NEW S, NEW s \in Seq(S), NEW i \in DOMAIN s
  PROVE  /\ RemoveAt(s, i) \in Seq(S)
         /\ Len(RemoveAt(s, i)) = Len(s) - 1
         /\ \A j \in 1 .. Len(s) - 1 :
              RemoveAt(s, i)[j] = IF j < i THEN s[j] ELSE s[j + 1]
<1> DEFINE a == SubSeq(s, 1, i - 1)
           b == SubSeq(s, i + 1, Len(s))
<1>1. i \in 1 .. Len(s) /\ Len(s) \in Nat
  OBVIOUS
<1>2. a \in Seq(S) /\ Len(a) = i - 1 /\ \A j \in 1 .. i - 1 : a[j] = s[j]
  BY <1>1
<1>3. b \in Seq(S) /\ Len(b) = Len(s) - i /\ \A j \in 1 .. Len(s) - i : b[j] = s[i + j]
  BY <1>1
<1> HIDE DEF a, b
<1>4. RemoveAt(s, i) = a \o b
  BY DEF RemoveAt, a, b
<1>5. a \o b \in Seq(S) /\ Len(a \o b) = Len(s) - 1
  BY <1>1, <1>2, <1>3
<1>6. ASSUME NEW j \in 1 .. Len(s) - 1
      PROVE  (a \o b)[j] = IF j < i THEN s[j] ELSE s[j + 1]
  <2>1. CASE j < i
    BY <1>1, <1>2, <1>3, <1>6, <2>1
  <2>2. CASE ~(j < i)
    <3>1. j - (i - 1) \in 1 .. Len(s) - i /\ (a \o b)[j] = b[j - (i - 1)]
      BY <1>1, <1>2, <1>3, <1>6, <2>2
    <3>2. i + (j - (i - 1)) = j + 1
      BY <1>1, <1>6
    <3> QED
      BY <1>3, <2>2, <3>1, <3>2
  <2> QED
    BY <2>1, <2>2
<1> QED
  BY <1>4, <1>5, <1>6

\* The elements that stay, and where they were.
LEMMA Stay ==
  ASSUME NEW S, NEW s \in Seq(S), NEW i \in DOMAIN s
  PROVE  /\ \A j \in DOMAIN RemoveAt(s, i) : \E k \in DOMAIN s :
              /\ k # i /\ RemoveAt(s, i)[j] = s[k]
              /\ k = IF j < i THEN j ELSE j + 1
         /\ \A k \in DOMAIN s : k # i => \E j \in DOMAIN RemoveAt(s, i) :
              RemoveAt(s, i)[j] = s[k]
<1>1. i \in 1 .. Len(s) /\ Len(s) \in Nat
  OBVIOUS
<1>2. DOMAIN RemoveAt(s, i) = 1 .. Len(s) - 1
  BY <1>1, Removed
<1>3. ASSUME NEW j \in 1 .. Len(s) - 1
      PROVE  \E k \in DOMAIN s :
               k # i /\ RemoveAt(s, i)[j] = s[k] /\ k = IF j < i THEN j ELSE j + 1
  <2> DEFINE k == IF j < i THEN j ELSE j + 1
  <2>1. k \in DOMAIN s /\ k # i
    BY <1>1
  <2> QED
    BY <2>1, Removed
<1>4. ASSUME NEW k \in DOMAIN s, k # i
      PROVE  \E j \in 1 .. Len(s) - 1 : RemoveAt(s, i)[j] = s[k]
  <2> DEFINE j == IF k < i THEN k ELSE k - 1
  <2>1. j \in 1 .. Len(s) - 1 /\ k = IF j < i THEN j ELSE j + 1
    BY <1>1, <1>4
  <2> QED
    BY <2>1, Removed
<1> QED
  BY <1>2, <1>3, <1>4

\* IsPrefix, element by element.
LEMMA PrefixByElement ==
  ASSUME NEW S, NEW s \in Seq(S), NEW t \in Seq(S),
         Len(s) <= Len(t), \A i \in DOMAIN s : s[i] = t[i]
  PROVE  IsPrefix(s, t)
<1>1. Len(s) \in Nat /\ Len(t) \in Nat /\ DOMAIN s = 1 .. Len(s)
  OBVIOUS
<1>2. SubSeq(s, 1, Len(s)) = [i \in 1 .. Len(s) |-> s[i]]
  BY <1>1
<1>3. SubSeq(t, 1, Len(s)) = [i \in 1 .. Len(s) |-> t[i]]
  BY <1>1
<1> QED
  BY <1>1, <1>2, <1>3 DEF IsPrefix

-----------------------------------------------------------------------------
(* Types *)

\* The parent of a continuation is a response in the cache.
LEMMA ParentCached ==
  ASSUME NEW prev, Parents(prev) # {}
  PROVE  \E l \in Lanes : cache[l] # None /\ Parent(prev) = cache[l]
<1>1. PICK l \in Parents(prev) : l = CHOOSE m \in Parents(prev) : TRUE
  OBVIOUS
<1> QED
  BY <1>1 DEF Parent, Parents

\* What prepare computes from a request it accepts.
LEMMA PreparedTypes ==
  ASSUME TypeOK, NEW r \in Request, Prepares(r)
  PROVE  /\ History(r) \in Histories
         /\ Bound(r) \in Targets \cup {None} /\ Origin(r) \in Targets \cup {None}
<1>1. CASE r.prev = None
  <2>1. GivenBound(r) = None /\ GivenOrigin(r) = None /\ History(r) = r.input
    BY <1>1 DEF GivenBound, GivenOrigin, History
  <2>2. Origin(r) \in Targets \cup {None}
    BY <2>1 DEF Origin, TypeOK, Request, Cached
  <2> QED
    BY <2>1, <2>2 DEF Bound, Request
<1>2. CASE r.prev # None
  <2>1. PICK l \in Lanes : cache[l] # None /\ Parent(r.prev) = cache[l]
    BY <1>2, ParentCached DEF Prepares
  <2>2. cache[l] \in Cached
    BY <2>1 DEF TypeOK
  <2>3. History(r) \in Histories
    BY <1>2, <2>1, <2>2 DEF History, Extended, Histories, Request, Cached
  <2>4. GivenBound(r) \in Targets \cup {None} /\ GivenOrigin(r) \in Targets \cup {None}
    BY <1>2, <2>1, <2>2 DEF GivenBound, GivenOrigin, Cached
  <2>5. Origin(r) \in Targets \cup {None}
    BY <2>4 DEF Origin, TypeOK, Request, Cached
  <2> QED
    BY <2>3, <2>4, <2>5 DEF Bound
<1> QED
  BY <1>1, <1>2

\* The cache after a failure or a response is a cache.
LEMMA CacheTypes ==
  ASSUME TypeOK, NEW l \in Lanes
  PROVE  /\ \A prev : failed(l, prev) \in [Lanes -> Cached \cup {None}]
         /\ \A c \in Cached \cup {None} : remember(l, c) \in [Lanes -> Cached \cup {None}]
  BY DEF TypeOK, failed, remember

\* A terminal event changes the client's side only.
LEMMA AnswerTypes ==
  ASSUME TypeOK, NEW l \in Lanes, NEW q \in Requests, NEW result \in Terminal,
         Answer(l, q, result)
  PROVE  /\ answered' \in [Lanes -> Seq(Requests)]
         /\ known' \in [Requests -> Terminal \cup {None}]
         /\ view' \in [Lanes -> Requests \cup {None}]
         /\ sent' = sent
<1>1. Append(answered[l], q) \in Seq(Requests)
  BY DEF TypeOK
<1> QED
  BY <1>1 DEF TypeOK, Answer

\* A future ends with a result of its kind.
LEMMA FinishedTypes ==
  ASSUME TypeOK, NEW q \in Requests, Running(q), NEW result \in Terminal,
         NEW c \in Cached \cup {None}, Finished(q, result, c)
  PROVE  /\ run' \in [Requests -> Run \cup {None}]
         /\ outbox' \in Seq(Requests)
         /\ run'[q] = [run[q] EXCEPT !.result = [known |-> result, cached |-> c]]
         /\ run'[q] \in Run
         /\ \A x \in Requests \ {q} : run'[x] = run[x]
<1> DEFINE d == [known |-> result, cached |-> c]
<1>1. run[q] \in Run
  BY DEF TypeOK, Running
<1>2. d \in Result
  BY DEF Result
<1>3. run' = [run EXCEPT ![q].result = d]
  BY DEF Finished
<1> HIDE DEF d
<1>4. [run[q] EXCEPT !.result = d] \in Run
  BY <1>1, <1>2 DEF Run
<1>5. run'[q] = [run[q] EXCEPT !.result = d] /\ \A x \in Requests \ {q} : run'[x] = run[x]
  BY <1>3 DEF TypeOK
<1>6. run' = [run EXCEPT ![q] = [run[q] EXCEPT !.result = d]]
  BY <1>3
<1> QED
  BY <1>4, <1>5, <1>6 DEF TypeOK, Finished, d

\* What cache() keeps of a history is tied as the history is.
LEMMA KeptTied ==
  ASSUME NEW q \in Requests, NEW h \in Histories,
         NEW bound \in Targets \cup {None}, NEW origin \in Targets \cup {None},
         Tied(h, bound, origin)
  PROVE  /\ Kept(q, h, bound, origin) \in Cached \cup {None}
         /\ Completed(h) \in Terminal
         /\ Kept(q, h, bound, origin) # None =>
              LET c == Kept(q, h, bound, origin) IN
                Tied(c, c.bound, c.origin) /\ Completed(h).state = c.state
<1> DEFINE c == [id |-> q, size |-> h.size, state |-> h.state, bound |-> bound, origin |-> origin]
<1>1. h.size \in Nat /\ h.state \subseteq Targets
  BY DEF Histories
<1>2. ~(h.size > MaxBytes) => c \in Cached
  BY <1>1, BridgeConstants DEF Cached
<1>3. Kept(q, h, bound, origin) = IF h.size > MaxBytes THEN None ELSE c
  BY DEF Kept
<1>4. Completed(h) \in Terminal /\ Completed(h).state = h.state
  BY <1>1 DEF Completed, Terminal
<1>5. Tied(c, c.bound, c.origin) /\ c.state = h.state
  BY DEF Tied
<1> HIDE DEF c
<1> QED
  BY <1>2, <1>3, <1>4, <1>5

\* run_response: however a future ends, its result is tied to its origin.
LEMMA Endings ==
  ASSUME TypeOK, RunTied, NEW q \in Requests, WarmUp(q) \/ Complete(q) \/ Fail(q)
  PROVE  /\ Running(q)
         /\ UNCHANGED <<open, changed, session, accepted, answered, client>>
         /\ \E result \in Terminal, c \in Cached \cup {None} :
              /\ Finished(q, result, c)
              /\ c # None => Tied(c, c.bound, c.origin) /\ result.state = c.state
<1> DEFINE t == run[q]
<1>1. Running(q) /\ UNCHANGED <<open, changed, session, accepted, answered, client>>
  BY DEF WarmUp, Complete, Fail
<1>2. t \in Run /\ t # None /\ t.history \in Histories
      /\ t.bound \in Targets \cup {None} /\ t.origin \in Targets \cup {None}
      /\ t.to \in Targets \cup {None}
  BY <1>1 DEF Running, TypeOK, Run
<1>3. /\ Tied(t.history, t.bound, t.origin)
      /\ t.to # None /\ t.bound # None => t.to = t.bound
  BY <1>2 DEF RunTied, TiedRun
<1>4. CASE WarmUp(q)
  <2> DEFINE c == Kept(q, t.history, t.bound, t.origin)
             result == Completed(t.history)
  <2>1. Finished(q, result, c)
    BY <1>4 DEF WarmUp
  <2>2. /\ result \in Terminal /\ c \in Cached \cup {None}
        /\ c # None => Tied(c, c.bound, c.origin) /\ result.state = c.state
    BY <1>2, <1>3, KeptTied
  <2> QED
    BY <1>1, <2>1, <2>2
<1>5. CASE Complete(q)
  <2>1. PICK output \in {{}, {t.to}} :
          LET h == Extended(t.history, [size |-> 1, state |-> output])
              bound == IF t.bound # None THEN t.bound
                       ELSE IF h.state # {} THEN t.to ELSE None
          IN Finished(q, Completed(h), Kept(q, h, bound, t.to))
    BY <1>5 DEF Complete
  <2> DEFINE h == Extended(t.history, [size |-> 1, state |-> output])
             bound == IF t.bound # None THEN t.bound
                      ELSE IF h.state # {} THEN t.to ELSE None
  <2>2. t.to # None
    BY <1>5 DEF Complete
  <2>3. h.state = t.history.state \cup output /\ h.size = t.history.size + 1
        /\ h = [size |-> h.size, state |-> h.state]
    BY DEF Extended
  <2>4. h \in Histories
    BY <1>2, <2>2, <2>3 DEF Histories
  <2>5. bound \in Targets \cup {None} /\ Tied(h, bound, t.to)
    BY <1>2, <1>3, <2>2, <2>3 DEF Tied
  <2>6. Finished(q, Completed(h), Kept(q, h, bound, t.to))
    BY <2>1
  <2> HIDE DEF h, bound
  <2> QED
    BY <1>1, <1>2, <2>4, <2>5, <2>6, KeptTied
<1>6. CASE Fail(q)
  <2>1. Rejected \in Terminal
    BY DEF Rejected, Terminal
  <2> QED
    BY <1>1, <1>6, <2>1 DEF Fail
<1> QED
  BY <1>4, <1>5, <1>6

\* Receive: a message is refused, or it is a request that enters the queue; it
\* repeats provider state only where its lane has answered everything.
LEMMA Received ==
  ASSUME TypeOK, ViewSound, NEW l \in Lanes, Receive(l)
  PROVE  /\ open /\ sent + 1 \in Requests /\ sent' = sent + 1 /\ sent' \in 0 .. MaxRequests
         /\ open' \in BOOLEAN
         /\ UNCHANGED <<changed, active, cache, run, outbox, answered>>
         /\ \/ /\ known' = [known EXCEPT ![sent + 1] = Rejected]
               /\ UNCHANGED <<lanes, queue, accepted, view>>
            \/ /\ Room(l) /\ lanes' = lanes \cup ({l} \ {Unnamed})
               /\ accepted' = [accepted EXCEPT ![l] = Append(@, sent + 1)]
               /\ known' = known
               /\ view' = view \/ view' = [view EXCEPT ![l] = None]
               /\ \E r \in Request :
                    /\ queue' = Append(queue, r) /\ r.id = sent + 1 /\ r.lane = l
                    /\ r.prev # None => r.input.state = {}
                    /\ r.input.state # {} =>
                         /\ view[l] # None /\ ~Outstanding(l)
                         /\ r.input.state = known[view[l]].state
<1>1. /\ open /\ sent < MaxRequests /\ sent' = sent + 1
      /\ UNCHANGED <<changed, active, cache, run, outbox, answered>>
  BY DEF Receive
<1>2. sent \in Nat /\ sent + 1 \in Requests /\ sent + 1 \in 0 .. MaxRequests
  BY <1>1, BridgeConstants DEF TypeOK, Requests
<1>3. PICK prev \in {p \in Requests : known[p] # None /\ known[p].ok} \cup {None},
           repeat, generate, valid \in BOOLEAN :
       LET begins == ~repeat /\ (prev = None \/ prev # view[l])
           said == IF repeat THEN [size |-> known[view[l]].size, state |-> known[view[l]].state]
                   ELSE NoHistory
           q == sent + 1
           r == [id |-> q, lane |-> l, prev |-> prev, generate |-> generate, valid |-> valid,
                 input |-> [said EXCEPT !.size = @ + 1]]
       IN /\ repeat => prev = None /\ view[l] # None
          /\ repeat \/ begins => ~Outstanding(l)
          /\ IF Room(l)
             THEN /\ lanes' = lanes \cup ({l} \ {Unnamed})
                  /\ queue' = Append(queue, r)
                  /\ accepted' = [accepted EXCEPT ![l] = Append(@, q)]
                  /\ view' = IF begins THEN [view EXCEPT ![l] = None] ELSE view
                  /\ UNCHANGED known
             ELSE /\ known' = [known EXCEPT ![q] = Rejected]
                  /\ UNCHANGED <<lanes, queue, accepted, view>>
          /\ open' = (Room(l) \/ ~changed)
  BY Zenon DEF Receive
<1> DEFINE said == IF repeat THEN [size |-> known[view[l]].size, state |-> known[view[l]].state]
                   ELSE NoHistory
           input == [said EXCEPT !.size = @ + 1]
           r == [id |-> sent + 1, lane |-> l, prev |-> prev, generate |-> generate,
                 valid |-> valid, input |-> input]
<1>4. repeat => view[l] \in Requests /\ known[view[l]] \in Terminal
  BY <1>3 DEF TypeOK, ViewSound
<1>5. /\ said \in Histories
      /\ said.state # {} => repeat /\ said.state = known[view[l]].state
  BY <1>4 DEF Histories, Terminal, NoHistory
<1> HIDE DEF said
<1>6. input \in Histories /\ input.state = said.state
  BY <1>5 DEF Histories
<1> HIDE DEF input
<1>7. r \in Request
  BY <1>2, <1>3, <1>6 DEF Request
<1>8. /\ r.id = sent + 1 /\ r.lane = l /\ r.prev = prev /\ r.input = input
  OBVIOUS
<1>9. /\ prev # None => ~repeat
      /\ repeat => view[l] # None /\ ~Outstanding(l)
  BY <1>3
<1>10. open' \in BOOLEAN
  BY <1>3 DEF TypeOK
<1>11. Room(l) => queue' = Append(queue, r)
  BY <1>3 DEF said, input
<1>12. CASE Room(l)
  <2>1. /\ lanes' = lanes \cup ({l} \ {Unnamed})
        /\ accepted' = [accepted EXCEPT ![l] = Append(@, sent + 1)]
        /\ known' = known
        /\ view' = view \/ view' = [view EXCEPT ![l] = None]
    BY <1>3, <1>12
  <2> HIDE DEF r
  <2> QED
    BY <1>1, <1>2, <1>5, <1>6, <1>7, <1>8, <1>9, <1>10, <1>11, <1>12, <2>1
<1>13. CASE ~Room(l)
  BY <1>1, <1>2, <1>3, <1>10, <1>13
<1> QED
  BY <1>12, <1>13

\* Dispatch: a request leaves the queue, to run or to be refused.
LEMMA Dispatched ==
  ASSUME TypeOK, NEW i \in DOMAIN queue, Dispatch(i)
  PROVE  \E r \in Request :
           /\ r = queue[i] /\ r.id \in Requests /\ r.lane \in Lanes
           /\ open /\ Startable(i) /\ queue' = RemoveAt(queue, i)
           /\ UNCHANGED <<changed, lanes, outbox, accepted>>
           /\ \/ /\ Prepares(r)
                 /\ active' = active \cup {r.lane}
                 /\ UNCHANGED <<open, cache, answered, client>>
                 /\ \E t \in Run :
                      /\ run' = [run EXCEPT ![r.id] = t]
                      /\ t.lane = r.lane /\ t.history = History(r)
                      /\ t.bound = Bound(r) /\ t.origin = Origin(r)
                      /\ t.to = None /\ t.result = None
              \/ /\ UNCHANGED <<active, run>>
                 /\ cache' = failed(r.lane, r.prev)
                 /\ \/ open' = FALSE /\ UNCHANGED <<answered, client>>
                    \/ open' = open /\ Answer(r.lane, r.id, Rejected)
<1>1. PICK r \in Request : r = queue[i]
  BY DEF TypeOK
<1>2. /\ open /\ Startable(i) /\ queue' = RemoveAt(queue, i)
      /\ UNCHANGED <<changed, lanes, outbox, accepted>>
  BY DEF Dispatch
<1>3. r.id \in Requests /\ r.lane \in Lanes
  BY DEF Request
<1>4. CASE Prepares(r)
  <2> DEFINE t == [lane |-> r.lane, prev |-> r.prev, generate |-> r.generate,
                   history |-> History(r), bound |-> Bound(r), origin |-> Origin(r),
                   to |-> None, result |-> None]
  <2>1. /\ active' = active \cup {r.lane} /\ run' = [run EXCEPT ![r.id] = t]
        /\ UNCHANGED <<open, cache, answered, client>>
    BY <1>1, <1>4 DEF Dispatch
  <2>2. /\ History(r) \in Histories /\ Bound(r) \in Targets \cup {None}
        /\ Origin(r) \in Targets \cup {None}
    BY <1>1, <1>4, PreparedTypes
  <2>3. t \in Run
    BY <2>2 DEF Run, Request
  <2>4. /\ t.lane = r.lane /\ t.history = History(r)
        /\ t.bound = Bound(r) /\ t.origin = Origin(r)
        /\ t.to = None /\ t.result = None
    OBVIOUS
  <2> HIDE DEF t
  <2> QED
    BY <1>1, <1>2, <1>3, <1>4, <2>1, <2>3, <2>4
<1>5. CASE ~Prepares(r)
  <2>1. UNCHANGED <<active, run>> /\ cache' = failed(r.lane, r.prev)
    BY <1>1, <1>5 DEF Dispatch
  <2>2. \/ open' = FALSE /\ UNCHANGED <<answered, client>>
        \/ open' = open /\ Answer(r.lane, r.id, Rejected)
    BY <1>1, <1>5 DEF Dispatch
  <2> QED
    BY <1>1, <1>2, <1>3, <2>1, <2>2
<1> QED
  BY <1>4, <1>5

\* Deliver: the oldest result frees its lane and is kept and sent.
LEMMA Delivered ==
  ASSUME TypeOK, Channel, Deliver
  PROVE  \E q \in Requests, t \in Run, d \in Result :
           /\ q = outbox[1] /\ t = run[q] /\ t # None /\ d = t.result /\ d # None
           /\ t.lane \in Lanes /\ d.known \in Terminal /\ d.cached \in Cached \cup {None}
           /\ open /\ 1 \in DOMAIN outbox /\ outbox' = Tail(outbox)
           /\ active' = active \ {t.lane} /\ run' = [run EXCEPT ![q] = None]
           /\ cache' = IF d.known.ok THEN remember(t.lane, d.cached) ELSE failed(t.lane, t.prev)
           /\ UNCHANGED <<changed, lanes, queue, accepted>>
           /\ \/ open' = FALSE /\ UNCHANGED <<answered, client>>
              \/ open' = open /\ Answer(t.lane, q, d.known)
<1>1. PICK q \in Requests : 1 \in DOMAIN outbox /\ Head(outbox) = q /\ q = outbox[1]
  BY DEF Deliver, TypeOK
<1>2. run[q] # None /\ run[q].result # None
  BY <1>1 DEF Channel
<1>3. PICK t \in Run : t = run[q]
  BY <1>2 DEF TypeOK
<1>4. PICK d \in Result : d = t.result
  BY <1>2, <1>3 DEF Run
<1>5. t.lane \in Lanes /\ d.known \in Terminal /\ d.cached \in Cached \cup {None}
  BY DEF Run, Result
<1>6. /\ open /\ outbox' = Tail(outbox)
      /\ active' = active \ {t.lane} /\ run' = [run EXCEPT ![q] = None]
      /\ cache' = IF d.known.ok THEN remember(t.lane, d.cached) ELSE failed(t.lane, t.prev)
      /\ UNCHANGED <<changed, lanes, queue, accepted>>
      /\ \/ open' = FALSE /\ UNCHANGED <<answered, client>>
         \/ open' = open /\ Answer(t.lane, q, d.known)
  BY <1>1, <1>3, <1>4 DEF Deliver, Freed
<1> QED
  BY <1>1, <1>2, <1>3, <1>4, <1>5, <1>6

\* Forward: a running request is committed to a target it may go to.
LEMMA Forwarded ==
  ASSUME TypeOK, NEW q \in Requests, Forward(q)
  PROVE  /\ Running(q)
         /\ UNCHANGED <<open, changed, session, outbox, accepted, answered, client>>
         /\ \E target \in Targets :
              /\ run[q].bound \in {None, target}
              /\ run' \in [Requests -> Run \cup {None}]
              /\ run'[q] \in Run /\ run'[q] = [run[q] EXCEPT !.to = target]
              /\ \A x \in Requests \ {q} : run'[x] = run[x]
<1>1. /\ Running(q)
      /\ UNCHANGED <<open, changed, session, outbox, accepted, answered, client>>
  BY DEF Forward
<1>2. PICK target \in Targets :
        run[q].bound \in {None, target} /\ run' = [run EXCEPT ![q].to = target]
  BY DEF Forward
<1>3. run[q] \in Run
  BY <1>1 DEF Running, TypeOK
<1>4. [run[q] EXCEPT !.to = target] \in Run
  BY <1>3 DEF Run
<1>5. run' = [run EXCEPT ![q] = [run[q] EXCEPT !.to = target]]
  BY <1>2
<1>6. /\ run' \in [Requests -> Run \cup {None}]
      /\ run'[q] = [run[q] EXCEPT !.to = target]
      /\ \A x \in Requests \ {q} : run'[x] = run[x]
  BY <1>4, <1>5 DEF TypeOK
<1> QED
  BY <1>1, <1>2, <1>4, <1>6

\* Elements of the queue and of the lanes' books.
LEMMA ElementTypes ==
  ASSUME TypeOK
  PROVE  /\ \A i \in DOMAIN queue : queue[i] \in Request /\ queue[i].id \in Requests
                                    /\ queue[i].lane \in Lanes
         /\ \A l \in Lanes : accepted[l] \in Seq(Requests) /\ answered[l] \in Seq(Requests)
         /\ \A l \in Lanes : \A i \in DOMAIN accepted[l] : accepted[l][i] \in Requests
         /\ Requests \subseteq Nat \ {0} /\ sent \in Nat
<1>1. \A i \in DOMAIN queue : queue[i] \in Request
  BY DEF TypeOK
<1>2. \A l \in Lanes : accepted[l] \in Seq(Requests) /\ answered[l] \in Seq(Requests)
  BY DEF TypeOK
<1>3. \A l \in Lanes : \A i \in DOMAIN accepted[l] : accepted[l][i] \in Requests
  BY <1>2
<1>4. Requests \subseteq Nat \ {0} /\ sent \in Nat
  BY DEF TypeOK, Requests
<1> QED
  BY <1>1, <1>2, <1>3, <1>4 DEF Request

LEMMA RejectedType == Rejected \in Terminal /\ Rejected # None
<1>1. Rejected \in Terminal
  BY DEF Rejected, Terminal
<1> QED
  BY <1>1, NoneIsNoRecord

\* Every step keeps the types.
LEMMA TypeKept ==
  ASSUME BridgeInv, [Next]_vars
  PROVE  TypeOK'
<1>1. TypeOK /\ RunTied /\ (open => ViewSound /\ Channel)
  BY DEF BridgeInv, Live
<1>2. ASSUME NEW l \in Lanes, Receive(l)
      PROVE  TypeOK'
  <2>1. open
    BY <1>2 DEF Receive
  <2>2. CASE /\ known' = [known EXCEPT ![sent + 1] = Rejected]
             /\ UNCHANGED <<lanes, queue, accepted, view>>
    BY <1>1, <1>2, <2>1, <2>2, Received, RejectedType DEF TypeOK
  <2>3. CASE ~(/\ known' = [known EXCEPT ![sent + 1] = Rejected]
               /\ UNCHANGED <<lanes, queue, accepted, view>>)
    <3>1. PICK r \in Request : queue' = Append(queue, r)
      BY <1>1, <1>2, <2>1, <2>3, Received
    <3>2. queue' \in Seq(Request)
      BY <1>1, <3>1 DEF TypeOK
    <3>3. /\ lanes' \subseteq Lanes /\ known' = known
          /\ view' = view \/ view' = [view EXCEPT ![l] = None]
          /\ accepted' = [accepted EXCEPT ![l] = Append(@, sent + 1)]
          /\ sent + 1 \in Requests /\ sent' \in 0 .. MaxRequests /\ open' \in BOOLEAN
          /\ UNCHANGED <<changed, active, cache, run, outbox, answered>>
      BY <1>1, <1>2, <2>1, <2>3, Received DEF TypeOK
    <3>4. accepted' \in [Lanes -> Seq(Requests)]
      <4>1. Append(accepted[l], sent + 1) \in Seq(Requests)
        BY <1>1, <3>3 DEF TypeOK
      <4> QED
        BY <1>1, <3>3, <4>1 DEF TypeOK
    <3>5. view' \in [Lanes -> Requests \cup {None}]
      BY <1>1, <3>3 DEF TypeOK
    <3> QED
      BY <1>1, <3>2, <3>3, <3>4, <3>5 DEF TypeOK
  <2> QED
    BY <2>2, <2>3
<1>3. ASSUME NEW i \in DOMAIN queue, Dispatch(i)
      PROVE  TypeOK'
  <2>1. PICK r \in Request :
          /\ r = queue[i] /\ r.id \in Requests /\ r.lane \in Lanes
          /\ queue' = RemoveAt(queue, i)
          /\ UNCHANGED <<changed, lanes, outbox, accepted>>
          /\ \/ /\ active' = active \cup {r.lane}
                /\ UNCHANGED <<open, cache, answered, client>>
                /\ \E t \in Run : run' = [run EXCEPT ![r.id] = t]
             \/ /\ UNCHANGED <<active, run>>
                /\ cache' = failed(r.lane, r.prev)
                /\ \/ open' = FALSE /\ UNCHANGED <<answered, client>>
                   \/ open' = open /\ Answer(r.lane, r.id, Rejected)
    BY <1>1, <1>3, Dispatched
  <2>2. queue' \in Seq(Request)
    BY <1>1, <2>1, Removed DEF TypeOK
  <2>3. CASE UNCHANGED <<active, run>>
    <3>1. cache' \in [Lanes -> Cached \cup {None}]
      BY <1>1, <2>1, CacheTypes DEF TypeOK
    <3>2. CASE UNCHANGED <<answered, client>>
      BY <1>1, <2>1, <2>2, <2>3, <3>1, <3>2 DEF TypeOK, client
    <3>3. CASE open' = open /\ Answer(r.lane, r.id, Rejected)
      BY <1>1, <2>1, <2>2, <2>3, <3>1, <3>3, AnswerTypes, RejectedType DEF TypeOK
    <3> QED
      BY <2>1, <3>2, <3>3
  <2>4. CASE ~UNCHANGED <<active, run>>
    BY <1>1, <2>1, <2>2, <2>4 DEF TypeOK, client
  <2> QED
    BY <2>3, <2>4
<1>4. ASSUME NEW q \in Requests, WarmUp(q) \/ Complete(q) \/ Fail(q)
      PROVE  TypeOK'
  BY <1>1, <1>4, Endings, FinishedTypes DEF TypeOK, session, client
<1>5. ASSUME NEW q \in Requests, Forward(q)
      PROVE  TypeOK'
  BY <1>1, <1>5, Forwarded DEF TypeOK, session, client
<1>6. ASSUME Deliver
      PROVE  TypeOK'
  <2>1. PICK q \in Requests, t \in Run, d \in Result :
           /\ t.lane \in Lanes /\ d.known \in Terminal /\ d.cached \in Cached \cup {None}
           /\ 1 \in DOMAIN outbox /\ outbox' = Tail(outbox)
           /\ active' = active \ {t.lane} /\ run' = [run EXCEPT ![q] = None]
           /\ cache' = IF d.known.ok THEN remember(t.lane, d.cached) ELSE failed(t.lane, t.prev)
           /\ UNCHANGED <<changed, lanes, queue, accepted>>
           /\ \/ open' = FALSE /\ UNCHANGED <<answered, client>>
              \/ open' = open /\ Answer(t.lane, q, d.known)
    BY <1>1, <1>6, Delivered DEF Deliver
  <2>2. cache' \in [Lanes -> Cached \cup {None}]
    BY <1>1, <2>1, CacheTypes
  <2>3. outbox' \in Seq(Requests) /\ run' \in [Requests -> Run \cup {None}]
    BY <1>1, <2>1 DEF TypeOK
  <2>4. CASE UNCHANGED <<answered, client>>
    BY <1>1, <2>1, <2>2, <2>3, <2>4 DEF TypeOK, client
  <2>5. CASE open' = open /\ Answer(t.lane, q, d.known)
    BY <1>1, <2>1, <2>2, <2>3, <2>5, AnswerTypes DEF TypeOK
  <2> QED
    BY <2>1, <2>4, <2>5
<1>7. CASE ConfigChanged \/ Close \/ UNCHANGED vars
  BY <1>1, <1>7 DEF ConfigChanged, Close, vars, session, client, TypeOK
<1> QED
  BY <1>2, <1>3, <1>4, <1>5, <1>6, <1>7 DEF Next

-----------------------------------------------------------------------------
(* Provider state *)

\* prepare ties what a request continues to where that came from.
LEMMA PreparedTied ==
  ASSUME TypeOK, CacheTied, NEW r \in Request, Prepares(r), r.lane \in Lanes,
         r.prev # None => r.input.state = {},
         r.input.state # {} /\ cache[r.lane] # None =>
           r.input.state \subseteq {cache[r.lane].origin}
  PROVE  Tied(History(r), Bound(r), Origin(r))
<1>1. CASE r.prev = None
  <2>1. GivenBound(r) = None /\ GivenOrigin(r) = None /\ History(r) = r.input
    BY <1>1 DEF GivenBound, GivenOrigin, History
  <2>2. CASE r.input.state = {}
    BY <2>1, <2>2 DEF Homeless, Bound, Tied
  <2>3. CASE r.input.state # {}
    <3>1. Homeless(r) /\ Bound(r) = Origin(r) /\ Origin(r) # None
      BY <2>1, <2>3 DEF Homeless, Bound, Prepares
    <3>2. cache[r.lane] # None /\ Origin(r) = cache[r.lane].origin
      BY <2>1, <3>1 DEF Origin
    <3> QED
      BY <2>1, <2>3, <3>1, <3>2 DEF Tied
  <2> QED
    BY <2>2, <2>3
<1>2. CASE r.prev # None
  <2>1. PICK l \in Lanes : cache[l] # None /\ Parent(r.prev) = cache[l]
    BY <1>2, ParentCached DEF Prepares
  <2>2. Tied(cache[l], cache[l].bound, cache[l].origin)
    BY <2>1 DEF CacheTied
  <2>3. History(r).state = cache[l].state
    BY <1>2, <2>1 DEF History, Extended
  <2>4. GivenBound(r) = cache[l].bound /\ GivenOrigin(r) = cache[l].origin
    BY <1>2, <2>1 DEF GivenBound, GivenOrigin
  <2>5. ~Homeless(r)
    BY <2>2, <2>3, <2>4 DEF Homeless, Tied
  <2>6. Bound(r) = cache[l].bound /\ Origin(r) = cache[l].origin
    BY <2>4, <2>5 DEF Bound, Origin
  <2> QED
    BY <2>2, <2>3, <2>6 DEF Tied
<1> QED
  BY <1>1, <1>2

\* What leaves or enters the cache when a request fails or completes.
LEMMA CacheSteps ==
  ASSUME TypeOK, NEW l \in Lanes
  PROVE  /\ \A prev : \A m \in Lanes :
              /\ failed(l, prev)[m] # cache[m] =>
                   m = l /\ cache[l].id = prev /\ failed(l, prev)[m] = None
         /\ \A c : \A m \in Lanes :
              /\ m # l => remember(l, c)[m] = cache[m]
              /\ m = l => remember(l, c)[m] \in {c, None}
  BY DEF TypeOK, failed, remember

\* Histories, results and cached responses stay tied.
LEMMA TiedKept ==
  ASSUME BridgeInv, [Next]_vars
  PROVE  CacheTied' /\ RunTied'
<1>1. TypeOK /\ CacheTied /\ RunTied /\ (open => ViewSound /\ Channel /\ Anchored)
  BY DEF BridgeInv, Live
<1>2. CASE cache' = cache /\ run' = run
  BY <1>1, <1>2 DEF CacheTied, RunTied
<1>3. ASSUME NEW i \in DOMAIN queue, Dispatch(i)
      PROVE  CacheTied' /\ RunTied'
  <2>1. PICK r \in Request :
          /\ r = queue[i] /\ r.id \in Requests /\ r.lane \in Lanes /\ open
          /\ \/ /\ Prepares(r) /\ cache' = cache
                /\ \E t \in Run :
                      /\ run' = [run EXCEPT ![r.id] = t]
                      /\ t.history = History(r)
                      /\ t.bound = Bound(r) /\ t.origin = Origin(r)
                      /\ t.to = None /\ t.result = None
             \/ run' = run /\ cache' = failed(r.lane, r.prev)
    BY <1>1, <1>3, Dispatched
  <2>2. CASE Prepares(r) /\ cache' = cache /\ ~(run' = run)
    <3>1. Tied(History(r), Bound(r), Origin(r))
      BY <1>1, <2>1, <2>2, PreparedTied DEF Anchored
    <3>2. PICK t \in Run :
            /\ run' = [run EXCEPT ![r.id] = t]
            /\ Tied(t.history, t.bound, t.origin)
            /\ t.to = None /\ t.result = None
      BY <2>1, <2>2, <3>1
    <3>3. run'[r.id] = t /\ \A q \in Requests \ {r.id} : run'[q] = run[q]
      BY <1>1, <2>1, <3>2 DEF TypeOK
    <3>4. RunTied'
      BY <1>1, <3>2, <3>3 DEF RunTied, TiedRun
    <3> QED
      BY <1>1, <2>2, <3>4 DEF CacheTied
  <2>3. CASE run' = run /\ cache' = failed(r.lane, r.prev)
    BY <1>1, <2>1, <2>3, CacheSteps DEF CacheTied, RunTied
  <2> QED
    BY <1>2, <2>1, <2>2, <2>3
<1>4. ASSUME NEW q \in Requests, WarmUp(q) \/ Complete(q) \/ Fail(q)
      PROVE  CacheTied' /\ RunTied'
  <2>1. Running(q) /\ cache' = cache
    BY <1>1, <1>4, Endings DEF session
  <2>2. PICK result \in Terminal, c \in Cached \cup {None} :
              /\ Finished(q, result, c)
              /\ c # None => Tied(c, c.bound, c.origin) /\ result.state = c.state
    BY <1>1, <1>4, Endings
  <2>3. /\ run'[q] = [run[q] EXCEPT !.result = [known |-> result, cached |-> c]]
        /\ run[q] \in Run /\ run[q] # None
        /\ \A x \in Requests \ {q} : run'[x] = run[x]
    <3>1. run[q] \in Run /\ run[q] # None
      BY <1>1, <2>1 DEF TypeOK, Running
    <3> QED
      BY <1>1, <2>1, <2>2, <3>1, FinishedTypes
  <2>4. /\ run'[q].history = run[q].history /\ run'[q].bound = run[q].bound
        /\ run'[q].origin = run[q].origin /\ run'[q].to = run[q].to
        /\ run'[q].result.known = result /\ run'[q].result.cached = c
    BY <2>3 DEF Run
  <2>5. TiedRun(run[q])
    BY <1>1, <2>3 DEF RunTied
  <2>6. TiedRun(run'[q])
    BY <2>2, <2>4, <2>5 DEF TiedRun
  <2>7. RunTied'
    BY <1>1, <2>3, <2>6 DEF RunTied
  <2> QED
    BY <1>1, <2>1, <2>7 DEF CacheTied
<1>5. ASSUME NEW q \in Requests, Forward(q)
      PROVE  CacheTied' /\ RunTied'
  <2>1. cache' = cache /\ Running(q)
    BY <1>5 DEF Forward, session
  <2>2. PICK target \in Targets :
              /\ run[q].bound \in {None, target}
              /\ run'[q] = [run[q] EXCEPT !.to = target]
              /\ \A x \in Requests \ {q} : run'[x] = run[x]
    BY <1>1, <1>5, Forwarded
  <2>3. run[q] \in Run /\ run[q] # None
    BY <1>1, <2>1 DEF TypeOK, Running
  <2>4. /\ run'[q].history = run[q].history /\ run'[q].bound = run[q].bound
        /\ run'[q].origin = run[q].origin /\ run'[q].to = target
        /\ run'[q].result = run[q].result
    BY <2>2, <2>3 DEF Run
  <2>5. TiedRun(run[q])
    BY <1>1, <2>3 DEF RunTied
  <2>6. TiedRun(run'[q])
    BY <2>2, <2>4, <2>5 DEF TiedRun
  <2>7. RunTied'
    BY <1>1, <2>2, <2>6 DEF RunTied
  <2> QED
    BY <1>1, <2>1, <2>7 DEF CacheTied
<1>6. ASSUME Deliver
      PROVE  CacheTied' /\ RunTied'
  <2>1. PICK q \in Requests, t \in Run, d \in Result :
           /\ t = run[q] /\ t # None /\ d = t.result /\ d # None
           /\ t.lane \in Lanes /\ d.cached \in Cached \cup {None}
           /\ run' = [run EXCEPT ![q] = None]
           /\ cache' = IF d.known.ok THEN remember(t.lane, d.cached) ELSE failed(t.lane, t.prev)
    BY <1>1, <1>6, Delivered DEF Deliver
  <2>2. RunTied'
    BY <1>1, <2>1 DEF RunTied, TypeOK
  <2>3. d.cached # None => Tied(d.cached, d.cached.bound, d.cached.origin)
    BY <1>1, <2>1 DEF RunTied, TiedRun
  <2>4. CacheTied'
    BY <1>1, <2>1, <2>3, CacheSteps DEF CacheTied
  <2> QED
    BY <2>2, <2>4
<1>7. CASE \/ \E l \in Lanes : Receive(l)
           \/ ConfigChanged \/ Close \/ UNCHANGED vars
  BY <1>2, <1>7 DEF Receive, ConfigChanged, Close, vars, session
<1> QED
  BY <1>3, <1>4, <1>5, <1>6, <1>7 DEF Next

-----------------------------------------------------------------------------
(* The order of answers *)

\* The oldest request a lane holds is the next one it has to answer.
LEMMA NextAnswer ==
  ASSUME TypeOK, InTurn, Accounted, NEW l \in Lanes, NEW q \in Requests,
         Held(l, q), \A p \in Requests : Held(l, p) => q <= p
  PROVE  /\ Len(answered[l]) + 1 \in DOMAIN accepted[l]
         /\ accepted[l][Len(answered[l]) + 1] = q
<1> DEFINE k == Len(answered[l]) + 1
<1>1. PICK i \in DOMAIN accepted[l] : i > Len(answered[l]) /\ accepted[l][i] = q
  BY DEF Accounted, Awaited
<1>2. accepted[l] \in Seq(Requests) /\ answered[l] \in Seq(Requests)
  BY DEF TypeOK
<1>3. k \in DOMAIN accepted[l] /\ k <= i /\ k > Len(answered[l]) /\ k \in Nat
  BY <1>1, <1>2
<1>4. accepted[l][k] \in Requests
  BY <1>2, <1>3
<1>5. Awaited(l, accepted[l][k])
  BY <1>3 DEF Awaited
<1>6. q <= accepted[l][k]
  BY <1>4, <1>5 DEF Accounted
<1>7. k < i => accepted[l][k] < q
  BY <1>1, <1>3 DEF InTurn
<1>8. k = i
  <2>1. q \in Int /\ accepted[l][k] \in Int /\ i \in Int
    BY <1>1, <1>2, <1>4 DEF Requests
  <2> QED
    BY <1>3, <1>6, <1>7, <2>1
<1> QED
  BY <1>1, <1>3, <1>8

\* Answering it keeps the books of every lane.
LEMMA AnswerKeeps ==
  ASSUME TypeOK, InTurn, Accounted, NEW l \in Lanes, NEW q \in Requests, NEW result,
         Answer(l, q, result), accepted' = accepted,
         Held(l, q), \A p \in Requests : Held(l, p) => q <= p,
         \A m \in Lanes : Held(m, q) => m = l,
         \A m \in Lanes, p \in Requests : Held(m, p)' <=> Held(m, p) /\ p # q
  PROVE  InTurn' /\ Accounted'
<1> DEFINE k == Len(answered[l]) + 1
<1>1. k \in DOMAIN accepted[l] /\ accepted[l][k] = q
  BY NextAnswer
<1>2. \A m \in Lanes : accepted[m] \in Seq(Requests) /\ answered[m] \in Seq(Requests)
  BY DEF TypeOK
<1>3. sent' = sent /\ answered'[l] = Append(answered[l], q)
      /\ \A m \in Lanes \ {l} : answered'[m] = answered[m]
  BY DEF TypeOK, Answer
<1>4. /\ Len(answered'[l]) = k /\ DOMAIN answered'[l] = 1 .. k /\ k \in Nat \ {0}
      /\ answered'[l][k] = q
      /\ \A i \in 1 .. k - 1 : answered'[l][i] = answered[l][i] /\ i \in DOMAIN answered[l]
  BY <1>2, <1>3
<1>5. InTurn'
  <2> SUFFICES ASSUME NEW m \in Lanes
               PROVE  /\ \A i \in DOMAIN accepted[m] : accepted[m][i] <= sent
                      /\ \A i, j \in DOMAIN accepted[m] : i < j => accepted[m][i] < accepted[m][j]
                      /\ Len(answered'[m]) <= Len(accepted[m])
                      /\ \A i \in DOMAIN answered'[m] : answered'[m][i] = accepted[m][i]
    BY <1>3 DEF InTurn
  <2>1. /\ \A i \in DOMAIN accepted[m] : accepted[m][i] <= sent
        /\ \A i, j \in DOMAIN accepted[m] : i < j => accepted[m][i] < accepted[m][j]
    BY DEF InTurn
  <2>2. CASE m # l
    BY <1>3, <2>1, <2>2 DEF InTurn
  <2>3. CASE m = l
    <3>1. k <= Len(accepted[l])
      BY <1>1, <1>2
    <3>2. ASSUME NEW i \in 1 .. k
          PROVE  answered'[l][i] = accepted[l][i]
      <4>1. CASE i = k
        BY <1>1, <1>4, <4>1
      <4>2. CASE i # k
        <5>1. i \in 1 .. k - 1
          BY <1>4, <4>2
        <5> QED
          BY <1>4, <5>1 DEF InTurn
      <4> QED
        BY <4>1, <4>2
    <3> QED
      BY <1>4, <2>1, <2>3, <3>1, <3>2
  <2> QED
    BY <2>2, <2>3
<1>6. Accounted'
  <2> SUFFICES ASSUME NEW m \in Lanes, NEW p \in Requests
               PROVE  Awaited(m, p)' <=> Held(m, p) /\ p # q
    BY DEF Accounted
  <2>1. Awaited(m, p) <=> Held(m, p)
    BY DEF Accounted
  <2>2. CASE m # l
    <3>1. Awaited(m, p)' <=> Awaited(m, p)
      BY <1>3, <2>2 DEF Awaited
    <3> QED
      BY <2>1, <2>2, <3>1
  <2>3. CASE m = l
    <3>1. Awaited(l, p)' <=> \E i \in DOMAIN accepted[l] : i > k /\ accepted[l][i] = p
      BY <1>4 DEF Awaited
    <3>2. \A i \in DOMAIN accepted[l] : i > k <=> i > Len(answered[l]) /\ i # k
      BY <1>2, <1>4
    <3>3. \A i \in DOMAIN accepted[l] : accepted[l][i] = q => i = k
      <4> SUFFICES ASSUME NEW i \in DOMAIN accepted[l], accepted[l][i] = q, i # k
                   PROVE  FALSE
        OBVIOUS
      <4>1. i < k \/ k < i
        BY <1>2, <1>4
      <4>2. q < q
        BY <1>1, <4>1 DEF InTurn
      <4> QED
        BY <4>2 DEF Requests
    <3>4. (\E i \in DOMAIN accepted[l] : i > k /\ accepted[l][i] = p)
            <=> Awaited(l, p) /\ p # q
      BY <1>1, <3>2, <3>3 DEF Awaited
    <3> QED
      BY <2>1, <2>3, <3>1, <3>4
  <2> QED
    BY <2>2, <2>3
<1> QED
  BY <1>5, <1>6

-----------------------------------------------------------------------------
(* The steps of a live connection *)

\* A running request changes nothing but its own entry.
LEMMA RunSame ==
  ASSUME TypeOK, InTurn, Live,
         \A x \in Requests : (run'[x] # None <=> run[x] # None) /\ run'[x].lane = run[x].lane,
         UNCHANGED <<open, session, accepted, answered, client>>
  PROVE  InTurn' /\ Anchored' /\ ViewSound' /\ Unknown' /\ Ordered' /\ Accounted'
<1>1. UNCHANGED <<queue, active, cache, accepted, answered, sent, known, view>>
  BY DEF session, client
<1>2. InTurn'
  BY <1>1 DEF InTurn
<1>3. Anchored'
  BY <1>1 DEF Anchored, Live
<1>4. ViewSound'
  BY <1>1 DEF ViewSound, Live
<1>5. Unknown'
  BY <1>1 DEF Unknown, Live
<1>6. Ordered'
  BY <1>1 DEF Ordered, Live
<1>7. \A l \in Lanes, q \in Requests : (Awaited(l, q)' <=> Awaited(l, q)) /\ (Held(l, q)' <=> Held(l, q))
  BY <1>1 DEF Awaited, Held
<1>8. Accounted'
  BY <1>7 DEF Accounted, Live
<1> QED
  BY <1>2, <1>3, <1>4, <1>5, <1>6, <1>8

LEMMA ForwardLive ==
  ASSUME BridgeInv, NEW q \in Requests, Forward(q)
  PROVE  InTurn' /\ Live'
<1>1. open /\ run[q] # None /\ UNCHANGED <<open, session, outbox, accepted, answered, client>>
  BY DEF Forward, Running
<1>2. TypeOK /\ InTurn /\ Live
  BY <1>1 DEF BridgeInv
<1>3. run[q] \in Run
  BY <1>1, <1>2 DEF TypeOK
<1>4. PICK target \in Targets :
              /\ run'[q] \in Run /\ run'[q] = [run[q] EXCEPT !.to = target]
              /\ \A x \in Requests \ {q} : run'[x] = run[x]
  BY <1>2, Forwarded
<1>5. run'[q] # None /\ run'[q].lane = run[q].lane /\ run'[q].result = run[q].result
  BY <1>3, <1>4, NoneIsNoRecord DEF Run
<1>6. \A x \in Requests : (run'[x] # None <=> run[x] # None) /\ run'[x].lane = run[x].lane
  BY <1>1, <1>4, <1>5
<1>7. Channel'
  <2>1. \A x \in Requests : run[x] # None /\ run[x].result # None =>
                            run'[x] # None /\ run'[x].result # None
    BY <1>4, <1>5
  <2>2. outbox' = outbox /\ \A i \in DOMAIN outbox : outbox[i] \in Requests
    BY <1>1, <1>2 DEF TypeOK
  <2> QED
    BY <1>2, <2>1, <2>2 DEF Channel, Live
<1> QED
  BY <1>1, <1>2, <1>6, <1>7, RunSame DEF Live

LEMMA EndingLive ==
  ASSUME BridgeInv, NEW q \in Requests, WarmUp(q) \/ Complete(q) \/ Fail(q)
  PROVE  InTurn' /\ Live'
<1>1. TypeOK /\ RunTied
  BY DEF BridgeInv
<1>2. Running(q) /\ UNCHANGED <<open, session, accepted, answered, client>>
  BY <1>1, Endings
<1>3. open /\ run[q] # None /\ run[q].result = None
  BY <1>2 DEF Running
<1>4. InTurn /\ Live
  BY <1>3 DEF BridgeInv
<1>5. run[q] \in Run
  BY <1>1, <1>3 DEF TypeOK
<1>6. PICK result \in Terminal, c \in Cached \cup {None} : Finished(q, result, c)
  BY <1>1, Endings
<1>7. /\ run'[q] = [run[q] EXCEPT !.result = [known |-> result, cached |-> c]]
      /\ run'[q] \in Run
      /\ \A x \in Requests \ {q} : run'[x] = run[x]
  BY <1>1, <1>2, <1>6, FinishedTypes
<1>8. run'[q] # None /\ run'[q].lane = run[q].lane /\ run'[q].result # None
  <2>1. [known |-> result, cached |-> c] \in Result
    BY DEF Result
  <2> QED
    BY <1>5, <1>7, <2>1, NoneIsNoRecord DEF Run
<1>9. \A x \in Requests : (run'[x] # None <=> run[x] # None) /\ run'[x].lane = run[x].lane
  BY <1>3, <1>7, <1>8
<1>10. outbox \in Seq(Requests) /\ outbox' = Append(outbox, q)
  BY <1>1, <1>6 DEF TypeOK, Finished
<1>11. \A i \in DOMAIN outbox : outbox[i] # q
  BY <1>3, <1>4 DEF Live, Channel
<1>12. Channel'
  <2>1. \A i \in DOMAIN outbox' : \/ i \in DOMAIN outbox /\ outbox'[i] = outbox[i]
                                  \/ i = Len(outbox) + 1 /\ outbox'[i] = q
    BY <1>10
  <2>2. \A i \in DOMAIN outbox : run'[outbox[i]] # None /\ run'[outbox[i]].result # None
    BY <1>4, <1>7, <1>10, <1>11 DEF Live, Channel
  <2> QED
    BY <1>4, <1>8, <1>11, <2>1, <2>2 DEF Live, Channel
<1> QED
  BY <1>1, <1>2, <1>4, <1>9, <1>12, RunSame DEF Live

\* A lane that has answered everything holds nothing.
LEMMA NothingHeld ==
  ASSUME TypeOK, InTurn, Accounted, NEW l \in Lanes, ~Outstanding(l)
  PROVE  \A q \in Requests : ~Held(l, q)
<1>1. accepted[l] \in Seq(Requests) /\ answered[l] \in Seq(Requests)
  BY DEF TypeOK
<1>2. \A q \in Requests : ~Awaited(l, q)
  BY <1>1 DEF Awaited, Outstanding
<1> QED
  BY <1>2 DEF Accounted

LEMMA ReceiveLive ==
  ASSUME BridgeInv, NEW l \in Lanes, Receive(l)
  PROVE  InTurn' /\ Live'
<1>1. open
  BY DEF Receive
<1>2. TypeOK /\ InTurn /\ Live
  BY <1>1 DEF BridgeInv
<1>3. ViewSound /\ Unknown /\ Ordered /\ Anchored /\ Channel /\ Accounted
  BY <1>2 DEF Live
<1>4. PICK q \in Requests : q = sent + 1
  BY <1>2, <1>3, Received
<1>5. sent' = q /\ UNCHANGED <<active, cache, run, outbox, answered>>
  BY <1>2, <1>3, <1>4, Received
<1>6. known[q] = None /\ sent \in Nat /\ sent < q /\ q \in Nat
  BY <1>2, <1>3, <1>4, ElementTypes DEF Unknown
<1>7. Channel'
  BY <1>3, <1>5 DEF Channel
<1>8. CASE known' = [known EXCEPT ![q] = Rejected] /\ UNCHANGED <<lanes, queue, accepted, view>>
  <2>1. \A x \in Requests \ {q} : known'[x] = known[x]
    BY <1>2, <1>8 DEF TypeOK
  <2>2. \A x \in Requests : x <= sent => known'[x] = known[x]
    BY <1>6, <2>1 DEF Requests
  <2>3. \A i \in DOMAIN queue : queue[i].id \in Requests /\ queue[i].id <= sent
    BY <1>2, <1>3, ElementTypes DEF Ordered
  <2>4. InTurn'
    <3>1. \A m \in Lanes : \A i \in DOMAIN accepted[m] : accepted[m][i] <= q
      <4>1. \A m \in Lanes : \A i \in DOMAIN accepted[m] :
              accepted[m][i] \in Requests /\ accepted[m][i] <= sent
        BY <1>2, ElementTypes DEF InTurn
      <4> QED
        BY <1>6, <4>1 DEF Requests
    <3> QED
      BY <1>2, <1>5, <1>6, <1>8, <3>1 DEF InTurn
  <2>5. Anchored'
    BY <1>3, <1>5, <1>8 DEF Anchored
  <2>6. ViewSound'
    <3>1. \A m \in Lanes : view[m] # None => view[m] # q /\ view[m] \in Requests
      BY <1>2, <1>3, <1>6 DEF ViewSound, TypeOK
    <3> QED
      BY <1>3, <1>5, <1>8, <2>1, <3>1 DEF ViewSound
  <2>7. Unknown'
    <3>1. \A x \in Requests : x > q => x > sent /\ x # q
      BY <1>6 DEF Requests
    <3>2. \A x \in Requests : run[x] # None => x <= sent
      BY <1>3 DEF Ordered
    <3> QED
      BY <1>3, <1>5, <1>8, <2>1, <2>2, <2>3, <3>1, <3>2 DEF Unknown
  <2>8. Ordered'
    <3>1. \A i \in DOMAIN queue : queue[i].id <= q
      BY <1>6, <2>3 DEF Requests
    <3>2. \A x \in Requests : run[x] # None => x <= q
      BY <1>3, <1>6 DEF Ordered, Requests
    <3> QED
      BY <1>3, <1>5, <1>8, <3>1, <3>2 DEF Ordered
  <2>9. Accounted'
    BY <1>3, <1>5, <1>8 DEF Accounted, Awaited, Held
  <2> QED
    BY <1>7, <2>4, <2>5, <2>6, <2>7, <2>8, <2>9 DEF Live
<1>9. CASE ~(known' = [known EXCEPT ![q] = Rejected] /\ UNCHANGED <<lanes, queue, accepted, view>>)
  <2>1. PICK r \in Request :
               /\ queue' = Append(queue, r) /\ r.id = q /\ r.lane = l
               /\ r.prev # None => r.input.state = {}
               /\ r.input.state # {} =>
                    /\ view[l] # None /\ ~Outstanding(l)
                    /\ r.input.state = known[view[l]].state
    BY <1>2, <1>3, <1>9, <1>4, Received
  <2>2. /\ accepted' = [accepted EXCEPT ![l] = Append(@, q)]
        /\ known' = known
        /\ view' = view \/ view' = [view EXCEPT ![l] = None]
    BY <1>2, <1>3, <1>9, <1>4, Received
  <2> DEFINE n == Len(queue) + 1
  <2>3. /\ DOMAIN queue' = 1 .. n /\ queue'[n] = r /\ n \in Nat \ {0}
        /\ DOMAIN queue = 1 .. n - 1
        /\ \A i \in 1 .. n - 1 : queue'[i] = queue[i]
    BY <1>2, <2>1 DEF TypeOK
  <2>4. \A i \in 1 .. n : i = n \/ i \in 1 .. n - 1
    BY <2>3
  <2>5. \A i \in DOMAIN queue : queue[i].id \in Requests /\ queue[i].id <= sent /\ queue[i].id < q
    <3>1. \A i \in DOMAIN queue : queue[i].id \in Requests /\ queue[i].id <= sent
      BY <1>2, <1>3, ElementTypes DEF Ordered
    <3> QED
      BY <1>6, <3>1 DEF Requests
  <2>6. \A x \in Requests : run[x] # None => x <= sent /\ x < q /\ x <= q /\ x # q
    BY <1>3, <1>6 DEF Ordered, Requests
  <2>7. InTurn'
    <3>1. accepted[l] \in Seq(Requests) /\ answered[l] \in Seq(Requests)
      BY <1>2 DEF TypeOK
    <3>2. /\ accepted'[l] = Append(accepted[l], q)
          /\ \A m \in Lanes \ {l} : accepted'[m] = accepted[m]
      BY <1>2, <2>2 DEF TypeOK
    <3>3. \A m \in Lanes : \A i \in DOMAIN accepted[m] :
            accepted[m][i] \in Nat /\ accepted[m][i] <= sent /\ accepted[m][i] <= q /\ accepted[m][i] < q
      <4>1. \A m \in Lanes : \A i \in DOMAIN accepted[m] :
              accepted[m][i] \in Requests /\ accepted[m][i] <= sent
        BY <1>2, ElementTypes DEF InTurn
      <4> QED
        BY <1>6, <4>1 DEF Requests
    <3>4. \A i \in DOMAIN accepted'[l] : \/ i \in DOMAIN accepted[l] /\ accepted'[l][i] = accepted[l][i]
                                         \/ i = Len(accepted[l]) + 1 /\ accepted'[l][i] = q
      BY <3>1, <3>2
    <3>5. /\ \A i \in DOMAIN accepted'[l] : accepted'[l][i] <= q
          /\ \A i, j \in DOMAIN accepted'[l] : i < j => accepted'[l][i] < accepted'[l][j]
      <4>1. \A i \in DOMAIN accepted'[l] : accepted'[l][i] <= q
        BY <1>6, <3>3, <3>4
      <4>2. ASSUME NEW i \in DOMAIN accepted'[l], NEW j \in DOMAIN accepted'[l], i < j
            PROVE  accepted'[l][i] < accepted'[l][j]
        <5>1. i \in DOMAIN accepted[l] /\ accepted'[l][i] = accepted[l][i]
          BY <3>1, <3>2, <3>4, <4>2
        <5> QED
          BY <1>2, <3>3, <3>4, <4>2, <5>1 DEF InTurn
      <4> QED
        BY <4>1, <4>2
    <3>6. /\ Len(answered[l]) <= Len(accepted'[l])
          /\ \A i \in DOMAIN answered[l] : answered[l][i] = accepted'[l][i]
      BY <1>2, <3>1, <3>2 DEF InTurn
    <3> QED
      BY <1>2, <1>5, <3>2, <3>3, <3>5, <3>6 DEF InTurn
  <2>8. Held(l, q)' /\ \A m \in Lanes, p \in Requests :
          (m # l \/ p # q) => (Held(m, p)' <=> Held(m, p))
    <3>1. Held(l, q)'
      BY <2>1, <2>3 DEF Held
    <3>2. ASSUME NEW m \in Lanes, NEW p \in Requests, m # l \/ p # q
          PROVE  (\E i \in 1 .. n : queue'[i].id = p /\ queue'[i].lane = m)
                   <=> \E i \in 1 .. n - 1 : queue[i].id = p /\ queue[i].lane = m
      BY <2>1, <2>3, <2>4, <3>2
    <3> QED
      BY <1>5, <2>3, <3>1, <3>2 DEF Held
  <2>9. Awaited(l, q)' /\ \A m \in Lanes, p \in Requests :
          (m # l \/ p # q) => (Awaited(m, p)' <=> Awaited(m, p))
    <3>1. accepted[l] \in Seq(Requests) /\ answered[l] \in Seq(Requests)
          /\ Len(answered[l]) <= Len(accepted[l])
      BY <1>2 DEF TypeOK, InTurn
    <3>2. /\ accepted'[l] = Append(accepted[l], q)
          /\ \A m \in Lanes \ {l} : accepted'[m] = accepted[m]
      BY <1>2, <2>2 DEF TypeOK
    <3> DEFINE k == Len(accepted[l]) + 1
    <3>3. /\ DOMAIN accepted'[l] = 1 .. k /\ accepted'[l][k] = q /\ k > Len(answered[l])
          /\ DOMAIN accepted[l] = 1 .. k - 1 /\ k \in Nat \ {0}
          /\ \A i \in 1 .. k - 1 : accepted'[l][i] = accepted[l][i]
      BY <3>1, <3>2
    <3>4. \A i \in 1 .. k : i = k \/ i \in 1 .. k - 1
      BY <3>3
    <3> HIDE DEF k
    <3>5. Awaited(l, q)'
      BY <1>5, <3>3 DEF Awaited
    <3>6. \A p \in Requests : p # q => (Awaited(l, p)' <=> Awaited(l, p))
      BY <1>5, <3>3, <3>4 DEF Awaited
    <3>7. \A m \in Lanes, p \in Requests : m # l => (Awaited(m, p)' <=> Awaited(m, p))
      BY <1>5, <3>2 DEF Awaited
    <3> QED
      BY <3>5, <3>6, <3>7
  <2>10. Accounted'
    BY <1>3, <2>8, <2>9 DEF Accounted
  <2>11. Anchored'
    <3>1. r.input.state # {} =>
            /\ cache[l] # None => r.input.state \subseteq {cache[l].origin}
            /\ \A x \in Requests : run[x] # None => run[x].lane # l
            /\ \A j \in 1 .. n - 1 : queue[j].lane # l
      <4> SUFFICES ASSUME r.input.state # {}
                   PROVE  /\ cache[l] # None => r.input.state \subseteq {cache[l].origin}
                          /\ \A x \in Requests : run[x] # None => run[x].lane # l
                          /\ \A j \in 1 .. n - 1 : queue[j].lane # l
        OBVIOUS
      <4>1. \A x \in Requests : ~Held(l, x)
        BY <1>2, <1>3, <2>1, NothingHeld
      <4>2. cache[l] # None => r.input.state \subseteq {cache[l].origin}
        BY <1>3, <2>1 DEF ViewSound
      <4> QED
        BY <2>3, <2>5, <4>1, <4>2 DEF Held
    <3>2. \A i \in 1 .. n - 1 :
            /\ queue[i].prev # None => queue[i].input.state = {}
            /\ queue[i].input.state # {} =>
                 /\ cache[queue[i].lane] # None =>
                      queue[i].input.state \subseteq {cache[queue[i].lane].origin}
                 /\ \A x \in Requests : run[x] # None => run[x].lane # queue[i].lane
                 /\ \A j \in 1 .. i - 1 : queue'[j].lane # queue[i].lane
      <4>1. \A i \in 1 .. n - 1 : \A j \in 1 .. i - 1 : j \in 1 .. n - 1
        BY <2>3
      <4> QED
        BY <1>3, <2>3, <4>1 DEF Anchored
    <3> QED
      BY <1>5, <2>1, <2>3, <2>4, <3>1, <3>2 DEF Anchored
  <2>12. ViewSound'
    <3>1. \A m \in Lanes : view'[m] # None => view'[m] = view[m]
      BY <1>2, <2>2 DEF TypeOK
    <3> QED
      BY <1>3, <1>5, <2>2, <3>1 DEF ViewSound
  <2>13. Unknown'
    <3>1. \A x \in Requests : x > q => x > sent
      BY <1>6 DEF Requests
    <3> QED
      BY <1>3, <1>5, <1>6, <2>1, <2>2, <2>3, <2>4, <3>1 DEF Unknown
  <2>14. Ordered'
    <3>1. \A i \in 1 .. n : queue'[i].id <= q
      BY <1>6, <2>1, <2>3, <2>4, <2>5 DEF Requests
    <3>2. \A i, j \in 1 .. n : i < j => queue'[i].id < queue'[j].id
      <4> SUFFICES ASSUME NEW i \in 1 .. n, NEW j \in 1 .. n, i < j
                   PROVE  queue'[i].id < queue'[j].id
        OBVIOUS
      <4>1. i \in 1 .. n - 1
        BY <2>3
      <4>2. CASE j = n
        BY <2>1, <2>3, <2>5, <4>1, <4>2
      <4>3. CASE j # n
        BY <1>3, <2>3, <2>4, <4>1, <4>3 DEF Ordered
      <4> QED
        BY <4>2, <4>3
    <3>3. \A x \in Requests : run[x] # None => \A i \in 1 .. n :
            queue'[i].id # x /\ (queue'[i].lane = run[x].lane => x < queue'[i].id)
      BY <1>3, <2>1, <2>3, <2>4, <2>6 DEF Ordered
    <3> QED
      BY <1>3, <1>5, <2>3, <2>6, <3>1, <3>2, <3>3 DEF Ordered
  <2> QED
    BY <1>7, <2>7, <2>10, <2>11, <2>12, <2>13, <2>14 DEF Live
<1> QED
  BY <1>8, <1>9

\* A startable request is the oldest its lane holds.
LEMMA StartableFirst ==
  ASSUME TypeOK, Ordered, NEW i \in DOMAIN queue, Startable(i)
  PROVE  /\ Held(queue[i].lane, queue[i].id)
         /\ \A p \in Requests : Held(queue[i].lane, p) => queue[i].id <= p
         /\ \A m \in Lanes : Held(m, queue[i].id) => m = queue[i].lane
         /\ run[queue[i].id] = None
         /\ \A x \in Requests : run[x] # None => run[x].lane # queue[i].lane
         /\ \A j \in DOMAIN queue : queue[j].lane = queue[i].lane /\ j # i => i < j
<1>1. /\ queue[i].lane \notin active
      /\ \A j \in 1 .. i - 1 : queue[j].lane \in active
  BY DEF Startable
<1>2. queue \in Seq(Request) /\ i \in Nat \ {0} /\ i <= Len(queue)
      /\ queue[i].id \in Requests /\ queue[i].lane \in Lanes
  BY ElementTypes DEF TypeOK
<1>3. \A x \in Requests : run[x] # None => run[x].lane # queue[i].lane /\ x # queue[i].id
  BY <1>1 DEF Ordered
<1>4. \A j \in DOMAIN queue : queue[j].lane = queue[i].lane /\ j # i => i < j
  <2> SUFFICES ASSUME NEW j \in DOMAIN queue, queue[j].lane = queue[i].lane, j # i, ~(i < j)
               PROVE  FALSE
    OBVIOUS
  <2>1. j \in 1 .. i - 1
    BY <1>2
  <2> QED
    BY <1>1, <2>1
<1>5. \A j \in DOMAIN queue : queue[j].id = queue[i].id => j = i
  <2> SUFFICES ASSUME NEW j \in DOMAIN queue, queue[j].id = queue[i].id, j # i
               PROVE  FALSE
    OBVIOUS
  <2>1. i < j \/ j < i
    BY <1>2
  <2>2. queue[i].id < queue[i].id
    BY <2>1 DEF Ordered
  <2> QED
    BY <1>2, <2>2, ElementTypes
<1>6. \A p \in Requests : Held(queue[i].lane, p) => queue[i].id <= p
  <2> SUFFICES ASSUME NEW p \in Requests, Held(queue[i].lane, p)
               PROVE  queue[i].id <= p
    OBVIOUS
  <2>1. PICK j \in DOMAIN queue : queue[j].id = p /\ queue[j].lane = queue[i].lane
    BY <1>3 DEF Held
  <2>2. j = i \/ queue[i].id < p
    BY <1>4, <2>1 DEF Ordered
  <2> QED
    BY <1>2, <2>1, <2>2, ElementTypes
<1>7. \A m \in Lanes : Held(m, queue[i].id) => m = queue[i].lane
  BY <1>2, <1>3, <1>5 DEF Held
<1>8. Held(queue[i].lane, queue[i].id) /\ run[queue[i].id] = None
  BY <1>2, <1>3 DEF Held
<1> QED
  BY <1>3, <1>4, <1>6, <1>7, <1>8

\* A terminal event teaches the client of nothing else.
LEMMA AnswerView ==
  ASSUME TypeOK, ViewSound, Unknown, NEW l \in Lanes, NEW q \in Requests, NEW result,
         Answer(l, q, result), known[q] = None
  PROVE  /\ sent' = sent /\ known'[q] = result
         /\ \A x \in Requests \ {q} : known'[x] = known[x]
         /\ \A m \in Lanes : view[m] # None => known'[view[m]] = known[view[m]]
         /\ \A m \in Lanes : view'[m] = IF m = l /\ result.ok THEN q ELSE view[m]
  BY DEF TypeOK, ViewSound, Answer

\* What is left in the queue keeps its order and its place behind what runs.
LEMMA ShorterQueue ==
  ASSUME TypeOK, NEW i \in DOMAIN queue, queue' = RemoveAt(queue, i)
  PROVE  /\ \A j \in DOMAIN queue' : \E k \in DOMAIN queue :
              /\ k # i /\ queue'[j] = queue[k]
              /\ \A a \in DOMAIN queue' : a < j =>
                   \E b \in DOMAIN queue : b < k /\ queue'[a] = queue[b]
         /\ \A k \in DOMAIN queue : k # i => \E j \in DOMAIN queue' : queue'[j] = queue[k]
         /\ \A j \in DOMAIN queue' : \A a \in 1 .. j - 1 : a \in DOMAIN queue' /\ a < j
<1>1. queue \in Seq(Request) /\ i \in Nat /\ queue' \in Seq(Request)
  BY Removed DEF TypeOK
<1>2. \A j \in DOMAIN queue' : \E k \in DOMAIN queue :
        k # i /\ queue'[j] = queue[k] /\ k = IF j < i THEN j ELSE j + 1
  BY <1>1, Stay
<1>3. ASSUME NEW j \in DOMAIN queue'
      PROVE  \E k \in DOMAIN queue :
               /\ k # i /\ queue'[j] = queue[k]
               /\ \A a \in DOMAIN queue' : a < j =>
                    \E b \in DOMAIN queue : b < k /\ queue'[a] = queue[b]
  <2>1. PICK k \in DOMAIN queue : k # i /\ queue'[j] = queue[k] /\ k = IF j < i THEN j ELSE j + 1
    BY <1>2
  <2>2. ASSUME NEW a \in DOMAIN queue', a < j
        PROVE  \E b \in DOMAIN queue : b < k /\ queue'[a] = queue[b]
    <3>1. PICK b \in DOMAIN queue : queue'[a] = queue[b] /\ b = IF a < i THEN a ELSE a + 1
      BY <1>2
    <3>2. b < k
      BY <1>1, <2>1, <2>2, <3>1
    <3> QED
      BY <3>1, <3>2
  <2> QED
    BY <2>1, <2>2
<1>4. \A k \in DOMAIN queue : k # i => \E j \in DOMAIN queue' : queue'[j] = queue[k]
  BY <1>1, Stay
<1>5. \A j \in DOMAIN queue' : \A a \in 1 .. j - 1 : a \in DOMAIN queue' /\ a < j
  BY <1>1
<1> QED
  BY <1>3, <1>4, <1>5

LEMMA DispatchLive ==
  ASSUME BridgeInv, NEW i \in DOMAIN queue, Dispatch(i)
  PROVE  InTurn' /\ (open' => Live')
<1>1. open
  BY DEF Dispatch
<1>2. TypeOK /\ InTurn /\ Live
  BY <1>1 DEF BridgeInv
<1>3. ViewSound /\ Unknown /\ Ordered /\ Anchored /\ Channel /\ Accounted
  BY <1>2 DEF Live
<1>4. PICK r \in Request :
           /\ r = queue[i] /\ r.id \in Requests /\ r.lane \in Lanes
           /\ Startable(i) /\ queue' = RemoveAt(queue, i)
           /\ UNCHANGED <<outbox, accepted>>
           /\ \/ /\ active' = active \cup {r.lane}
                 /\ UNCHANGED <<open, cache, answered, client>>
                 /\ \E t \in Run :
                      run' = [run EXCEPT ![r.id] = t] /\ t.lane = r.lane
              \/ /\ UNCHANGED <<active, run>>
                 /\ cache' = failed(r.lane, r.prev)
                 /\ \/ open' = FALSE /\ UNCHANGED <<answered, client>>
                    \/ open' = open /\ Answer(r.lane, r.id, Rejected)
  BY <1>2, Dispatched
<1>5. /\ Held(r.lane, r.id)
      /\ \A p \in Requests : Held(r.lane, p) => r.id <= p
      /\ \A m \in Lanes : Held(m, r.id) => m = r.lane
      /\ run[r.id] = None
      /\ \A x \in Requests : run[x] # None => run[x].lane # r.lane
      /\ \A j \in DOMAIN queue : queue[j].lane = r.lane /\ j # i => i < j
  BY <1>2, <1>3, <1>4, StartableFirst
<1>6. known[r.id] = None /\ r.id <= sent
  BY <1>3, <1>4 DEF Unknown, Ordered
<1>7. \A k \in DOMAIN queue : k # i => queue[k].id # r.id /\ queue[k].id \in Requests
  <2>1. \A k \in DOMAIN queue : queue[k].id \in Int /\ (k < i \/ k = i \/ i < k)
    BY <1>2, ElementTypes DEF TypeOK
  <2> QED
    BY <1>2, <1>3, <1>4, <2>1, ElementTypes DEF Ordered
<1>8. \A j \in DOMAIN queue' : \E k \in DOMAIN queue :
              /\ k # i /\ queue'[j] = queue[k]
              /\ \A a \in DOMAIN queue' : a < j =>
                   \E b \in DOMAIN queue : b < k /\ queue'[a] = queue[b]
  BY <1>2, <1>4, ShorterQueue
<1>9. \A k \in DOMAIN queue : k # i => \E j \in DOMAIN queue' : queue'[j] = queue[k]
  BY <1>2, <1>4, ShorterQueue
<1>10. \A j \in DOMAIN queue' : queue'[j].id <= sent
  BY <1>3, <1>8 DEF Ordered
<1>11. \A a, j \in DOMAIN queue' : a < j => queue'[a].id < queue'[j].id
  <2> SUFFICES ASSUME NEW a \in DOMAIN queue', NEW j \in DOMAIN queue', a < j
               PROVE  queue'[a].id < queue'[j].id
    OBVIOUS
  <2>1. PICK k \in DOMAIN queue : queue'[j] = queue[k] /\
              \E b \in DOMAIN queue : b < k /\ queue'[a] = queue[b]
    BY <1>8
  <2> QED
    BY <1>3, <2>1 DEF Ordered
\* Requests that stay queued keep their claim on the lane's response.
<1>12. ASSUME \A l \in Lanes : cache'[l] # None => cache'[l] = cache[l],
              \A x \in Requests : run'[x] # None =>
                (run[x] # None /\ run'[x].lane = run[x].lane) \/ run'[x].lane = r.lane
       PROVE  Anchored'
  <2> SUFFICES ASSUME NEW j \in DOMAIN queue'
               PROVE  /\ queue'[j].prev # None => queue'[j].input.state = {}
                      /\ queue'[j].input.state # {} =>
                           /\ cache'[queue'[j].lane] # None =>
                                queue'[j].input.state \subseteq {cache'[queue'[j].lane].origin}
                           /\ \A x \in Requests : run'[x] # None => run'[x].lane # queue'[j].lane
                           /\ \A a \in 1 .. j - 1 : queue'[a].lane # queue'[j].lane
    BY DEF Anchored
  <2>1. PICK k \in DOMAIN queue :
              /\ k # i /\ queue'[j] = queue[k]
              /\ \A a \in DOMAIN queue' : a < j =>
                   \E b \in DOMAIN queue : b < k /\ queue'[a] = queue[b]
    BY <1>8
  <2>2. queue[k].prev # None => queue[k].input.state = {}
    BY <1>3 DEF Anchored
  <2>3. ASSUME queue[k].input.state # {}
        PROVE  /\ cache'[queue[k].lane] # None =>
                    queue[k].input.state \subseteq {cache'[queue[k].lane].origin}
               /\ \A x \in Requests : run'[x] # None => run'[x].lane # queue[k].lane
               /\ \A a \in 1 .. j - 1 : queue'[a].lane # queue[k].lane
    <3>1. /\ cache[queue[k].lane] # None =>
               queue[k].input.state \subseteq {cache[queue[k].lane].origin}
          /\ \A x \in Requests : run[x] # None => run[x].lane # queue[k].lane
          /\ \A b \in 1 .. k - 1 : queue[b].lane # queue[k].lane
      BY <1>3, <2>3 DEF Anchored
    <3>2. queue[k].lane \in Lanes
      BY <1>2, ElementTypes
    <3>3. \A b \in DOMAIN queue : b < k => b \in 1 .. k - 1
      BY <1>2 DEF TypeOK
    <3>4. queue[k].lane # r.lane
      <4> SUFFICES ASSUME queue[k].lane = r.lane
                   PROVE  FALSE
        OBVIOUS
      <4>1. i \in 1 .. k - 1
        BY <1>5, <2>1, <3>3
      <4> QED
        BY <1>4, <3>1, <4>1
    <3>5. \A a \in 1 .. j - 1 : a \in DOMAIN queue' /\ a < j
      BY <1>2, <1>4, ShorterQueue
    <3> QED
      BY <1>12, <2>1, <3>1, <3>2, <3>3, <3>4, <3>5
  <2> QED
    BY <2>1, <2>2, <2>3
<1>13. CASE UNCHANGED <<active, run>> /\ cache' = failed(r.lane, r.prev)
            /\ open' = open /\ Answer(r.lane, r.id, Rejected)
  <2>1. /\ sent' = sent /\ view' = view
        /\ \A x \in Requests \ {r.id} : known'[x] = known[x]
        /\ \A m \in Lanes : view[m] # None => known'[view[m]] = known[view[m]]
    <3>1. view' = view
      BY <1>13 DEF Answer, Rejected
    <3> QED
      BY <1>2, <1>3, <1>4, <1>6, <1>13, <3>1, AnswerView
  <2>2. \A l \in Lanes : cache'[l] # None => cache'[l] = cache[l]
    BY <1>2, <1>4, <1>13, CacheSteps
  <2>3. \A m \in Lanes, p \in Requests : Held(m, p)' <=> Held(m, p) /\ p # r.id
    <3>1. \A m \in Lanes, p \in Requests :
            (\E j \in DOMAIN queue' : queue'[j].id = p /\ queue'[j].lane = m)
              <=> (\E k \in DOMAIN queue : queue[k].id = p /\ queue[k].lane = m) /\ p # r.id
      BY <1>4, <1>7, <1>8, <1>9
    <3> QED
      BY <1>5, <1>13, <3>1 DEF Held
  <2>4. InTurn' /\ Accounted'
    BY <1>2, <1>3, <1>4, <1>5, <1>13, <2>3, AnswerKeeps
  <2>5. Anchored'
    BY <1>12, <1>13, <2>2
  <2>6. ViewSound'
    BY <1>3, <2>1, <2>2 DEF ViewSound
  <2>7. Unknown'
    <3>1. \A x \in Requests : x > sent \/ run[x] # None => x # r.id
      BY <1>2, <1>5, <1>6, ElementTypes
    <3>2. \A j \in DOMAIN queue' : queue'[j].id # r.id /\ known[queue'[j].id] = None
                                   /\ queue'[j].id \in Requests
      BY <1>3, <1>7, <1>8 DEF Unknown
    <3> QED
      BY <1>3, <1>13, <2>1, <3>1, <3>2 DEF Unknown
  <2>8. Ordered'
    BY <1>3, <1>8, <1>10, <1>11, <1>13, <2>1 DEF Ordered
  <2>9. Channel'
    BY <1>3, <1>4, <1>13 DEF Channel
  <2> QED
    BY <2>4, <2>5, <2>6, <2>7, <2>8, <2>9 DEF Live
<1>14. CASE open' = FALSE /\ UNCHANGED <<answered, client>>
  BY <1>2, <1>4, <1>14 DEF InTurn, client
<1>15. CASE /\ active' = active \cup {r.lane}
            /\ UNCHANGED <<open, cache, answered, client>>
            /\ \E t \in Run : run' = [run EXCEPT ![r.id] = t] /\ t.lane = r.lane
  <2>1. PICK t \in Run : run' = [run EXCEPT ![r.id] = t] /\ t.lane = r.lane
    BY <1>15
  <2>2. /\ run'[r.id] = t /\ t # None
        /\ \A x \in Requests \ {r.id} : run'[x] = run[x]
    BY <1>2, <1>4, <2>1, NoneIsNoRecord DEF TypeOK
  <2>3. UNCHANGED <<known, view, sent>>
    BY <1>15 DEF client
  <2>4. InTurn'
    BY <1>2, <1>4, <1>15, <2>3 DEF InTurn
  <2>5. \A m \in Lanes, p \in Requests : Held(m, p)' <=> Held(m, p)
    <3>1. \A m \in Lanes, p \in Requests : p # r.id =>
            ((\E j \in DOMAIN queue' : queue'[j].id = p /\ queue'[j].lane = m)
              <=> \E k \in DOMAIN queue : queue[k].id = p /\ queue[k].lane = m)
      BY <1>4, <1>8, <1>9
    <3>2. \A m \in Lanes : Held(m, r.id) <=> m = r.lane
      BY <1>5
    <3>3. \A m \in Lanes : Held(m, r.id)' <=> m = r.lane
      BY <1>4, <1>7, <1>8, <2>1, <2>2 DEF Held
    <3> QED
      BY <2>2, <3>1, <3>2, <3>3 DEF Held
  <2>6. Accounted'
    <3>1. \A m \in Lanes, p \in Requests : Awaited(m, p)' <=> Awaited(m, p)
      BY <1>4, <1>15 DEF Awaited
    <3> QED
      BY <1>3, <2>5, <3>1 DEF Accounted
  <2>7. Anchored'
    BY <1>12, <1>15, <2>1, <2>2
  <2>8. ViewSound'
    BY <1>3, <1>15, <2>3 DEF ViewSound
  <2>9. Unknown'
    BY <1>3, <1>6, <1>8, <2>2, <2>3 DEF Unknown
  <2>10. Ordered'
    <3>1. \A x \in Requests : run'[x] # None =>
            /\ x <= sent /\ run'[x].lane \in active'
            /\ \A p \in Requests : run'[p] # None /\ run'[p].lane = run'[x].lane => p = x
      <4>1. \A x \in Requests : run[x] # None =>
              /\ x <= sent /\ run[x].lane \in active
              /\ \A p \in Requests : run[p] # None /\ run[p].lane = run[x].lane => p = x
        BY <1>3 DEF Ordered
      <4>2. \A x \in Requests : run'[x] # None =>
              x = r.id \/ (x # r.id /\ run[x] # None /\ run'[x] = run[x] /\ run'[x].lane # r.lane)
        BY <1>5, <2>2
      <4> QED
        BY <1>6, <1>15, <2>1, <2>2, <4>1, <4>2
    <3>2. \A x \in Requests : run'[x] # None => \A j \in DOMAIN queue' :
            queue'[j].id # x /\ (queue'[j].lane = run'[x].lane => x < queue'[j].id)
      <4> SUFFICES ASSUME NEW x \in Requests, run'[x] # None, NEW j \in DOMAIN queue'
                   PROVE  queue'[j].id # x /\ (queue'[j].lane = run'[x].lane => x < queue'[j].id)
        OBVIOUS
      <4>1. PICK k \in DOMAIN queue : k # i /\ queue'[j] = queue[k]
        BY <1>8
      <4>2. CASE x = r.id
        BY <1>3, <1>4, <1>5, <1>7, <2>1, <2>2, <4>1, <4>2 DEF Ordered
      <4>3. CASE x # r.id
        BY <1>3, <2>2, <4>1, <4>3 DEF Ordered
      <4> QED
        BY <4>2, <4>3
    <3> QED
      BY <1>10, <1>11, <2>3, <3>1, <3>2 DEF Ordered
  <2>11. Channel'
    <3>1. \A j \in DOMAIN outbox : outbox[j] \in Requests /\ outbox[j] # r.id
      BY <1>2, <1>3, <1>5 DEF Channel, TypeOK
    <3> QED
      BY <1>3, <1>4, <2>2, <3>1 DEF Channel
  <2> QED
    BY <2>4, <2>6, <2>7, <2>8, <2>9, <2>10, <2>11 DEF Live
<1> QED
  BY <1>4, <1>13, <1>14, <1>15

LEMMA DeliverLive ==
  ASSUME BridgeInv, Deliver
  PROVE  InTurn' /\ (open' => Live')
<1>1. open
  BY DEF Deliver
<1>2. TypeOK /\ InTurn /\ Live /\ RunTied
  BY <1>1 DEF BridgeInv
<1>3. ViewSound /\ Unknown /\ Ordered /\ Anchored /\ Channel /\ Accounted
  BY <1>2 DEF Live
<1>4. PICK q \in Requests, t \in Run, d \in Result :
           /\ q = outbox[1] /\ t = run[q] /\ t # None /\ d = t.result /\ d # None
           /\ t.lane \in Lanes /\ d.known \in Terminal /\ d.cached \in Cached \cup {None}
           /\ 1 \in DOMAIN outbox /\ outbox' = Tail(outbox)
           /\ active' = active \ {t.lane} /\ run' = [run EXCEPT ![q] = None]
           /\ cache' = IF d.known.ok THEN remember(t.lane, d.cached) ELSE failed(t.lane, t.prev)
           /\ UNCHANGED <<queue, accepted>>
           /\ \/ open' = FALSE /\ UNCHANGED <<answered, client>>
              \/ open' = open /\ Answer(t.lane, q, d.known)
  BY <1>2, <1>3, Delivered
<1>5. CASE open' = FALSE /\ UNCHANGED <<answered, client>>
  BY <1>2, <1>4, <1>5 DEF InTurn, client
<1>6. CASE open' = open /\ Answer(t.lane, q, d.known)
  <2>1. /\ run'[q] = None /\ \A x \in Requests \ {q} : run'[x] = run[x]
    BY <1>2, <1>4 DEF TypeOK
  <2>2. known[q] = None /\ q <= sent
    BY <1>3, <1>4 DEF Unknown, Ordered
  <2>3. /\ \A p \in Requests : run[p] # None /\ run[p].lane = t.lane => p = q
        /\ \A k \in DOMAIN queue : queue[k].id # q /\ (queue[k].lane = t.lane => q < queue[k].id)
    BY <1>3, <1>4 DEF Ordered
  <2>4. /\ Held(t.lane, q)
        /\ \A p \in Requests : Held(t.lane, p) => q <= p
        /\ \A m \in Lanes : Held(m, q) => m = t.lane
    <3>1. Held(t.lane, q) /\ \A m \in Lanes : Held(m, q) => m = t.lane
      BY <1>4, <2>3 DEF Held
    <3>2. \A p \in Requests : Held(t.lane, p) => q = p \/ q < p
      BY <2>3 DEF Held
    <3> QED
      BY <1>2, <3>1, <3>2, ElementTypes
  <2>5. \A m \in Lanes, p \in Requests : Held(m, p)' <=> Held(m, p) /\ p # q
    BY <1>4, <2>1, <2>3 DEF Held
  <2>6. InTurn' /\ Accounted'
    BY <1>2, <1>3, <1>4, <1>6, <2>4, <2>5, AnswerKeeps
  <2>7. /\ sent' = sent /\ known'[q] = d.known
        /\ \A x \in Requests \ {q} : known'[x] = known[x]
        /\ \A m \in Lanes : view[m] # None => known'[view[m]] = known[view[m]]
        /\ \A m \in Lanes : view'[m] = IF m = t.lane /\ d.known.ok THEN q ELSE view[m]
    BY <1>2, <1>3, <1>4, <1>6, <2>2, AnswerView
  <2>8. \A m \in Lanes : /\ m # t.lane => cache'[m] = cache[m]
                         /\ m = t.lane /\ d.known.ok => cache'[m] \in {d.cached, None}
                         /\ m = t.lane /\ ~d.known.ok => cache'[m] \in {cache[m], None}
    BY <1>2, <1>4, CacheSteps
  <2>9. Anchored'
    <3>1. \A k \in DOMAIN queue : queue[k].input.state # {} => queue[k].lane # t.lane
      BY <1>3, <1>4 DEF Anchored
    <3>2. \A k \in DOMAIN queue : queue[k].lane \in Lanes
      BY <1>2, ElementTypes
    <3>3. \A x \in Requests : run'[x] # None => run[x] # None /\ run'[x] = run[x]
      BY <2>1
    <3> QED
      BY <1>3, <1>4, <2>8, <3>1, <3>2, <3>3 DEF Anchored
  <2>10. ViewSound'
    <3> SUFFICES ASSUME NEW m \in Lanes, view'[m] # None
                 PROVE  /\ known'[view'[m]] # None
                        /\ cache'[m] # None => known'[view'[m]].state \subseteq {cache'[m].origin}
      BY DEF ViewSound
    <3>1. CASE m = t.lane /\ d.known.ok
      <4>1. d.known # None
        BY <1>4, NoneIsNoRecord
      <4>2. d.cached # None => d.known.state \subseteq {d.cached.origin}
        BY <1>2, <1>4 DEF RunTied, TiedRun, Tied
      <4> QED
        BY <2>7, <2>8, <3>1, <4>1, <4>2
    <3>2. CASE ~(m = t.lane /\ d.known.ok)
      BY <1>3, <2>7, <2>8, <3>2 DEF ViewSound
    <3> QED
      BY <3>1, <3>2
  <2>11. Unknown'
    <3>1. \A x \in Requests : x > sent => x # q
      BY <1>2, <2>2, ElementTypes
    <3>2. \A k \in DOMAIN queue : queue[k].id # q /\ queue[k].id \in Requests
      BY <1>2, <2>3, ElementTypes
    <3> QED
      BY <1>3, <1>4, <2>1, <2>7, <3>1, <3>2 DEF Unknown
  <2>12. Ordered'
    <3>1. \A x \in Requests : run'[x] # None =>
            run[x] # None /\ run'[x] = run[x] /\ x # q /\ run[x].lane # t.lane
      BY <2>1, <2>3
    <3> QED
      BY <1>3, <1>4, <2>7, <3>1 DEF Ordered
  <2>13. Channel'
    <3>1. \A j \in DOMAIN outbox' : j + 1 \in DOMAIN outbox /\ outbox'[j] = outbox[j + 1]
                                    /\ j + 1 # 1 /\ j \in Nat
      BY <1>2, <1>4 DEF TypeOK
    <3>2. \A k \in DOMAIN outbox : k # 1 => outbox[k] # q /\ outbox[k] \in Requests
      BY <1>2, <1>3, <1>4 DEF Channel, TypeOK
    <3>3. \A j, k \in DOMAIN outbox' : j # k => j + 1 # k + 1
      BY <3>1
    <3>4. \A j \in DOMAIN outbox' : run'[outbox'[j]] # None /\ run'[outbox'[j]].result # None
      BY <1>3, <2>1, <3>1, <3>2 DEF Channel
    <3>5. \A j, k \in DOMAIN outbox' : j # k => outbox'[j] # outbox'[k]
      BY <1>3, <3>1, <3>3 DEF Channel
    <3> QED
      BY <3>4, <3>5 DEF Channel
  <2> QED
    BY <2>6, <2>9, <2>10, <2>11, <2>12, <2>13 DEF Live
<1> QED
  BY <1>4, <1>5, <1>6

\* The connection may end, the configuration may change.
LEMMA OutsideLive ==
  ASSUME BridgeInv, ConfigChanged \/ Close \/ UNCHANGED vars
  PROVE  InTurn' /\ (open' => Live')
<1>1. UNCHANGED <<session, run, outbox, accepted, answered, client>> /\ (open' => open)
  BY DEF ConfigChanged, Close, vars
<1>2. InTurn'
  BY <1>1 DEF BridgeInv, InTurn, client
<1>3. ASSUME open'
      PROVE  Live'
  <2>1. Live
    BY <1>1, <1>3 DEF BridgeInv
  <2>2. Accounted'
    BY <1>1, <2>1 DEF Live, Accounted, Awaited, Held, session
  <2> QED
    BY <1>1, <2>1, <2>2 DEF Live, Anchored, ViewSound, Unknown, Ordered, Channel, session, client
<1> QED
  BY <1>2, <1>3

-----------------------------------------------------------------------------
(* Theorems *)

LEMMA BridgeInit == Init => BridgeInv
<1> SUFFICES ASSUME Init
             PROVE  BridgeInv
  OBVIOUS
<1>1. TypeOK
  <2>1. 0 \in 0 .. MaxRequests
    BY BridgeConstants
  <2>2. \A S : <<>> \in Seq(S)
    OBVIOUS
  <2> QED
    BY <2>1, <2>2 DEF Init, TypeOK
<1>2. CacheTied /\ RunTied /\ InTurn
  BY DEF Init, CacheTied, RunTied, InTurn
<1>3. Anchored /\ ViewSound /\ Unknown /\ Ordered /\ Channel
  BY DEF Init, Anchored, ViewSound, Unknown, Ordered, Channel
<1>4. Accounted
  BY DEF Init, Accounted, Awaited, Held
<1> QED
  BY <1>1, <1>2, <1>3, <1>4 DEF BridgeInv, Live

\* BridgeInv is inductive: it holds of every reachable state.
THEOREM BridgeInvariant == Spec => []BridgeInv
<1>1. ASSUME BridgeInv, [Next]_vars
      PROVE  BridgeInv'
  <2>1. TypeOK' /\ CacheTied' /\ RunTied'
    BY <1>1, TypeKept, TiedKept
  <2>2. InTurn' /\ (open' => Live')
    BY <1>1, ReceiveLive, DispatchLive, EndingLive, ForwardLive, DeliverLive, OutsideLive
       DEF Next
  <2> QED
    BY <2>1, <2>2 DEF BridgeInv
<1> QED
  BY <1>1, BridgeInit, PTL DEF Spec

\* Types: whatever the client sends and however futures end, the session's
\* state keeps its shape.
THEOREM TypesHold == Spec => []TypeOK
<1>1. BridgeInv => TypeOK
  BY DEF BridgeInv
<1> QED
  BY <1>1, BridgeInvariant, PTL

\* bound_target, origin_target: what only one provider can read is never sent
\* to another.
THEOREM StateStaysHome == Spec => []OriginOnly
<1>1. BridgeInv => OriginOnly
  BY DEF BridgeInv, RunTied, TiedRun, Tied, OriginOnly
<1> QED
  BY <1>1, BridgeInvariant, PTL

\* Session::next and the result channel: the requests of a lane are answered
\* in their order, each once.
THEOREM AnsweredInOrder == Spec => []LaneOrder
<1>1. ASSUME BridgeInv
      PROVE  LaneOrder
  <2> SUFFICES ASSUME NEW l \in Lanes
               PROVE  IsPrefix(answered[l], accepted[l])
    BY DEF LaneOrder
  <2>1. /\ accepted[l] \in Seq(Requests) /\ answered[l] \in Seq(Requests)
        /\ Len(answered[l]) <= Len(accepted[l])
        /\ \A i \in DOMAIN answered[l] : answered[l][i] = accepted[l][i]
    BY <1>1, ElementTypes DEF BridgeInv, InTurn
  <2> QED
    BY <2>1, PrefixByElement
<1> QED
  BY <1>1, BridgeInvariant, PTL

\* Session::failed and remember: a kept response goes only with an answer of
\* its own lane, and on a failure only if the failed request continued it.
THEOREM ParentsKept == Spec => ParentKept
<1>1. ASSUME BridgeInv, [Next]_vars
      PROVE  [\A l \in Lanes :
                cache[l] # None /\ cache'[l] # cache[l] =>
                  \/ ~open'
                  \/ \E q \in Requests :
                       /\ answered'[l] = Append(answered[l], q)
                       /\ known'[q].ok \/ \E r \in Range(queue) \cup Range(run) :
                                            r # None /\ r.lane = l /\ r.prev = cache[l].id]_vars
  <2> SUFFICES ASSUME NEW l \in Lanes, cache[l] # None, cache'[l] # cache[l], open'
               PROVE  \E q \in Requests :
                        /\ answered'[l] = Append(answered[l], q)
                        /\ known'[q].ok \/ \E r \in Range(queue) \cup Range(run) :
                                             r # None /\ r.lane = l /\ r.prev = cache[l].id
    OBVIOUS
  <2>1. TypeOK /\ RunTied
    BY <1>1 DEF BridgeInv
  <2>2. ASSUME NEW i \in DOMAIN queue, Dispatch(i)
        PROVE  \E q \in Requests :
                 /\ answered'[l] = Append(answered[l], q)
                 /\ known'[q].ok \/ \E r \in Range(queue) \cup Range(run) :
                                      r # None /\ r.lane = l /\ r.prev = cache[l].id
    <3>1. PICK r \in Request :
            /\ r = queue[i] /\ r.id \in Requests /\ r.lane \in Lanes
            /\ \/ UNCHANGED cache
               \/ /\ cache' = failed(r.lane, r.prev)
                  /\ \/ open' = FALSE
                     \/ Answer(r.lane, r.id, Rejected)
      BY <2>1, <2>2, Dispatched
    <3>2. Answer(r.lane, r.id, Rejected) /\ l = r.lane /\ r.prev = cache[l].id
      BY <2>1, <3>1, CacheSteps
    <3>3. answered'[l] = Append(answered[l], r.id)
      BY <2>1, <3>2 DEF TypeOK, Answer
    <3>4. r \in Range(queue)
      BY <3>1 DEF Range
    <3>5. r # None
      BY NoneIsNoRecord
    <3> QED
      BY <3>1, <3>2, <3>3, <3>4, <3>5
  <2>3. ASSUME Deliver
        PROVE  \E q \in Requests :
                 /\ answered'[l] = Append(answered[l], q)
                 /\ known'[q].ok \/ \E r \in Range(queue) \cup Range(run) :
                                      r # None /\ r.lane = l /\ r.prev = cache[l].id
    <3>1. Channel
      BY <1>1, <2>3 DEF BridgeInv, Live, Deliver
    <3>2. PICK q \in Requests, t \in Run, d \in Result :
            /\ t = run[q] /\ t # None /\ t.lane \in Lanes
            /\ cache' = IF d.known.ok THEN remember(t.lane, d.cached) ELSE failed(t.lane, t.prev)
            /\ Answer(t.lane, q, d.known)
      BY <2>1, <2>3, <3>1, Delivered
    <3>3. l = t.lane /\ (~d.known.ok => t.prev = cache[l].id)
      BY <2>1, <3>2, CacheSteps
    <3>4. answered'[l] = Append(answered[l], q) /\ known'[q] = d.known
      BY <2>1, <3>2, <3>3 DEF TypeOK, Answer
    <3>5. t \in Range(run)
      BY <2>1, <3>2 DEF Range, TypeOK
    <3> QED
      BY <3>2, <3>3, <3>4, <3>5
  <2>4. ASSUME \/ \E m \in Lanes : Receive(m)
               \/ \E q \in Requests : WarmUp(q) \/ Forward(q) \/ Complete(q) \/ Fail(q)
               \/ ConfigChanged \/ Close \/ UNCHANGED vars
        PROVE  FALSE
    <3>1. cache' = cache
      BY <2>4 DEF Receive, WarmUp, Forward, Complete, Fail, ConfigChanged, Close, vars, session
    <3> QED
      BY <3>1
  <2> QED
    BY <1>1, <2>2, <2>3, <2>4 DEF Next
<1> QED
  BY <1>1, BridgeInvariant, PTL DEF Spec, ParentKept

LimitsInv == IsFiniteSet(lanes) /\ IsFiniteSet(active) /\ WithinLimits

\* MAX_LANES, MAX_ACTIVE and MAX_QUEUED bound the session, although the
\* unnamed lane and lanes already in use are let in at the limit.
THEOREM LimitsHold == Spec => []WithinLimits
<1>1. Init => LimitsInv
  BY FS_EmptySet, BridgeConstants DEF Init, LimitsInv, WithinLimits
<1>2. ASSUME BridgeInv, LimitsInv, [Next]_vars
      PROVE  LimitsInv'
  <2>1. IsFiniteSet(lanes)' /\ Cardinality(lanes)' <= MaxLanes
    <3>1. CASE lanes' = lanes
      BY <1>2, <3>1 DEF LimitsInv, WithinLimits
    <3>2. ASSUME NEW l \in Lanes, Room(l), lanes' = lanes \cup ({l} \ {Unnamed}), lanes' # lanes
          PROVE  IsFiniteSet(lanes)' /\ Cardinality(lanes)' <= MaxLanes
      <4>1. lanes' = lanes \cup {l} /\ l \notin lanes /\ Cardinality(lanes) < MaxLanes
        BY <3>2 DEF Room
      <4>2. IsFiniteSet(lanes) /\ Cardinality(lanes) \in Nat
        BY <1>2, FS_CardinalityType DEF LimitsInv
      <4>3. IsFiniteSet(lanes') /\ Cardinality(lanes') = Cardinality(lanes) + 1
        BY <4>1, <4>2, FS_AddElement
      <4> QED
        BY <4>1, <4>2, <4>3, BridgeConstants
    <3>3. ASSUME NEW l \in Lanes, Receive(l), lanes' # lanes
          PROVE  Room(l) /\ lanes' = lanes \cup ({l} \ {Unnamed})
      <4>1. TypeOK /\ ViewSound
        BY <1>2, <3>3 DEF BridgeInv, Live, Receive
      <4> QED
        BY <3>3, <4>1, Received
    <3> QED
      BY <1>2, <3>1, <3>2, <3>3
         DEF Next, Dispatch, WarmUp, Forward, Complete, Fail, Deliver, ConfigChanged, Close,
             vars, session
  <2>2. IsFiniteSet(active)' /\ Cardinality(active)' <= MaxActive
    <3>1. IsFiniteSet(active) /\ Cardinality(active) \in Nat /\ Cardinality(active) <= MaxActive
      BY <1>2, FS_CardinalityType DEF LimitsInv, WithinLimits
    <3>2. CASE active' = active
      BY <3>1, <3>2
    <3>3. ASSUME NEW i \in DOMAIN queue, Dispatch(i), active' # active
          PROVE  IsFiniteSet(active)' /\ Cardinality(active)' <= MaxActive
      <4>1. active' = active \cup {queue[i].lane} /\ queue[i].lane \notin active
            /\ Cardinality(active) < MaxActive
        BY <3>3 DEF Dispatch, Startable
      <4>2. IsFiniteSet(active') /\ Cardinality(active') = Cardinality(active) + 1
        BY <3>1, <4>1, FS_AddElement
      <4> QED
        BY <3>1, <4>1, <4>2, BridgeConstants
    <3>4. ASSUME Deliver
          PROVE  IsFiniteSet(active)' /\ Cardinality(active)' <= MaxActive
      <4>1. active' \subseteq active
        BY <3>4 DEF Deliver, Freed
      <4>2. IsFiniteSet(active') /\ Cardinality(active') \in Nat
            /\ Cardinality(active') <= Cardinality(active)
        BY <3>1, <4>1, FS_Subset, FS_CardinalityType
      <4> QED
        BY <3>1, <4>2, BridgeConstants
    <3> QED
      BY <1>2, <3>2, <3>3, <3>4
         DEF Next, Receive, WarmUp, Forward, Complete, Fail, ConfigChanged, Close, vars, session
  <2>3. Len(queue)' <= MaxQueued
    <3>1. queue \in Seq(Request) /\ Len(queue) \in Nat /\ Len(queue) <= MaxQueued
      BY <1>2 DEF BridgeInv, TypeOK, LimitsInv, WithinLimits
    <3>2. CASE queue' = queue
      BY <3>1, <3>2
    <3>3. ASSUME NEW l \in Lanes, Receive(l), queue' # queue
          PROVE  Len(queue') <= MaxQueued
      <4>1. TypeOK /\ ViewSound
        BY <1>2, <3>3 DEF BridgeInv, Live, Receive
      <4>2. PICK r \in Request : queue' = Append(queue, r) /\ Room(l)
        BY <3>3, <4>1, Received
      <4>3. Len(queue) < MaxQueued /\ Len(queue') = Len(queue) + 1
        BY <3>1, <4>2 DEF Room
      <4> QED
        BY <3>1, <4>3, BridgeConstants
    <3>4. ASSUME NEW i \in DOMAIN queue, Dispatch(i)
          PROVE  Len(queue') <= MaxQueued
      <4>1. Len(queue') = Len(queue) - 1
        BY <3>1, <3>4, Removed DEF Dispatch
      <4> QED
        BY <3>1, <4>1, BridgeConstants
    <3> QED
      BY <1>2, <3>2, <3>3, <3>4
         DEF Next, WarmUp, Forward, Complete, Fail, Deliver, ConfigChanged, Close, vars, session
  <2> QED
    BY <2>1, <2>2, <2>3 DEF LimitsInv, WithinLimits
<1>3. LimitsInv => WithinLimits
  BY DEF LimitsInv
<1> QED
  BY <1>1, <1>2, <1>3, BridgeInvariant, PTL DEF Spec
=============================================================================
