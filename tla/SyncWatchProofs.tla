--------------------------- MODULE SyncWatchProofs ----------------------------
(***************************************************************************)
(* Proofs about SyncWatch, for every set of threads, every window, cap,    *)
(* interval and back-off: the inductive invariant WatchInv, from which no  *)
(* change waits long and stopped threads end.                              *)
(***************************************************************************)
EXTENDS SyncWatch, TLAPS

\* A thread that runs although it was told to stop does so once; one that has
\* had its turn is not due; its events are counted from the first.
ThreadSound(t) ==
  /\ t.late = 0 \/ (t.late = 1 /\ t.stop /\ t.pc \in {"run", "idle"})
  /\ t.retry = 0 \/ t.next = t.retry
  /\ t.pc = "idle" /\ t.turn => t.next # 0
  /\ t.first = None <=> t.last = None

ThreadsSound == \A w \in Watchers : ThreadSound(thread[w])

LockSound == \A w \in Watchers : thread[w].pc = "run" <=> lock = w

\* The thread started last is alive, and nobody has told it to stop.
CurrentSound == current # None => Alive(current) /\ ~thread[current].stop

\* The current thread is bound to start a run, has armed its debounce or will
\* find the stamp changed, in time for a change that has waited for n ticks.
Alert(t, n) ==
  \/ t.next = t.retry
  \/ t.first # None /\ n <= CheckEvery + t.first /\ (t.turn => n = 0 \/ t.first < Cap)
  \/ t.stamped /\ n <= t.check /\ (t.turn => n = 0 \/ t.check < CheckEvery)

\* What the current thread will do about a change of either kind.
AgeSound ==
  /\ \A k \in Kinds : k \notin dirty => age[k] = 0
  /\ current # None /\ thread[current].pc = "run" =>
       /\ \A k \in Kinds : age[k] = 0
       /\ "local" \in dirty => thread[current].stamped
  /\ current # None /\ thread[current].pc = "idle" =>
       /\ "local" \in Waiting => Alert(thread[current], age["local"])
       /\ \/ thread[current].next = thread[current].retry
          \/ age["remote"] + thread[current].next <= Interval

WatchInv ==
  TypeOK /\ ThreadsSound /\ LockSound /\ CurrentSound /\ AgeSound /\ Prompt

-----------------------------------------------------------------------------
(* Threads *)

\* Fields may be set one by one.
LEMMA ThreadWith ==
  ASSUME NEW t \in Thread
  PROVE  /\ \A v \in {"off", "idle", "waiting", "run"} : [t EXCEPT !.pc = v] \in Thread
         /\ \A v \in BOOLEAN : /\ [t EXCEPT !.stop = v] \in Thread
                               /\ [t EXCEPT !.turn = v] \in Thread
                               /\ [t EXCEPT !.stamped = v] \in Thread
                               /\ [t EXCEPT !.told = v] \in Thread
         /\ \A v \in 0 .. Cap \cup {None} : /\ [t EXCEPT !.last = v] \in Thread
                                            /\ [t EXCEPT !.first = v] \in Thread
         /\ \A v \in 0 .. Larger(MaxDelay, AuthDelay) : [t EXCEPT !.retry = v] \in Thread
         /\ \A v \in Nat : [t EXCEPT !.next = v] \in Thread /\ [t EXCEPT !.late = v] \in Thread
         /\ \A v \in 0 .. MaxFailures : [t EXCEPT !.failures = v] \in Thread
         /\ \A v \in 0 .. CheckEvery : [t EXCEPT !.check = v] \in Thread
<1>1. \A v \in {"off", "idle", "waiting", "run"} : [t EXCEPT !.pc = v] \in Thread
  BY DEF Thread
<1>2. \A v \in BOOLEAN : [t EXCEPT !.stop = v] \in Thread
  BY DEF Thread
<1>3. \A v \in BOOLEAN : [t EXCEPT !.turn = v] \in Thread
  BY DEF Thread
<1>4. \A v \in BOOLEAN : [t EXCEPT !.stamped = v] \in Thread
  BY DEF Thread
<1>5. \A v \in BOOLEAN : [t EXCEPT !.told = v] \in Thread
  BY DEF Thread
<1>6. \A v \in 0 .. Cap \cup {None} : [t EXCEPT !.last = v] \in Thread
  BY DEF Thread
<1>7. \A v \in 0 .. Cap \cup {None} : [t EXCEPT !.first = v] \in Thread
  BY DEF Thread
<1>8. \A v \in 0 .. Larger(MaxDelay, AuthDelay) : [t EXCEPT !.retry = v] \in Thread
  BY DEF Thread
<1>9. \A v \in Nat : [t EXCEPT !.next = v] \in Thread
  BY DEF Thread
<1>10. \A v \in Nat : [t EXCEPT !.late = v] \in Thread
  BY DEF Thread
<1>11. \A v \in 0 .. MaxFailures : [t EXCEPT !.failures = v] \in Thread
  BY DEF Thread
<1>12. \A v \in 0 .. CheckEvery : [t EXCEPT !.check = v] \in Thread
  BY DEF Thread
<1> QED
  BY <1>1, <1>2, <1>3, <1>4, <1>5, <1>6, <1>7, <1>8, <1>9, <1>10, <1>11, <1>12

LEMMA OffFacts ==
  /\ Off \in Thread /\ ThreadSound(Off) /\ Off.pc = "off"
  /\ Fresh \in Thread /\ ThreadSound(Fresh) /\ Fresh.pc = "idle" /\ ~Fresh.stop
  /\ Fresh.next = Fresh.retry
<1>1. Off \in Thread
  BY WatchConstants DEF Off, Thread, Larger
<1>2. Fresh \in Thread
  BY <1>1, ThreadWith DEF Fresh
<1>3. /\ ThreadSound(Off) /\ Off.pc = "off"
      /\ ThreadSound(Fresh) /\ Fresh.pc = "idle" /\ ~Fresh.stop /\ Fresh.next = Fresh.retry
  BY DEF Off, Fresh, ThreadSound
<1> QED
  BY <1>1, <1>2, <1>3

\* A live thread's view of a change, see Notice.
Noticed(t, stamp, event) == [t EXCEPT !.stamped = @ \/ stamp, !.told = @ \/ event]

\* A notice keeps a thread where it is and never costs it an alarm.
LEMMA NoticedFacts ==
  ASSUME NEW t \in Thread, NEW stamp \in BOOLEAN, NEW event \in BOOLEAN
  PROVE  LET u == Noticed(t, stamp, event) IN
         /\ u \in Thread /\ (ThreadSound(t) => ThreadSound(u))
         /\ u.pc = t.pc /\ (u.stop <=> t.stop) /\ u.next = t.next /\ u.retry = t.retry
         /\ u.stamped <=> t.stamped \/ stamp
         /\ \A n \in Nat : Alert(t, n) => Alert(u, n)
<1> DEFINE a == [t EXCEPT !.stamped = @ \/ stamp]
           u == Noticed(t, stamp, event)
<1>1. t.stamped \in BOOLEAN /\ t.told \in BOOLEAN
  BY DEF Thread
<1>2. /\ a \in Thread
      /\ u = [a EXCEPT !.told = t.told \/ event]
  <2>1. a = [t EXCEPT !.stamped = t.stamped \/ stamp] /\ (t.stamped \/ stamp) \in BOOLEAN
    BY <1>1
  <2>2. a \in Thread
    BY <2>1, ThreadWith
  <2>3. u = [a EXCEPT !.told = t.told \/ event]
    BY DEF Noticed, Thread
  <2> QED
    BY <2>2, <2>3
<1>3. u \in Thread
  <2> HIDE DEF a, u
  <2>1. (t.told \/ event) \in BOOLEAN
    BY <1>1
  <2> QED
    BY <1>2, <2>1, ThreadWith
<1>4. /\ u.pc = t.pc /\ u.stop = t.stop /\ u.turn = t.turn /\ u.next = t.next
      /\ u.retry = t.retry /\ u.first = t.first /\ u.last = t.last /\ u.late = t.late
      /\ u.check = t.check /\ (u.stamped <=> t.stamped \/ stamp)
  BY DEF Noticed, Thread
<1> HIDE DEF u
<1>5. ThreadSound(t) => ThreadSound(u)
  BY <1>4 DEF ThreadSound
<1>6. \A n \in Nat : Alert(t, n) => Alert(u, n)
  BY <1>4 DEF Alert
<1> QED
  BY <1>3, <1>4, <1>5, <1>6 DEF u

\* What a turn sees, field by field.
LEMMA LookedFacts ==
  ASSUME NEW t \in Thread
  PROVE  LET u == Looked(t) IN
         /\ u \in Thread
         /\ u.pc = t.pc /\ u.stop = t.stop /\ u.turn = t.turn
         /\ u.retry = t.retry /\ u.next = t.next /\ u.late = t.late
         /\ u.check = IF t.check >= CheckEvery THEN 0 ELSE t.check
         /\ u.stamped <=> t.stamped /\ t.check < CheckEvery
         /\ u.first = IF Observed(t) /\ t.first = None THEN 0 ELSE t.first
         /\ u.last = IF Observed(t) THEN 0 ELSE t.last
<1> DEFINE a == [t EXCEPT !.told = FALSE]
           b == [a EXCEPT !.stamped = t.stamped /\ t.check < CheckEvery]
           c == [b EXCEPT !.check = IF t.check >= CheckEvery THEN 0 ELSE t.check]
           d == [c EXCEPT !.first = IF t.first = None THEN 0 ELSE t.first]
           e == [d EXCEPT !.last = 0]
<1>1. /\ t.stamped \in BOOLEAN /\ t.check \in 0 .. CheckEvery
      /\ t.first \in 0 .. Cap \cup {None} /\ 0 \in 0 .. Cap /\ 0 \in 0 .. CheckEvery
  BY WatchConstants DEF Thread
<1>2. Looked(t) = IF Observed(t) THEN e ELSE c
  BY DEF Looked, record_event, Thread
<1>3. a \in Thread
  BY ThreadWith
<1>4. /\ a.pc = t.pc /\ a.stop = t.stop /\ a.turn = t.turn
      /\ a.retry = t.retry /\ a.next = t.next /\ a.late = t.late
      /\ a.first = t.first /\ a.last = t.last
  BY DEF Thread
<1> HIDE DEF a
<1>5. b \in Thread
  <2>1. (t.stamped /\ t.check < CheckEvery) \in BOOLEAN
    BY <1>1
  <2> QED
    BY <1>3, <2>1, ThreadWith
<1>6. /\ b.pc = t.pc /\ b.stop = t.stop /\ b.turn = t.turn
      /\ b.retry = t.retry /\ b.next = t.next /\ b.late = t.late
      /\ b.first = t.first /\ b.last = t.last
      /\ b.stamped <=> t.stamped /\ t.check < CheckEvery
  BY <1>3, <1>4 DEF Thread
<1> HIDE DEF b
<1>7. c \in Thread
  BY <1>1, <1>5, ThreadWith
<1>8. /\ c.pc = t.pc /\ c.stop = t.stop /\ c.turn = t.turn
      /\ c.retry = t.retry /\ c.next = t.next /\ c.late = t.late
      /\ c.first = t.first /\ c.last = t.last
      /\ c.stamped <=> t.stamped /\ t.check < CheckEvery
      /\ c.check = IF t.check >= CheckEvery THEN 0 ELSE t.check
  BY <1>5, <1>6 DEF Thread
<1> HIDE DEF c
<1>9. d \in Thread
  BY <1>1, <1>7, ThreadWith
<1>10. /\ d.pc = t.pc /\ d.stop = t.stop /\ d.turn = t.turn
       /\ d.retry = t.retry /\ d.next = t.next /\ d.late = t.late
       /\ d.first = IF t.first = None THEN 0 ELSE t.first
       /\ d.stamped <=> t.stamped /\ t.check < CheckEvery
       /\ d.check = IF t.check >= CheckEvery THEN 0 ELSE t.check
  BY <1>7, <1>8 DEF Thread
<1> HIDE DEF d
<1>11. e \in Thread
  BY <1>1, <1>9, ThreadWith
<1>12. /\ e.pc = t.pc /\ e.stop = t.stop /\ e.turn = t.turn
       /\ e.retry = t.retry /\ e.next = t.next /\ e.late = t.late
       /\ e.first = IF t.first = None THEN 0 ELSE t.first
       /\ e.stamped <=> t.stamped /\ t.check < CheckEvery
       /\ e.check = IF t.check >= CheckEvery THEN 0 ELSE t.check
       /\ e.last = 0
  BY <1>9, <1>10 DEF Thread
<1> HIDE DEF e
<1>13. CASE Observed(t)
  BY <1>2, <1>11, <1>12, <1>13
<1>14. CASE ~Observed(t)
  BY <1>2, <1>7, <1>8, <1>14
<1> QED
  BY <1>13, <1>14

\* A thread after its turn, see Turn.
AfterTurn(t) ==
  LET u == Looked(t) IN
    IF Stops(t) THEN Off
    ELSE IF Ripe(u) THEN [(IF Due(u) THEN Disarmed(u) ELSE u) EXCEPT !.pc = "waiting"]
    ELSE [u EXCEPT !.turn = TRUE]

\* A turn ends a stopped thread, and only that; otherwise the thread goes for
\* a run or stays alert.
LEMMA TurnFacts ==
  ASSUME NEW t \in Thread, ThreadSound(t), t.pc = "idle", ~t.turn
  PROVE  LET v == AfterTurn(t) IN
         /\ v \in Thread /\ ThreadSound(v) /\ v.pc # "run"
         /\ ~t.stop => v.pc # "off" /\ ~v.stop
         /\ v.pc = "idle" =>
              /\ v.next = t.next /\ v.retry = t.retry
              /\ \A n \in Nat : Alert(t, n) => Alert(v, n)
<1> DEFINE u == Looked(t)
           v == AfterTurn(t)
<1>1. /\ u \in Thread
      /\ u.pc = "idle" /\ u.stop = t.stop /\ u.turn = t.turn
      /\ u.retry = t.retry /\ u.next = t.next /\ u.late = t.late
      /\ u.check = IF t.check >= CheckEvery THEN 0 ELSE t.check
      /\ u.stamped <=> t.stamped /\ t.check < CheckEvery
      /\ u.first = IF Observed(t) /\ t.first = None THEN 0 ELSE t.first
      /\ u.last = IF Observed(t) THEN 0 ELSE t.last
  BY LookedFacts
<1>2. v = IF t.stop THEN Off
          ELSE IF Ripe(u) THEN [(IF Due(u) THEN Disarmed(u) ELSE u) EXCEPT !.pc = "waiting"]
          ELSE [u EXCEPT !.turn = TRUE]
  BY DEF AfterTurn, Stops
<1> HIDE DEF u, v
<1>3. CASE t.stop
  BY <1>2, <1>3, OffFacts DEF v
<1>4. CASE ~t.stop /\ Ripe(u)
  <2> DEFINE x == IF Due(u) THEN Disarmed(u) ELSE u
  <2>1. x \in Thread
    <3>1. [[u EXCEPT !.first = None] EXCEPT !.last = None] \in Thread
      <4>1. [u EXCEPT !.first = None] \in Thread
        BY <1>1, ThreadWith
      <4> QED
        BY <4>1, ThreadWith
    <3>2. Disarmed(u) = [[u EXCEPT !.first = None] EXCEPT !.last = None]
      BY <1>1 DEF Disarmed, Thread
    <3> QED
      BY <1>1, <3>1, <3>2
  <2>2. /\ x.stop = t.stop /\ x.retry = t.retry /\ x.next = t.next /\ x.late = t.late
        /\ x.first = None <=> x.last = None
    <3>1. u.first = None <=> u.last = None
      BY <1>1, WatchConstants DEF ThreadSound
    <3> QED
      BY <1>1, <3>1 DEF Disarmed, Thread
  <2>3. v = [x EXCEPT !.pc = "waiting"]
    BY <1>2, <1>4
  <2> HIDE DEF x
  <2>4. v \in Thread
    BY <2>1, <2>3, ThreadWith
  <2>5. /\ v.pc = "waiting" /\ v.stop = t.stop /\ v.retry = t.retry /\ v.next = t.next
        /\ v.late = t.late /\ (v.first = None <=> v.last = None)
    BY <2>1, <2>2, <2>3 DEF Thread
  <2>6. ThreadSound(v)
    BY <1>4, <2>5 DEF ThreadSound
  <2> QED
    BY <1>4, <2>4, <2>5, <2>6 DEF v
<1>5. CASE ~t.stop /\ ~Ripe(u)
  <2>1. v = [u EXCEPT !.turn = TRUE]
    BY <1>2, <1>5
  <2>2. v \in Thread
    BY <1>1, <2>1, ThreadWith
  <2>3. /\ v.pc = "idle" /\ v.stop = t.stop /\ v.turn
        /\ v.retry = t.retry /\ v.next = t.next /\ v.late = t.late
        /\ v.check = u.check /\ (v.stamped <=> u.stamped)
        /\ v.first = u.first /\ v.last = u.last
    BY <1>1, <2>1 DEF Thread
  <2>4. v.first = None <=> v.last = None
    BY <1>1, <2>3, WatchConstants DEF ThreadSound
  <2>5. v.next # 0
    BY <1>1, <1>5, <2>3 DEF Ripe, ThreadSound
  <2>6. ThreadSound(v)
    BY <2>3, <2>4, <2>5 DEF ThreadSound
  <2>7. v.retry = 0 /\ v.first # None => v.first < Cap
    <3>1. v.first \in 0 .. Cap \cup {None}
      BY <2>2 DEF Thread
    <3> QED
      BY <1>1, <1>5, <2>3, <2>4, <3>1, WatchConstants DEF Ripe, Due
  <2>8. ASSUME NEW n \in Nat, Alert(t, n)
        PROVE  Alert(v, n)
    <3>1. CASE v.next = v.retry
      BY <3>1 DEF Alert
    <3>2. CASE v.next # v.retry
      <4>1. v.retry = 0 /\ t.next # t.retry
        BY <2>3, <2>6, <3>2 DEF ThreadSound
      <4>2. CASE t.first # None /\ n <= CheckEvery + t.first
        BY <1>1, <2>3, <2>7, <4>1, <4>2 DEF Alert
      <4>3. CASE t.stamped /\ n <= t.check /\ t.check >= CheckEvery
        <5>1. Observed(t) /\ t.check = CheckEvery
          BY <4>3, WatchConstants DEF Observed, Thread
        <5>2. v.first # None /\ v.first \in 0 .. Cap
          BY <1>1, <2>2, <2>3, <5>1, WatchConstants DEF Thread
        <5>3. n <= CheckEvery + v.first
          BY <4>3, <5>1, <5>2, WatchConstants
        <5> QED
          BY <2>7, <4>1, <5>2, <5>3 DEF Alert
      <4>4. CASE t.stamped /\ n <= t.check /\ ~(t.check >= CheckEvery)
        <5>1. t.check < CheckEvery
          BY <4>4, WatchConstants DEF Thread
        <5> QED
          BY <1>1, <2>3, <4>4, <5>1 DEF Alert
      <4> QED
        BY <2>8, <4>1, <4>2, <4>3, <4>4 DEF Alert
    <3> QED
      BY <3>1, <3>2
  <2> QED
    BY <1>5, <2>2, <2>3, <2>6, <2>8 DEF v
<1> QED
  BY <1>3, <1>4, <1>5 DEF v

\* A live thread one tick later, see Tick.
AfterTick(t) ==
  [t EXCEPT !.turn = FALSE,
     !.last = Later(@, Cap), !.first = Later(@, Cap),
     !.check = Smaller(@ + 1, CheckEvery),
     !.retry = Sooner(@), !.next = Sooner(@)]

LEMMA TickFields ==
  ASSUME NEW t \in Thread
  PROVE  LET v == AfterTick(t) IN
         /\ v \in Thread
         /\ v.pc = t.pc /\ v.stop = t.stop /\ v.stamped = t.stamped /\ v.late = t.late
         /\ ~v.turn
         /\ v.last = Later(t.last, Cap) /\ v.first = Later(t.first, Cap)
         /\ v.check = Smaller(t.check + 1, CheckEvery)
         /\ v.retry = Sooner(t.retry) /\ v.next = Sooner(t.next)
<1> DEFINE v == AfterTick(t)
<1>1. /\ t.last \in 0 .. Cap \cup {None} /\ t.first \in 0 .. Cap \cup {None}
      /\ t.check \in 0 .. CheckEvery /\ t.next \in Nat
      /\ t.retry \in 0 .. Larger(MaxDelay, AuthDelay)
      /\ Larger(MaxDelay, AuthDelay) \in Nat
      /\ Cap \in Nat \ {0} /\ CheckEvery \in Nat \ {0}
  BY WatchConstants DEF Thread, Larger
<1>2. /\ v.pc = t.pc /\ v.stop = t.stop /\ v.stamped = t.stamped /\ v.late = t.late
      /\ v.turn = FALSE
      /\ v.last = Later(t.last, Cap) /\ v.first = Later(t.first, Cap)
      /\ v.check = Smaller(t.check + 1, CheckEvery)
      /\ v.retry = Sooner(t.retry) /\ v.next = Sooner(t.next)
  BY DEF AfterTick, Thread
<1>3. Later(t.last, Cap) \in 0 .. Cap \cup {None} /\ Later(t.first, Cap) \in 0 .. Cap \cup {None}
  BY <1>1, WatchConstants DEF Later, Smaller
<1>4. Smaller(t.check + 1, CheckEvery) \in 0 .. CheckEvery
  BY <1>1 DEF Smaller
<1>5. Sooner(t.next) \in Nat /\ Sooner(t.retry) \in 0 .. Larger(MaxDelay, AuthDelay)
  <2> DEFINE L == Larger(MaxDelay, AuthDelay)
  <2> HIDE DEF L
  <2>1. t.retry \in 0 .. L /\ L \in Nat
    BY <1>1 DEF L
  <2>2. Sooner(t.retry) \in 0 .. L
    BY <2>1 DEF Sooner
  <2> QED
    BY <1>1, <2>2 DEF Sooner, L
<1>6. v \in Thread
  <2> DEFINE a == [t EXCEPT !.turn = FALSE]
             b == [a EXCEPT !.last = Later(t.last, Cap)]
             c == [b EXCEPT !.first = Later(t.first, Cap)]
             d == [c EXCEPT !.check = Smaller(t.check + 1, CheckEvery)]
             e == [d EXCEPT !.retry = Sooner(t.retry)]
             f == [e EXCEPT !.next = Sooner(t.next)]
  <2>1. v = f
    BY DEF AfterTick, Thread
  <2>2. a \in Thread
    BY ThreadWith
  <2> HIDE DEF a
  <2>3. b \in Thread
    BY <1>3, <2>2, ThreadWith
  <2> HIDE DEF b
  <2>4. c \in Thread
    BY <1>3, <2>3, ThreadWith
  <2> HIDE DEF c
  <2>5. d \in Thread
    BY <1>4, <2>4, ThreadWith
  <2> HIDE DEF d
  <2>6. e \in Thread
    BY <1>5, <2>5, ThreadWith
  <2> HIDE DEF e
  <2>7. f \in Thread
    BY <1>5, <2>6, ThreadWith
  <2> QED
    BY <2>1, <2>7
<1> QED
  BY <1>2, <1>6

\* A tick keeps a thread sound; while it does not back off it stays alert,
\* and it can only do so as long as the change has not waited too long.
LEMMA TickFacts ==
  ASSUME NEW t \in Thread, ThreadSound(t), t.pc = "idle" => t.turn
  PROVE  LET v == AfterTick(t) IN
         /\ v \in Thread /\ ThreadSound(v)
         /\ v.pc = t.pc /\ v.stop = t.stop /\ v.stamped = t.stamped /\ v.late = t.late
         /\ t.retry # 0 => v.next = v.retry
         /\ t.retry = 0 /\ t.pc = "idle" =>
              /\ t.next \in Nat \ {0} /\ v.next = t.next - 1
              /\ \A n \in Nat : Alert(t, n) =>
                   /\ Alert(v, n + 1) /\ Alert(v, 0)
                   /\ n + 1 <= CheckEvery + Cap
<1> DEFINE v == AfterTick(t)
<1>1. /\ v \in Thread
      /\ v.pc = t.pc /\ v.stop = t.stop /\ v.stamped = t.stamped /\ v.late = t.late
      /\ ~v.turn
      /\ v.last = Later(t.last, Cap) /\ v.first = Later(t.first, Cap)
      /\ v.check = Smaller(t.check + 1, CheckEvery)
      /\ v.retry = Sooner(t.retry) /\ v.next = Sooner(t.next)
  BY TickFields
<1> HIDE DEF v
<1>2. /\ t.last \in 0 .. Cap \cup {None} /\ t.first \in 0 .. Cap \cup {None}
      /\ t.check \in 0 .. CheckEvery /\ t.next \in Nat
      /\ t.retry \in Nat
      /\ Cap \in Nat \ {0} /\ CheckEvery \in Nat \ {0}
  BY WatchConstants DEF Thread, Larger
<1>3. t.first = None <=> t.last = None
  BY DEF ThreadSound
<1>4. v.first = None <=> v.last = None
  <2>1. ASSUME NEW x \in 0 .. Cap \cup {None}
        PROVE  Later(x, Cap) = None <=> x = None
    BY <2>1, <1>2, WatchConstants DEF Later, Smaller
  <2> QED
    BY <1>1, <1>2, <1>3, <2>1
<1>5. v.retry = 0 \/ v.next = v.retry
  BY <1>1, <1>2 DEF ThreadSound, Sooner
<1>6. ThreadSound(v)
  BY <1>1, <1>4, <1>5 DEF ThreadSound
<1>7. t.retry # 0 => v.next = v.retry
  BY <1>1 DEF ThreadSound
<1>8. ASSUME t.retry = 0, t.pc = "idle"
      PROVE  /\ t.next \in Nat \ {0} /\ v.next = t.next - 1
             /\ \A n \in Nat : Alert(t, n) =>
                  /\ Alert(v, n + 1) /\ Alert(v, 0)
                  /\ n + 1 <= CheckEvery + Cap
  <2>1. t.turn /\ t.next # 0
    BY <1>8 DEF ThreadSound
  <2>2. t.next \in Nat \ {0} /\ v.next = t.next - 1
    BY <1>1, <1>2, <2>1 DEF Sooner
  <2>3. ASSUME NEW n \in Nat, Alert(t, n)
        PROVE  /\ Alert(v, n + 1) /\ Alert(v, 0)
               /\ n + 1 <= CheckEvery + Cap
    <3>1. \/ t.first # None /\ n <= CheckEvery + t.first /\ (n = 0 \/ t.first < Cap)
          \/ t.stamped /\ n <= t.check /\ (n = 0 \/ t.check < CheckEvery)
      BY <1>8, <2>1, <2>3 DEF Alert
    <3>2. CASE t.first # None /\ n <= CheckEvery + t.first /\ (n = 0 \/ t.first < Cap)
      <4>1. t.first \in 0 .. Cap /\ v.first = Smaller(t.first + 1, Cap)
        BY <1>1, <1>2, <3>2 DEF Later
      <4>2. v.first \in 0 .. Cap /\ n + 1 <= CheckEvery + v.first /\ n + 1 <= CheckEvery + Cap
        BY <1>2, <3>2, <4>1 DEF Smaller
      <4>3. v.first # None
        BY <4>2, WatchConstants
      <4> QED
        BY <1>1, <1>2, <4>2, <4>3 DEF Alert
    <3>3. CASE t.stamped /\ n <= t.check /\ (n = 0 \/ t.check < CheckEvery)
      <4>1. n + 1 <= v.check /\ n + 1 <= CheckEvery + Cap /\ v.check \in Nat
        BY <1>1, <1>2, <3>3 DEF Smaller
      <4> QED
        BY <1>1, <3>3, <4>1 DEF Alert
    <3> QED
      BY <3>1, <3>2, <3>3
  <2> QED
    BY <2>2, <2>3
<1> QED
  BY <1>1, <1>6, <1>7, <1>8 DEF v

\* A thread at the end of its run, see Succeed and Fail.
RunEnded(t, f, d, n) ==
  [t EXCEPT !.pc = "idle", !.turn = TRUE, !.failures = f, !.retry = d, !.next = n]

LEMMA EndFacts ==
  ASSUME NEW t \in Thread, ThreadSound(t), t.pc = "run",
         NEW f \in 0 .. MaxFailures, NEW d \in 0 .. Larger(MaxDelay, AuthDelay),
         NEW n \in Nat \ {0}, d = 0 \/ d = n
  PROVE  LET v == RunEnded(t, f, d, n) IN
         /\ v \in Thread /\ ThreadSound(v)
         /\ v.pc = "idle" /\ v.stop = t.stop /\ v.next = n /\ v.retry = d
         /\ t.stamped => Alert(v, 0)
<1> DEFINE v == RunEnded(t, f, d, n)
           a == [t EXCEPT !.pc = "idle"]
           b == [a EXCEPT !.turn = TRUE]
           c == [b EXCEPT !.failures = f]
           e == [c EXCEPT !.retry = d]
           g == [e EXCEPT !.next = n]
<1>1. v = g
  BY DEF RunEnded, Thread
<1>2. /\ v.pc = "idle" /\ v.turn /\ v.stop = t.stop /\ v.next = n /\ v.retry = d
      /\ v.stamped = t.stamped /\ v.check = t.check /\ v.late = t.late
      /\ v.first = t.first /\ v.last = t.last
  BY DEF RunEnded, Thread
<1> HIDE DEF v
<1>3. v \in Thread
  <2>1. a \in Thread
    BY ThreadWith
  <2> HIDE DEF a
  <2>2. b \in Thread
    BY <2>1, ThreadWith
  <2> HIDE DEF b
  <2>3. c \in Thread
    BY <2>2, ThreadWith
  <2> HIDE DEF c
  <2>4. e \in Thread
    BY <2>3, ThreadWith
  <2> HIDE DEF e
  <2>5. g \in Thread
    BY <2>4, ThreadWith
  <2> QED
    BY <1>1, <2>5
<1>4. ThreadSound(v)
  BY <1>2 DEF ThreadSound
<1>5. t.stamped => Alert(v, 0)
  <2>1. v.check \in 0 .. CheckEvery /\ CheckEvery \in Nat
    BY <1>3, WatchConstants DEF Thread
  <2> QED
    BY <1>2, <2>1 DEF Alert
<1> QED
  BY <1>2, <1>3, <1>4, <1>5 DEF v

\* No back-off is empty, and none is longer than the longest.
LEMMA DelayFacts ==
  /\ next_delay(FALSE, 0) = Interval /\ Interval \in Nat \ {0}
  /\ 0 \in 0 .. Larger(MaxDelay, AuthDelay) /\ 0 \in 0 .. MaxFailures
  /\ \A auth \in BOOLEAN, f \in 1 .. MaxFailures :
       /\ next_delay(auth, f) \in 0 .. Larger(MaxDelay, AuthDelay)
       /\ next_delay(auth, f) \in Nat \ {0}
  /\ \A f \in 0 .. MaxFailures : Smaller(f + 1, MaxFailures) \in 1 .. MaxFailures
<1>1. {MaxDelay, AuthDelay, Interval, MaxFailures} \subseteq Nat \ {0}
  BY WatchConstants
<1>2. /\ next_delay(FALSE, 0) = Interval /\ Interval \in Nat \ {0}
      /\ 0 \in 0 .. Larger(MaxDelay, AuthDelay) /\ 0 \in 0 .. MaxFailures
  BY <1>1 DEF next_delay, Larger
<1>3. ASSUME NEW auth \in BOOLEAN, NEW f \in 1 .. MaxFailures
      PROVE  /\ next_delay(auth, f) \in 0 .. Larger(MaxDelay, AuthDelay)
             /\ next_delay(auth, f) \in Nat \ {0}
  <2>1. PICK b \in Nat \ {0} : b = Backoff * 2^f
    BY BackoffGrows
  <2>2. f > 0
    BY <1>1
  <2>3. next_delay(auth, f) = IF auth THEN AuthDelay ELSE Smaller(b, MaxDelay)
    BY <2>1, <2>2 DEF next_delay
  <2> QED
    BY <1>1, <2>1, <2>3 DEF Smaller, Larger
<1>4. \A f \in 0 .. MaxFailures : Smaller(f + 1, MaxFailures) \in 1 .. MaxFailures
  BY <1>1 DEF Smaller
<1> QED
  BY <1>2, <1>3, <1>4

\* A thread that gets the sync lock, see Start.
Started(t) == [t EXCEPT !.pc = "run", !.late = IF t.stop THEN @ + 1 ELSE @]

LEMMA StartedFacts ==
  ASSUME NEW t \in Thread, ThreadSound(t), t.pc = "waiting"
  PROVE  LET v == Started(t) IN
         v \in Thread /\ ThreadSound(v) /\ v.pc = "run" /\ v.stop = t.stop
<1> DEFINE v == Started(t)
           a == [t EXCEPT !.pc = "run"]
           b == [a EXCEPT !.late = IF t.stop THEN 1 ELSE 0]
<1>1. t.late = 0
  BY DEF ThreadSound
<1>2. v = b
  BY <1>1 DEF Started, Thread
<1>3. v \in Thread
  <2>1. a \in Thread
    BY ThreadWith
  <2> HIDE DEF a
  <2>2. (IF t.stop THEN 1 ELSE 0) \in Nat
    OBVIOUS
  <2>3. b \in Thread
    BY <2>1, <2>2, ThreadWith
  <2> QED
    BY <1>2, <2>3
<1>4. /\ v.pc = "run" /\ v.stop = t.stop /\ v.turn = t.turn
      /\ v.late = (IF t.stop THEN 1 ELSE 0)
      /\ v.first = t.first /\ v.last = t.last /\ v.retry = t.retry /\ v.next = t.next
  BY <1>2 DEF Thread
<1> HIDE DEF v
<1>5. ThreadSound(v)
  BY <1>4 DEF ThreadSound
<1> QED
  BY <1>3, <1>4, <1>5 DEF v

\* A live thread that is told to stop, see Restart.
Told(t) == [t EXCEPT !.stop = TRUE]

LEMMA ToldFacts ==
  ASSUME NEW t \in Thread, ThreadSound(t)
  PROVE  Told(t) \in Thread /\ ThreadSound(Told(t)) /\ Told(t).pc = t.pc
<1> DEFINE v == Told(t)
<1>1. v \in Thread
  BY ThreadWith DEF Told
<1>2. /\ v.pc = t.pc /\ v.stop /\ v.turn = t.turn /\ v.late = t.late
      /\ v.first = t.first /\ v.last = t.last /\ v.retry = t.retry /\ v.next = t.next
  BY DEF Thread, Told
<1> HIDE DEF v
<1>3. ThreadSound(v)
  BY <1>2 DEF ThreadSound
<1> QED
  BY <1>1, <1>2, <1>3 DEF v

\* An alarm for a change that has waited is one for a later change.
LEMMA AlertDown ==
  ASSUME NEW t \in Thread, NEW n \in Nat, Alert(t, n)
  PROVE  Alert(t, 0)
<1>1. t.check \in Nat /\ CheckEvery \in Nat /\ Cap \in Nat /\ t.first \in Nat \cup {None}
  BY WatchConstants DEF Thread
<1> QED
  BY <1>1, WatchConstants DEF Alert

-----------------------------------------------------------------------------
(* What changes tell the threads *)

\* A notice leaves every thread where it is and as alert as it was.
LEMMA NoticeFacts ==
  ASSUME TypeOK, ThreadsSound, NEW stamp \in BOOLEAN, NEW event \in BOOLEAN
  PROVE  LET n == Notice(stamp, event) IN
         /\ n \in [Watchers -> Thread]
         /\ \A x \in Watchers :
              /\ ThreadSound(n[x])
              /\ n[x].pc = thread[x].pc /\ (n[x].stop <=> thread[x].stop)
              /\ n[x].next = thread[x].next /\ n[x].retry = thread[x].retry
              /\ Alive(x) => (n[x].stamped <=> thread[x].stamped \/ stamp)
              /\ \A i \in Nat : Alert(thread[x], i) => Alert(n[x], i)
<1> DEFINE n == Notice(stamp, event)
<1>1. n = [x \in Watchers |-> IF ~Alive(x) THEN thread[x]
                              ELSE Noticed(thread[x], stamp, event)]
  BY DEF Notice, Noticed
<1> HIDE DEF n
<1>2. ASSUME NEW x \in Watchers
      PROVE  /\ n[x] \in Thread
             /\ ThreadSound(n[x])
             /\ n[x].pc = thread[x].pc /\ (n[x].stop <=> thread[x].stop)
             /\ n[x].next = thread[x].next /\ n[x].retry = thread[x].retry
             /\ Alive(x) => (n[x].stamped <=> thread[x].stamped \/ stamp)
             /\ \A i \in Nat : Alert(thread[x], i) => Alert(n[x], i)
  <2>1. thread[x] \in Thread /\ ThreadSound(thread[x])
    BY DEF TypeOK, ThreadsSound
  <2>2. CASE ~Alive(x)
    <3>1. n[x] = thread[x]
      BY <1>1, <2>2
    <3> QED
      BY <2>1, <2>2, <3>1
  <2>3. CASE Alive(x)
    <3>1. n[x] = Noticed(thread[x], stamp, event)
      BY <1>1, <2>3
    <3> QED
      BY <2>1, <2>3, <3>1, NoticedFacts
  <2> QED
    BY <2>2, <2>3
<1>3. n \in [Watchers -> Thread]
  <2>1. n = [x \in Watchers |-> n[x]]
    BY <1>1
  <2> QED
    BY <1>2, <2>1
<1> QED
  BY <1>2, <1>3 DEF n

\* The parts of the invariant about a thread's place survive a step after
\* which every thread is where it was.
LEMMA PlacesStay ==
  ASSUME LockSound, CurrentSound, TypeOK, current' = current,
         \A x \in Watchers : thread'[x].pc = thread[x].pc
                             /\ (thread'[x].stop <=> thread[x].stop)
  PROVE  /\ lock' = lock => LockSound'
         /\ CurrentSound'
<1>1. lock' = lock => LockSound'
  BY DEF LockSound
<1>2. CurrentSound'
  BY DEF CurrentSound, Alive, TypeOK
<1> QED
  BY <1>1, <1>2

LEMMA LocalWriteStep ==
  ASSUME WatchInv, LocalWrite
  PROVE  WatchInv'
<1>1. TypeOK /\ ThreadsSound /\ LockSound /\ CurrentSound /\ AgeSound /\ Prompt
  BY DEF WatchInv
<1>2. PICK event \in BOOLEAN : thread' = Notice(TRUE, event)
  BY DEF LocalWrite
<1>3. /\ dirty' = dirty \cup {"local"} /\ changes' = changes + 1
      /\ UNCHANGED <<current, lock, running, age, restarts>>
  BY DEF LocalWrite
<1>4. /\ thread' \in [Watchers -> Thread]
      /\ \A x \in Watchers :
           /\ ThreadSound(thread'[x])
           /\ thread'[x].pc = thread[x].pc /\ (thread'[x].stop <=> thread[x].stop)
           /\ thread'[x].next = thread[x].next /\ thread'[x].retry = thread[x].retry
           /\ Alive(x) => thread'[x].stamped
           /\ \A i \in Nat : Alert(thread[x], i) => Alert(thread'[x], i)
  BY <1>1, <1>2, NoticeFacts
<1>5. TypeOK'
  BY <1>1, <1>3, <1>4 DEF TypeOK, Kinds
<1>6. ThreadsSound'
  BY <1>4 DEF ThreadsSound
<1>7. LockSound' /\ CurrentSound'
  BY <1>1, <1>3, <1>4, PlacesStay
<1>8. AgeSound'
  <2>1. \A k \in Kinds : k \notin dirty' => age'[k] = 0
    BY <1>1, <1>3 DEF AgeSound
  <2>2. ASSUME current # None
        PROVE  /\ current \in Watchers /\ Alive(current) /\ "local" \in Kinds
               /\ age["local"] \in Nat
    BY <1>1, <2>2 DEF TypeOK, CurrentSound, Kinds
  <2>3. ASSUME current # None, thread'[current].pc = "run"
        PROVE  (\A k \in Kinds : age[k] = 0) /\ thread'[current].stamped
    BY <1>1, <1>4, <2>2, <2>3 DEF AgeSound
  <2>4. ASSUME current # None, thread'[current].pc = "idle"
        PROVE  /\ Alert(thread'[current], age["local"])
               /\ \/ thread'[current].next = thread'[current].retry
                  \/ age["remote"] + thread'[current].next <= Interval
    <3>1. /\ "local" \in Waiting => Alert(thread[current], age["local"])
          /\ \/ thread[current].next = thread[current].retry
             \/ age["remote"] + thread[current].next <= Interval
      BY <1>1, <1>4, <2>2, <2>4 DEF AgeSound
    <3>2. CASE "local" \in Waiting
      BY <1>4, <2>2, <2>4, <3>1, <3>2
    <3>3. CASE "local" \notin Waiting
      <4>1. age["local"] = 0
        BY <1>1, <2>2, <2>4, <3>3 DEF AgeSound, Waiting
      <4>2. thread'[current].check \in Nat /\ thread'[current].stamped
        BY <1>4, <2>2, <2>4, WatchConstants DEF Thread
      <4>3. Alert(thread'[current], 0)
        BY <4>2 DEF Alert
      <4> QED
        BY <1>4, <2>2, <2>4, <3>1, <4>1, <4>3
    <3> QED
      BY <3>2, <3>3
  <2> QED
    BY <1>3, <2>1, <2>3, <2>4 DEF AgeSound
<1>9. Prompt'
  BY <1>1, <1>3 DEF Prompt
<1> QED
  BY <1>5, <1>6, <1>7, <1>8, <1>9 DEF WatchInv

\* A notice together with a step that adds no change the invariant counts on.
LEMMA NoticeStep ==
  ASSUME WatchInv, NEW stamp \in BOOLEAN, NEW event \in BOOLEAN,
         thread' = Notice(stamp, event),
         TypeOK', UNCHANGED <<current, age>>, LockSound',
         "local" \in Waiting' => "local" \in Waiting,
         "local" \in dirty' => "local" \in dirty,
         dirty \subseteq dirty'
  PROVE  WatchInv'
<1>1. TypeOK /\ ThreadsSound /\ LockSound /\ CurrentSound /\ AgeSound /\ Prompt
  BY DEF WatchInv
<1>2. /\ thread' \in [Watchers -> Thread]
      /\ \A x \in Watchers :
           /\ ThreadSound(thread'[x])
           /\ thread'[x].pc = thread[x].pc /\ (thread'[x].stop <=> thread[x].stop)
           /\ thread'[x].next = thread[x].next /\ thread'[x].retry = thread[x].retry
           /\ Alive(x) => (thread'[x].stamped <=> thread[x].stamped \/ stamp)
           /\ \A i \in Nat : Alert(thread[x], i) => Alert(thread'[x], i)
  BY <1>1, NoticeFacts
<1>3. ThreadsSound'
  BY <1>2 DEF ThreadsSound
<1>4. CurrentSound'
  BY <1>1, <1>2, PlacesStay
<1>5. AgeSound'
  <2>1. \A k \in Kinds : k \notin dirty' => age'[k] = 0
    BY <1>1 DEF AgeSound
  <2>2. ASSUME current # None
        PROVE  /\ current \in Watchers /\ Alive(current)
               /\ age["local"] \in Nat
    BY <1>1, <2>2 DEF TypeOK, CurrentSound, Kinds
  <2>3. ASSUME current # None, thread'[current].pc = "run"
        PROVE  /\ \A k \in Kinds : age[k] = 0
               /\ "local" \in dirty' => thread'[current].stamped
    BY <1>1, <1>2, <2>2, <2>3 DEF AgeSound
  <2>4. ASSUME current # None, thread'[current].pc = "idle"
        PROVE  /\ "local" \in Waiting' => Alert(thread'[current], age["local"])
               /\ \/ thread'[current].next = thread'[current].retry
                  \/ age["remote"] + thread'[current].next <= Interval
    <3>1. /\ "local" \in Waiting => Alert(thread[current], age["local"])
          /\ \/ thread[current].next = thread[current].retry
             \/ age["remote"] + thread[current].next <= Interval
      BY <1>1, <1>2, <2>2, <2>4 DEF AgeSound
    <3> QED
      BY <1>2, <2>2, <2>4, <3>1
  <2> QED
    BY <2>1, <2>3, <2>4 DEF AgeSound
<1>6. Prompt'
  BY <1>1 DEF Prompt
<1> QED
  BY <1>3, <1>4, <1>5, <1>6 DEF WatchInv

LEMMA RemoteChangeStep ==
  ASSUME WatchInv, RemoteChange
  PROVE  WatchInv'
<1>1. TypeOK /\ ThreadsSound /\ LockSound /\ CurrentSound
  BY DEF WatchInv
<1>2. PICK event \in BOOLEAN : thread' = Notice(FALSE, event)
  BY DEF RemoteChange
<1>3. /\ dirty' = dirty \cup {"remote"} /\ changes' = changes + 1
      /\ UNCHANGED <<current, lock, running, age, restarts>>
  BY DEF RemoteChange
<1>4. /\ thread' \in [Watchers -> Thread]
      /\ \A x \in Watchers :
           /\ thread'[x].pc = thread[x].pc /\ (thread'[x].stop <=> thread[x].stop)
  BY <1>1, <1>2, NoticeFacts
<1>5. TypeOK'
  BY <1>1, <1>3, <1>4 DEF TypeOK, Kinds
<1>6. LockSound'
  BY <1>1, <1>3, <1>4, PlacesStay
<1>7. /\ "local" \in Waiting' => "local" \in Waiting
      /\ "local" \in dirty' => "local" \in dirty
      /\ dirty \subseteq dirty'
  BY <1>3 DEF Waiting
<1> QED
  BY <1>2, <1>3, <1>5, <1>6, <1>7, NoticeStep

LEMMA UserRunEndsStep ==
  ASSUME WatchInv, UserRunEnds
  PROVE  WatchInv'
<1>1. TypeOK /\ ThreadsSound /\ LockSound /\ CurrentSound /\ AgeSound /\ Prompt
  BY DEF WatchInv
<1>2. /\ lock = User /\ lock' = None /\ running' = {}
      /\ UNCHANGED <<current, age, changes, restarts>>
  BY DEF UserRunEnds
<1>3. \A x \in Watchers : thread[x].pc # "run"
  BY <1>1, <1>2, WatchConstants DEF LockSound
<1>4. CASE dirty' = dirty \cup running /\ UNCHANGED thread
  <2>1. TypeOK'
    BY <1>1, <1>2, <1>4 DEF TypeOK
  <2>2. ThreadsSound' /\ CurrentSound' /\ Prompt'
    BY <1>1, <1>2, <1>4 DEF ThreadsSound, CurrentSound, Alive, Prompt
  <2>3. LockSound'
    BY <1>2, <1>3, <1>4, WatchConstants DEF LockSound
  <2>4. Waiting' = Waiting
    BY <1>2, <1>4 DEF Waiting
  <2>5. current # None => current \in Watchers /\ thread[current].pc # "run"
    BY <1>1, <1>3 DEF TypeOK
  <2>6. AgeSound'
    BY <1>1, <1>2, <1>4, <2>4, <2>5 DEF AgeSound
  <2> QED
    BY <2>1, <2>2, <2>3, <2>6 DEF WatchInv
<1>5. CASE /\ thread' = Notice("remote" \in running, "remote" \in running)
           /\ UNCHANGED dirty
  <2>1. ("remote" \in running) \in BOOLEAN
    OBVIOUS
  <2>2. PICK told \in BOOLEAN : thread' = Notice(told, told)
    BY <1>5, <2>1
  <2>3. /\ thread' \in [Watchers -> Thread]
        /\ \A x \in Watchers : thread'[x].pc = thread[x].pc
    BY <1>1, <2>2, NoticeFacts
  <2>4. TypeOK'
    BY <1>1, <1>2, <1>5, <2>3 DEF TypeOK
  <2>5. LockSound'
    BY <1>2, <1>3, <2>3, WatchConstants DEF LockSound
  <2>6. /\ "local" \in Waiting' => "local" \in Waiting
        /\ "local" \in dirty' => "local" \in dirty
        /\ dirty \subseteq dirty'
    BY <1>2, <1>5 DEF Waiting
  <2> QED
    BY <1>2, <2>2, <2>4, <2>5, <2>6, NoticeStep
<1> QED
  BY <1>4, <1>5 DEF UserRunEnds

-----------------------------------------------------------------------------
(* Runs *)

\* A run that begins takes up every change.
LEMMA BeginFacts ==
  ASSUME TypeOK, Begin
  PROVE  /\ running' = Waiting /\ dirty' = {} /\ Waiting' = Waiting
         /\ running' \subseteq Kinds /\ dirty' \subseteq Kinds
         /\ age' \in [Kinds -> Nat] /\ \A k \in Kinds : age'[k] = 0
         /\ age'["local"] = 0 /\ age'["remote"] = 0
         /\ Prompt'
<1>1. /\ running' = Waiting /\ dirty' = {} /\ Waiting' = Waiting
      /\ running' \subseteq Kinds /\ dirty' \subseteq Kinds
  BY DEF Begin, Waiting, TypeOK
<1>2. /\ age' \in [Kinds -> Nat] /\ \A k \in Kinds : age'[k] = 0
      /\ age'["local"] = 0 /\ age'["remote"] = 0
  BY DEF Begin, Kinds
<1>3. Prompt'
  BY <1>2, WatchConstants DEF Prompt
<1> QED
  BY <1>1, <1>2, <1>3

\* What the invariant says of the current thread, once a run has begun.
LEMMA BegunAge ==
  ASSUME TypeOK, AgeSound, CurrentSound, Begin, current' = current,
         current # None /\ thread'[current].pc = "idle" => thread'[current] = thread[current]
  PROVE  AgeSound'
<1>1. /\ running' = Waiting /\ dirty' = {} /\ Waiting' = Waiting
      /\ \A k \in Kinds : age'[k] = 0
      /\ age'["local"] = 0 /\ age'["remote"] = 0
  BY BeginFacts
<1>2. ASSUME current # None, thread'[current].pc = "idle"
      PROVE  /\ "local" \in Waiting => Alert(thread'[current], 0)
             /\ \/ thread'[current].next = thread'[current].retry
                \/ 0 + thread'[current].next <= Interval
  <2>1. /\ current \in Watchers /\ thread[current] \in Thread
        /\ age["local"] \in Nat /\ age["remote"] \in Nat
    BY <1>2 DEF TypeOK, Kinds
  <2>2. /\ "local" \in Waiting => Alert(thread[current], age["local"])
        /\ \/ thread[current].next = thread[current].retry
           \/ age["remote"] + thread[current].next <= Interval
    BY <1>2 DEF AgeSound
  <2>3. "local" \in Waiting => Alert(thread[current], 0)
    BY <2>1, <2>2, AlertDown
  <2>4. thread[current].next \in Nat /\ Interval \in Nat
    BY <2>1, WatchConstants DEF Thread
  <2> QED
    BY <1>2, <2>1, <2>2, <2>3, <2>4
<1> QED
  BY <1>1, <1>2 DEF AgeSound

LEMMA UserRunsStep ==
  ASSUME WatchInv, UserRuns
  PROVE  WatchInv'
<1>1. TypeOK /\ ThreadsSound /\ LockSound /\ CurrentSound /\ AgeSound /\ Prompt
  BY DEF WatchInv
<1>2. lock = None /\ lock' = User /\ Begin /\ UNCHANGED <<thread, current, changes, restarts>>
  BY DEF UserRuns
<1>3. TypeOK'
  BY <1>1, <1>2, BeginFacts DEF TypeOK
<1>4. ThreadsSound' /\ CurrentSound'
  BY <1>1, <1>2 DEF ThreadsSound, CurrentSound, Alive
<1>5. LockSound'
  BY <1>1, <1>2, WatchConstants DEF LockSound
<1>6. AgeSound'
  BY <1>1, <1>2, BegunAge
<1>7. Prompt'
  BY <1>1, <1>2, BeginFacts
<1> QED
  BY <1>3, <1>4, <1>5, <1>6, <1>7 DEF WatchInv

LEMMA StartStep ==
  ASSUME WatchInv, NEW w \in Watchers, Start(w)
  PROVE  WatchInv'
<1>1. TypeOK /\ ThreadsSound /\ LockSound /\ CurrentSound /\ AgeSound /\ Prompt
  BY DEF WatchInv
<1>2. /\ thread[w].pc = "waiting" /\ lock = None /\ lock' = w /\ Begin
      /\ UNCHANGED <<current, changes, restarts>>
  BY DEF Start
<1>3. thread[w] \in Thread /\ ThreadSound(thread[w])
  BY <1>1 DEF TypeOK, ThreadsSound
<1>4. PICK v \in Thread : /\ v = Started(thread[w]) /\ ThreadSound(v) /\ v.pc = "run"
                          /\ v.stop = thread[w].stop
  BY <1>2, <1>3, StartedFacts
<1>5. thread' = [thread EXCEPT ![w] = v]
  <2>1. thread' = [thread EXCEPT ![w] = Started(thread[w])]
    BY <1>1 DEF Start, Started, TypeOK, Thread
  <2> QED
    BY <1>4, <2>1
<1>6. /\ thread' \in [Watchers -> Thread] /\ thread'[w] = v
      /\ \A x \in Watchers : x # w => thread'[x] = thread[x]
  BY <1>1, <1>5 DEF TypeOK
<1>7. TypeOK'
  BY <1>1, <1>2, <1>6, BeginFacts DEF TypeOK
<1>8. ThreadsSound'
  BY <1>1, <1>4, <1>6 DEF ThreadsSound
<1>9. LockSound'
  BY <1>1, <1>2, <1>4, <1>6, WatchConstants DEF LockSound
<1>10. CurrentSound'
  BY <1>1, <1>2, <1>4, <1>6 DEF CurrentSound, Alive, TypeOK
<1>11. AgeSound'
  <2>1. current # None => current \in Watchers
    BY <1>1 DEF TypeOK
  <2>2. current # None /\ thread'[current].pc = "idle" => thread'[current] = thread[current]
    BY <1>4, <1>6, <2>1
  <2> QED
    BY <1>1, <1>2, <2>2, BegunAge
<1>12. Prompt'
  BY <1>1, <1>2, BeginFacts
<1> QED
  BY <1>7, <1>8, <1>9, <1>10, <1>11, <1>12 DEF WatchInv

LEMMA FailStep ==
  ASSUME WatchInv, NEW w \in Watchers, Fail(w)
  PROVE  WatchInv'
<1>1. TypeOK /\ ThreadsSound /\ LockSound /\ CurrentSound /\ AgeSound /\ Prompt
  BY DEF WatchInv
<1>2. /\ thread[w].pc = "run" /\ lock' = None /\ dirty' = dirty \cup running /\ running' = {}
      /\ UNCHANGED <<current, age, changes, restarts>>
  BY DEF Fail
<1>3. thread[w] \in Thread /\ ThreadSound(thread[w]) /\ lock = w
  BY <1>1, <1>2 DEF TypeOK, ThreadsSound, LockSound
<1>4. PICK v \in Thread :
        /\ thread' = [thread EXCEPT ![w] = v]
        /\ ThreadSound(v) /\ v.pc = "idle" /\ v.stop = thread[w].stop /\ v.next = v.retry
  <2>1. PICK auth \in BOOLEAN :
          LET f == Smaller(thread[w].failures + 1, MaxFailures)
              d == next_delay(auth, f)
          IN thread' = [thread EXCEPT ![w] = RunEnded(thread[w], f, d, d)]
    BY <1>1 DEF Fail, RunEnded, TypeOK
  <2>2. thread[w].failures \in 0 .. MaxFailures
    BY <1>3 DEF Thread
  <2>3. PICK f \in 1 .. MaxFailures : f = Smaller(thread[w].failures + 1, MaxFailures)
    BY <2>2, DelayFacts
  <2>4. PICK d \in 0 .. Larger(MaxDelay, AuthDelay) : d = next_delay(auth, f) /\ d \in Nat \ {0}
    BY DelayFacts
  <2>5. thread' = [thread EXCEPT ![w] = RunEnded(thread[w], f, d, d)]
    BY <2>1, <2>3, <2>4
  <2>6. f \in 0 .. MaxFailures
    BY WatchConstants
  <2>7. /\ RunEnded(thread[w], f, d, d) \in Thread
        /\ ThreadSound(RunEnded(thread[w], f, d, d))
        /\ RunEnded(thread[w], f, d, d).pc = "idle"
        /\ RunEnded(thread[w], f, d, d).stop = thread[w].stop
        /\ RunEnded(thread[w], f, d, d).next = RunEnded(thread[w], f, d, d).retry
    BY <1>2, <1>3, <2>4, <2>6, EndFacts
  <2> QED
    BY <2>5, <2>7
<1>5. /\ thread' \in [Watchers -> Thread] /\ thread'[w] = v
      /\ \A x \in Watchers : x # w => thread'[x] = thread[x]
  BY <1>1, <1>4 DEF TypeOK
<1>6. TypeOK'
  BY <1>1, <1>2, <1>5 DEF TypeOK
<1>7. ThreadsSound'
  BY <1>1, <1>4, <1>5 DEF ThreadsSound
<1>8. LockSound'
  BY <1>1, <1>2, <1>3, <1>4, <1>5, WatchConstants DEF LockSound
<1>9. CurrentSound'
  BY <1>1, <1>2, <1>4, <1>5 DEF CurrentSound, Alive, TypeOK
<1>10. AgeSound'
  <2>1. Waiting' = Waiting /\ dirty \subseteq dirty'
    BY <1>2 DEF Waiting
  <2>2. \A k \in Kinds : k \notin dirty' => age'[k] = 0
    BY <1>1, <1>2, <2>1 DEF AgeSound
  <2>3. ASSUME current # None
        PROVE  /\ current \in Watchers /\ thread'[current].pc # "run"
               /\ thread'[current].pc = "idle" =>
                    \/ thread'[current].next = thread'[current].retry
                    \/ thread'[current] = thread[current]
    <3>1. current \in Watchers
      BY <1>1, <2>3 DEF TypeOK
    <3>2. current # w => thread[current].pc # "run"
      BY <1>1, <1>3, <3>1 DEF LockSound
    <3> QED
      BY <1>4, <1>5, <3>1, <3>2
  <2>4. ASSUME current # None, thread'[current].pc = "idle"
        PROVE  /\ "local" \in Waiting => Alert(thread'[current], age["local"])
               /\ \/ thread'[current].next = thread'[current].retry
                  \/ age["remote"] + thread'[current].next <= Interval
    <3>1. CASE thread'[current].next = thread'[current].retry
      BY <3>1 DEF Alert
    <3>2. CASE thread'[current] = thread[current]
      BY <1>1, <2>4, <3>2 DEF AgeSound
    <3> QED
      BY <2>3, <2>4, <3>1, <3>2
  <2> QED
    BY <1>2, <2>1, <2>2, <2>3, <2>4 DEF AgeSound
<1>11. Prompt'
  BY <1>1, <1>2 DEF Prompt
<1> QED
  BY <1>6, <1>7, <1>8, <1>9, <1>10, <1>11 DEF WatchInv

LEMMA SucceedStep ==
  ASSUME WatchInv, NEW w \in Watchers, Succeed(w)
  PROVE  WatchInv'
<1>1. TypeOK /\ ThreadsSound /\ LockSound /\ CurrentSound /\ AgeSound /\ Prompt
  BY DEF WatchInv
<1>2. /\ thread[w].pc = "run" /\ lock' = None /\ running' = {}
      /\ UNCHANGED <<current, dirty, age, changes, restarts>>
  BY DEF Succeed
<1>3. thread[w] \in Thread /\ lock = w /\ Alive(w)
  BY <1>1, <1>2 DEF TypeOK, LockSound, Alive
<1>4. PICK told \in BOOLEAN : told <=> "remote" \in running
  OBVIOUS
<1>5. PICK n \in [Watchers -> Thread] : n = Notice(told, told)
  BY <1>1, NoticeFacts
<1>6. \A x \in Watchers :
           /\ ThreadSound(n[x])
           /\ n[x].pc = thread[x].pc /\ (n[x].stop <=> thread[x].stop)
           /\ n[x].next = thread[x].next /\ n[x].retry = thread[x].retry
           /\ Alive(x) => (n[x].stamped <=> thread[x].stamped \/ told)
           /\ \A i \in Nat : Alert(thread[x], i) => Alert(n[x], i)
  BY <1>1, <1>5, NoticeFacts
<1>7. PICK v \in Thread :
        /\ thread' = [n EXCEPT ![w] = v]
        /\ ThreadSound(v) /\ v.pc = "idle" /\ (v.stop <=> thread[w].stop)
        /\ v.next = Interval /\ v.retry = 0
        /\ thread[w].stamped => Alert(v, 0)
  <2>1. thread' = [n EXCEPT ![w] = RunEnded(n[w], 0, 0, Interval)]
    <3>1. ("remote" \in running) = told
      BY <1>4
    <3> QED
      BY <1>5, <3>1, DelayFacts DEF Succeed, RunEnded
  <2>2. n[w] \in Thread /\ ThreadSound(n[w]) /\ n[w].pc = "run"
    BY <1>2, <1>6
  <2>3. /\ RunEnded(n[w], 0, 0, Interval) \in Thread
        /\ ThreadSound(RunEnded(n[w], 0, 0, Interval))
        /\ RunEnded(n[w], 0, 0, Interval).pc = "idle"
        /\ RunEnded(n[w], 0, 0, Interval).stop = n[w].stop
        /\ RunEnded(n[w], 0, 0, Interval).next = Interval
        /\ RunEnded(n[w], 0, 0, Interval).retry = 0
        /\ n[w].stamped => Alert(RunEnded(n[w], 0, 0, Interval), 0)
    BY <2>2, DelayFacts, EndFacts
  <2>4. (n[w].stop <=> thread[w].stop) /\ (thread[w].stamped => n[w].stamped)
    BY <1>3, <1>6
  <2> QED
    BY <2>1, <2>3, <2>4
<1>8. /\ thread' \in [Watchers -> Thread] /\ thread'[w] = v
      /\ \A x \in Watchers : x # w => thread'[x] = n[x]
  BY <1>7
<1>9. TypeOK'
  BY <1>1, <1>2, <1>8 DEF TypeOK
<1>10. ThreadsSound'
  BY <1>6, <1>7, <1>8 DEF ThreadsSound
<1>11. LockSound'
  BY <1>1, <1>2, <1>3, <1>6, <1>7, <1>8, WatchConstants DEF LockSound
<1>12. CurrentSound'
  <2>1. current # None => current \in Watchers
    BY <1>1 DEF TypeOK
  <2>2. \A x \in Watchers : /\ Alive(x) => thread'[x].pc # "off"
                            /\ thread'[x].stop <=> thread[x].stop
    BY <1>6, <1>7, <1>8 DEF Alive
  <2> QED
    BY <1>1, <1>2, <2>1, <2>2 DEF CurrentSound, Alive
<1>13. AgeSound'
  <2>1. Waiting' = dirty /\ dirty \subseteq Waiting
    BY <1>2 DEF Waiting
  <2>2. \A k \in Kinds : k \notin dirty' => age'[k] = 0
    BY <1>1, <1>2 DEF AgeSound
  <2>3. ASSUME current # None
        PROVE  /\ current \in Watchers /\ thread'[current].pc # "run"
               /\ age["local"] \in Nat
    <3>1. current \in Watchers /\ age["local"] \in Nat
      BY <1>1, <2>3 DEF TypeOK, Kinds
    <3>2. current # w => thread[current].pc # "run"
      BY <1>1, <1>3, <3>1 DEF LockSound
    <3> QED
      BY <1>6, <1>7, <1>8, <3>1, <3>2
  <2>4. ASSUME current # None, thread'[current].pc = "idle"
        PROVE  /\ "local" \in dirty => Alert(thread'[current], age["local"])
               /\ \/ thread'[current].next = thread'[current].retry
                  \/ age["remote"] + thread'[current].next <= Interval
    <3>1. CASE current = w
      <4>1. /\ age["local"] = 0 /\ age["remote"] = 0
            /\ "local" \in dirty => thread[w].stamped
        BY <1>1, <1>2, <2>4, <3>1 DEF AgeSound, Kinds
      <4>2. Interval \in Nat
        BY WatchConstants
      <4> QED
        BY <1>7, <1>8, <3>1, <4>1, <4>2
    <3>2. CASE current # w
      <4>1. thread'[current] = n[current] /\ thread[current].pc = "idle"
        BY <1>6, <1>8, <2>3, <2>4, <3>2
      <4>2. /\ "local" \in Waiting => Alert(thread[current], age["local"])
            /\ \/ thread[current].next = thread[current].retry
               \/ age["remote"] + thread[current].next <= Interval
        BY <1>1, <2>4, <4>1 DEF AgeSound
      <4> QED
        BY <1>6, <2>1, <2>3, <2>4, <4>1, <4>2
    <3> QED
      BY <3>1, <3>2
  <2> QED
    BY <1>2, <2>1, <2>2, <2>3, <2>4 DEF AgeSound
<1>14. Prompt'
  BY <1>1, <1>2 DEF Prompt
<1> QED
  BY <1>9, <1>10, <1>11, <1>12, <1>13, <1>14 DEF WatchInv

-----------------------------------------------------------------------------
(* Turns, restarts, time *)

LEMMA TurnStep ==
  ASSUME WatchInv, NEW w \in Watchers, Turn(w)
  PROVE  WatchInv'
<1>1. TypeOK /\ ThreadsSound /\ LockSound /\ CurrentSound /\ AgeSound /\ Prompt
  BY DEF WatchInv
<1>2. /\ thread[w].pc = "idle" /\ ~thread[w].turn
      /\ UNCHANGED <<current, lock, dirty, running, age, changes, restarts>>
      /\ thread' = [thread EXCEPT ![w] = AfterTurn(thread[w])]
  BY DEF Turn, AfterTurn
<1>3. thread[w] \in Thread /\ ThreadSound(thread[w])
  BY <1>1 DEF TypeOK, ThreadsSound
<1>4. PICK v \in Thread :
        /\ thread' = [thread EXCEPT ![w] = v]
        /\ ThreadSound(v) /\ v.pc # "run"
        /\ ~thread[w].stop => v.pc # "off" /\ ~v.stop
        /\ v.pc = "idle" =>
             /\ v.next = thread[w].next /\ v.retry = thread[w].retry
             /\ \A n \in Nat : Alert(thread[w], n) => Alert(v, n)
  BY <1>2, <1>3, TurnFacts
<1>5. /\ thread' \in [Watchers -> Thread] /\ thread'[w] = v
      /\ \A x \in Watchers : x # w => thread'[x] = thread[x]
  BY <1>1, <1>4 DEF TypeOK
<1>6. TypeOK'
  BY <1>1, <1>2, <1>5 DEF TypeOK
<1>7. ThreadsSound'
  BY <1>1, <1>4, <1>5 DEF ThreadsSound
<1>8. LockSound'
  BY <1>1, <1>2, <1>4, <1>5 DEF LockSound
<1>9. CurrentSound'
  BY <1>1, <1>2, <1>4, <1>5 DEF CurrentSound, Alive, TypeOK
<1>10. AgeSound'
  <2>1. Waiting' = Waiting /\ \A k \in Kinds : k \notin dirty' => age'[k] = 0
    BY <1>1, <1>2 DEF AgeSound, Waiting
  <2>2. current # None => current \in Watchers /\ age["local"] \in Nat
    BY <1>1 DEF TypeOK, Kinds
  <2>3. ASSUME current # None, thread'[current].pc = "run"
        PROVE  /\ \A k \in Kinds : age[k] = 0
               /\ "local" \in dirty => thread'[current].stamped
    <3>1. current # w
      BY <1>4, <1>5, <2>3
    <3> QED
      BY <1>1, <1>5, <2>2, <2>3, <3>1 DEF AgeSound
  <2>4. ASSUME current # None, thread'[current].pc = "idle"
        PROVE  /\ "local" \in Waiting => Alert(thread'[current], age["local"])
               /\ \/ thread'[current].next = thread'[current].retry
                  \/ age["remote"] + thread'[current].next <= Interval
    <3>1. thread[current].pc = "idle"
      BY <1>2, <1>5, <2>2, <2>4
    <3>2. /\ "local" \in Waiting => Alert(thread[current], age["local"])
          /\ \/ thread[current].next = thread[current].retry
             \/ age["remote"] + thread[current].next <= Interval
      BY <1>1, <2>4, <3>1 DEF AgeSound
    <3>3. CASE current = w
      BY <1>4, <1>5, <2>2, <2>4, <3>2, <3>3
    <3>4. CASE current # w
      BY <1>5, <2>2, <2>4, <3>2, <3>4
    <3> QED
      BY <3>3, <3>4
  <2> QED
    BY <1>2, <2>1, <2>3, <2>4 DEF AgeSound
<1>11. Prompt'
  BY <1>1, <1>2 DEF Prompt
<1> QED
  BY <1>6, <1>7, <1>8, <1>9, <1>10, <1>11 DEF WatchInv

LEMMA RestartStep ==
  ASSUME WatchInv, Restart
  PROVE  WatchInv'
<1>1. TypeOK /\ ThreadsSound /\ LockSound /\ CurrentSound /\ AgeSound /\ Prompt
  BY DEF WatchInv
<1>2. restarts' = restarts + 1 /\ UNCHANGED <<lock, dirty, running, age, changes>>
  BY DEF Restart
<1> DEFINE told == IF current = None THEN thread
                   ELSE [thread EXCEPT ![current].stop = Alive(current)]
<1>3. PICK s \in [Watchers -> Thread] :
        /\ s = told
        /\ \A x \in Watchers : ThreadSound(s[x]) /\ s[x].pc = thread[x].pc
  <2>1. CASE current = None
    BY <1>1, <2>1 DEF TypeOK, ThreadsSound
  <2>2. CASE current # None
    <3>1. /\ current \in Watchers /\ Alive(current) = TRUE
          /\ thread[current] \in Thread /\ ThreadSound(thread[current])
      BY <1>1, <2>2 DEF TypeOK, CurrentSound, Alive, ThreadsSound
    <3>2. told = [thread EXCEPT ![current] = Told(thread[current])]
      BY <1>1, <2>2, <3>1 DEF Told, TypeOK
    <3>3. /\ Told(thread[current]) \in Thread
          /\ ThreadSound(Told(thread[current]))
          /\ Told(thread[current]).pc = thread[current].pc
      BY <3>1, ToldFacts
    <3>4. /\ told \in [Watchers -> Thread] /\ told[current] = Told(thread[current])
          /\ \A x \in Watchers : x # current => told[x] = thread[x]
      BY <1>1, <3>1, <3>2, <3>3 DEF TypeOK
    <3>5. \A x \in Watchers : ThreadSound(told[x]) /\ told[x].pc = thread[x].pc
      <4> HIDE DEF told
      <4> QED
        BY <1>1, <3>3, <3>4 DEF ThreadsSound
    <3> QED
      BY <3>4, <3>5
  <2> QED
    BY <2>1, <2>2
<1>4. \/ current' = None /\ thread' = s
      \/ \E w \in Watchers : ~Alive(w) /\ current' = w /\ thread' = [s EXCEPT ![w] = Fresh]
  <2>1. CASE current' = None /\ thread' = told
    BY <1>3, <2>1
  <2>2. CASE LET w == CHOOSE w \in Watchers : ~Alive(w) IN
               /\ \E v \in Watchers : ~Alive(v)
               /\ current' = w
               /\ thread' = [told EXCEPT ![w] = Fresh]
    <3>1. PICK w : w = CHOOSE v \in Watchers : ~Alive(v)
      OBVIOUS
    <3>2. w \in Watchers /\ ~Alive(w)
      BY <2>2, <3>1
    <3> QED
      BY <1>3, <2>2, <3>1, <3>2
  <2> QED
    BY <2>1, <2>2 DEF Restart
<1>5. CASE current' = None /\ thread' = s
  <2>1. TypeOK'
    BY <1>1, <1>2, <1>3, <1>5 DEF TypeOK
  <2>2. ThreadsSound' /\ LockSound' /\ CurrentSound'
    BY <1>1, <1>2, <1>3, <1>5 DEF ThreadsSound, LockSound, CurrentSound
  <2>3. AgeSound' /\ Prompt'
    BY <1>1, <1>2, <1>5 DEF AgeSound, Prompt
  <2> QED
    BY <2>1, <2>2, <2>3 DEF WatchInv
<1>6. ASSUME NEW w \in Watchers, ~Alive(w), current' = w, thread' = [s EXCEPT ![w] = Fresh]
      PROVE  WatchInv'
  <2>1. /\ thread' \in [Watchers -> Thread] /\ thread'[w] = Fresh
        /\ \A x \in Watchers : x # w => thread'[x] = s[x]
    BY <1>6, OffFacts
  <2>2. TypeOK'
    BY <1>1, <1>2, <1>6, <2>1 DEF TypeOK
  <2>3. ThreadsSound'
    BY <1>3, <2>1, OffFacts DEF ThreadsSound
  <2>4. LockSound'
    BY <1>1, <1>2, <1>3, <1>6, <2>1, OffFacts DEF LockSound, Alive
  <2>5. CurrentSound'
    BY <1>6, <2>1, OffFacts DEF CurrentSound, Alive
  <2>6. AgeSound'
    <3>1. \A k \in Kinds : k \notin dirty' => age'[k] = 0
      BY <1>1, <1>2 DEF AgeSound
    <3>2. thread'[w].pc = "idle" /\ thread'[w].next = thread'[w].retry
      BY <2>1, OffFacts
    <3> QED
      BY <1>6, <3>1, <3>2 DEF AgeSound, Alert
  <2>7. Prompt'
    BY <1>1, <1>2 DEF Prompt
  <2> QED
    BY <2>2, <2>3, <2>4, <2>5, <2>6, <2>7 DEF WatchInv
<1> QED
  BY <1>4, <1>5, <1>6

LEMMA TickStep ==
  ASSUME WatchInv, Tick
  PROVE  WatchInv'
<1>1. TypeOK /\ ThreadsSound /\ LockSound /\ CurrentSound /\ AgeSound /\ Prompt
  BY DEF WatchInv
<1>2. /\ Settled /\ UNCHANGED <<current, lock, dirty, running, changes, restarts>>
      /\ age' = [k \in Kinds |-> IF k \in dirty /\ Attentive THEN age[k] + 1 ELSE 0]
      /\ thread' = [x \in Watchers |-> IF ~Alive(x) THEN thread[x] ELSE AfterTick(thread[x])]
  BY DEF Tick, AfterTick
<1>3. ASSUME NEW x \in Watchers
      PROVE  /\ thread'[x] \in Thread /\ ThreadSound(thread'[x])
             /\ thread'[x].pc = thread[x].pc /\ thread'[x].stop = thread[x].stop
             /\ thread'[x].stamped = thread[x].stamped
             /\ thread[x].pc = "idle" =>
                  /\ thread[x].retry # 0 => thread'[x].next = thread'[x].retry
                  /\ thread[x].retry = 0 =>
                       /\ thread[x].next \in Nat \ {0} /\ thread'[x].next = thread[x].next - 1
                       /\ \A n \in Nat : Alert(thread[x], n) =>
                            /\ Alert(thread'[x], n + 1) /\ Alert(thread'[x], 0)
                            /\ n + 1 <= CheckEvery + Cap
  <2>1. thread[x] \in Thread /\ ThreadSound(thread[x])
    BY <1>1 DEF TypeOK, ThreadsSound
  <2>2. CASE ~Alive(x)
    <3>1. thread'[x] = thread[x]
      BY <1>2, <2>2
    <3> QED
      BY <2>1, <2>2, <3>1 DEF Alive
  <2>3. CASE Alive(x)
    <3>1. thread'[x] = AfterTick(thread[x])
      BY <1>2, <2>3
    <3>2. thread[x].pc = "idle" => thread[x].turn
      BY <1>2 DEF Settled
    <3> QED
      BY <2>1, <3>1, <3>2, TickFacts
  <2> QED
    BY <2>2, <2>3
<1>4. thread' \in [Watchers -> Thread]
  <2>1. thread' = [x \in Watchers |-> thread'[x]]
    BY <1>2
  <2> QED
    BY <1>3, <2>1
<1>5. age' \in [Kinds -> Nat] /\ "local" \in Kinds /\ "remote" \in Kinds
      /\ age["local"] \in Nat /\ age["remote"] \in Nat
  <2>1. \A k \in Kinds : age[k] \in Nat
    BY <1>1 DEF TypeOK
  <2> QED
    BY <1>2, <2>1 DEF Kinds
<1>6. TypeOK'
  BY <1>1, <1>2, <1>4, <1>5 DEF TypeOK
<1>7. ThreadsSound'
  BY <1>3 DEF ThreadsSound
<1>8. LockSound'
  BY <1>1, <1>2, <1>3 DEF LockSound
<1>9. CurrentSound'
  BY <1>1, <1>2, <1>3 DEF CurrentSound, Alive, TypeOK
<1>10. ASSUME Attentive
       PROVE  /\ current \in Watchers /\ current # None
              /\ thread[current].pc = "idle" /\ thread[current].retry = 0
              /\ thread[current].next \in Nat \ {0}
              /\ thread'[current].next = thread[current].next - 1
              /\ age["remote"] + thread[current].next <= Interval
              /\ "local" \in Waiting =>
                   /\ Alert(thread'[current], age["local"] + 1) /\ Alert(thread'[current], 0)
                   /\ age["local"] + 1 <= CheckEvery + Cap
  <2>1. /\ current # None /\ current \in Watchers
        /\ thread[current].pc = "idle" /\ thread[current].retry = 0
    BY <1>1, <1>10 DEF Attentive, TypeOK
  <2>2. /\ thread[current].next \in Nat \ {0}
        /\ thread'[current].next = thread[current].next - 1
        /\ \A n \in Nat : Alert(thread[current], n) =>
             /\ Alert(thread'[current], n + 1) /\ Alert(thread'[current], 0)
             /\ n + 1 <= CheckEvery + Cap
    BY <1>3, <2>1
  <2>3. /\ "local" \in Waiting => Alert(thread[current], age["local"])
        /\ \/ thread[current].next = thread[current].retry
           \/ age["remote"] + thread[current].next <= Interval
    BY <1>1, <2>1 DEF AgeSound
  <2> QED
    BY <1>5, <2>1, <2>2, <2>3
<1>11. AgeSound'
  <2>1. Waiting' = Waiting /\ dirty' = dirty
    BY <1>2 DEF Waiting
  <2>2. \A k \in Kinds : k \notin dirty' => age'[k] = 0
    BY <1>2, <2>1
  <2>3. ASSUME current # None, thread'[current].pc = "run"
        PROVE  /\ \A k \in Kinds : age'[k] = 0
               /\ "local" \in dirty => thread'[current].stamped
    <3>1. current \in Watchers /\ thread[current].pc = "run"
      BY <1>1, <1>3, <2>3 DEF TypeOK
    <3>2. ~Attentive
      BY <3>1 DEF Attentive
    <3>3. "local" \in dirty => thread[current].stamped
      BY <1>1, <2>3, <3>1 DEF AgeSound
    <3> QED
      BY <1>2, <1>3, <3>1, <3>2, <3>3
  <2>4. ASSUME current # None, thread'[current].pc = "idle"
        PROVE  /\ "local" \in Waiting => Alert(thread'[current], age'["local"])
               /\ \/ thread'[current].next = thread'[current].retry
                  \/ age'["remote"] + thread'[current].next <= Interval
    <3>1. current \in Watchers /\ thread[current].pc = "idle"
      BY <1>1, <1>3, <2>4 DEF TypeOK
    <3>2. CASE thread[current].retry # 0
      <4>1. thread'[current].next = thread'[current].retry
        BY <1>3, <3>1, <3>2
      <4> QED
        BY <4>1 DEF Alert
    <3>3. CASE thread[current].retry = 0
      <4>1. Attentive
        BY <2>4, <3>1, <3>3 DEF Attentive
      <4>2. age'["local"] \in {0, age["local"] + 1}
            /\ age'["remote"] \in {0, age["remote"] + 1}
        BY <1>2, <1>5
      <4>3. "local" \in Waiting => Alert(thread'[current], age'["local"])
        BY <1>10, <4>1, <4>2
      <4>4. Interval \in Nat
        BY WatchConstants
      <4>5. age'["remote"] + thread'[current].next <= Interval
        BY <1>5, <1>10, <4>1, <4>2, <4>4
      <4> QED
        BY <4>3, <4>5
    <3> QED
      BY <3>2, <3>3
  <2> QED
    BY <1>2, <2>1, <2>2, <2>3, <2>4 DEF AgeSound
<1>12. Prompt'
  <2>1. CheckEvery + Cap \in Nat /\ Interval \in Nat
    BY WatchConstants
  <2>2. age'["local"] <= CheckEvery + Cap
    <3>1. CASE "local" \in dirty /\ Attentive
      BY <1>2, <1>5, <1>10, <3>1 DEF Waiting
    <3>2. CASE ~("local" \in dirty /\ Attentive)
      BY <1>2, <1>5, <2>1, <3>2
    <3> QED
      BY <3>1, <3>2
  <2>3. age'["remote"] <= Interval
    <3>1. CASE "remote" \in dirty /\ Attentive
      BY <1>2, <1>5, <1>10, <2>1, <3>1
    <3>2. CASE ~("remote" \in dirty /\ Attentive)
      BY <1>2, <1>5, <2>1, <3>2
    <3> QED
      BY <3>1, <3>2
  <2> QED
    BY <2>2, <2>3 DEF Prompt
<1> QED
  BY <1>6, <1>7, <1>8, <1>9, <1>11, <1>12 DEF WatchInv

-----------------------------------------------------------------------------
(* The theorems *)

LEMMA InitSound == Init => WatchInv
<1> SUFFICES ASSUME Init
             PROVE  WatchInv
  OBVIOUS
<1>1. /\ \A x \in Watchers : thread[x] = Off
      /\ thread \in [Watchers -> Thread]
      /\ current = None /\ lock = None /\ dirty = {} /\ running = {}
      /\ \A k \in Kinds : age[k] = 0
      /\ changes = 0 /\ restarts = 0 /\ age \in [Kinds -> Nat]
  BY OffFacts DEF Init
<1>2. TypeOK
  BY <1>1 DEF TypeOK
<1>3. ThreadsSound
  BY <1>1, OffFacts DEF ThreadsSound
<1>4. LockSound
  BY <1>1, OffFacts, WatchConstants DEF LockSound
<1>5. CurrentSound /\ AgeSound
  BY <1>1 DEF CurrentSound, AgeSound
<1>6. Prompt
  <2>1. age["local"] = 0 /\ age["remote"] = 0
    BY <1>1 DEF Kinds
  <2> QED
    BY <2>1, WatchConstants DEF Prompt
<1> QED
  BY <1>2, <1>3, <1>4, <1>5, <1>6 DEF WatchInv

LEMMA StepSound ==
  ASSUME WatchInv, [Next]_vars
  PROVE  WatchInv'
<1>1. CASE LocalWrite
  BY <1>1, LocalWriteStep
<1>2. CASE RemoteChange
  BY <1>2, RemoteChangeStep
<1>3. CASE UserRuns
  BY <1>3, UserRunsStep
<1>4. CASE UserRunEnds
  BY <1>4, UserRunEndsStep
<1>5. CASE Restart
  BY <1>5, RestartStep
<1>6. CASE Tick
  BY <1>6, TickStep
<1>7. ASSUME NEW w \in Watchers, Turn(w) \/ Start(w) \/ Succeed(w) \/ Fail(w)
      PROVE  WatchInv'
  BY <1>7, TurnStep, StartStep, SucceedStep, FailStep
<1>8. CASE UNCHANGED vars
  BY <1>8 DEF WatchInv, vars, TypeOK, ThreadsSound, LockSound, CurrentSound, Alive,
              AgeSound, Waiting, Prompt
<1> QED
  BY <1>1, <1>2, <1>3, <1>4, <1>5, <1>6, <1>7, <1>8 DEF Next

\* The invariant holds in every reachable state.
THEOREM WatchInvariant == Spec => []WatchInv
<1>1. Init => WatchInv
  BY InitSound
<1>2. WatchInv /\ [Next]_vars => WatchInv'
  BY StepSound
<1> QED
  BY <1>1, <1>2, PTL DEF Spec

\* Threads, the lock and the waiting changes stay of their kinds.
THEOREM TypesHold == Spec => []TypeOK
<1>1. WatchInv => TypeOK
  BY DEF WatchInv
<1> QED
  BY <1>1, WatchInvariant, PTL

\* While nothing runs or backs off, a write to the vault waits for at most one
\* look at the stamp and the debounce's cap, and a change nobody announces for
\* at most the polling interval (Debounce::take_due, watch_loop).
THEOREM ChangesArePrompt == Spec => []Prompt
<1>1. WatchInv => Prompt
  BY DEF WatchInv
<1> QED
  BY <1>1, WatchInvariant, PTL

\* A thread that was told to stop starts at most the run it had decided on
\* (restart_sync_watcher, watch_loop).
THEOREM StoppedThreadsEnd == Spec => []StopsInTime
<1>1. WatchInv => StopsInTime
  <2> SUFFICES ASSUME WatchInv, NEW w \in Watchers
               PROVE  thread[w].late <= 1
    BY DEF StopsInTime
  <2>1. thread[w] \in Thread /\ ThreadSound(thread[w])
    BY DEF WatchInv, TypeOK, ThreadsSound
  <2> QED
    BY <2>1 DEF ThreadSound
<1> QED
  BY <1>1, WatchInvariant, PTL
=============================================================================
