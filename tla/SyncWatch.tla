------------------------------ MODULE SyncWatch ------------------------------
(***************************************************************************)
(* The scheduler of background synchronization (crates/aipass-agent/src/   *)
(* sync_watch.rs): threads of watch_loop that turn file events, a stamp of *)
(* the local files, wake-ups and timers into runs of run_configured.  A    *)
(* change of the settings or an unlock starts a new thread and tells the   *)
(* old one to stop without waiting for it, so several may be alive; runs   *)
(* exclude each other by the sync lock.                                    *)
(*                                                                         *)
(* One tick is one timeout of rx.recv_timeout: a thread that is not in a   *)
(* run goes round its loop once in every tick.  Clocks are kept as the     *)
(* ticks that have passed or remain.                                       *)
(***************************************************************************)
EXTENDS Naturals, FiniteSets

CONSTANTS
  Watchers,    \* threads
  None,        \* no thread, no instant
  User,        \* a run asked for by the user holds the sync lock
  Window,      \* the debounce window
  Cap,         \* how long events may postpone a run
  CheckEvery,  \* ticks between two looks at the local files' stamp
  Interval,    \* next_delay without a failure
  Backoff,     \* next_delay after a failure, doubled with each
  MaxDelay,    \* the longest back-off
  AuthDelay,   \* next_delay when the target or the vault refuses
  MaxFailures, \* bound: failures counted
  MaxChanges,  \* bound: changes made by the user and by other devices
  MaxRestarts  \* bound: changes of the settings, and unlocks

Kinds == {"local", "remote"}

ASSUME WatchConstants ==
  /\ None \notin Watchers \cup Nat /\ User \notin Watchers
  /\ {Window, Cap, CheckEvery, Interval, Backoff, MaxDelay, AuthDelay} \subseteq Nat \ {0}
  /\ MaxFailures \in Nat \ {0} /\ {MaxChanges, MaxRestarts} \subseteq Nat
  /\ Window <= Cap

\* A power of two is positive, which the proofs cannot derive.
ASSUME BackoffGrows == \A f \in 1 .. MaxFailures : Backoff * 2^f \in Nat \ {0}

VARIABLES
  thread,   \* the state of each watch_loop
  current,  \* state.sync_watcher: the thread the settings started last
  lock,     \* who holds the sync lock
  dirty,    \* kinds of changes made since a run last started
  running,  \* kinds of changes a run has still to deliver
  age,      \* history: ticks a change has waited without a reason
  changes,  \* changes so far
  restarts  \* changes of the settings and unlocks so far

vars == <<thread, current, lock, dirty, running, age, changes, restarts>>

Off ==
  [pc |-> "off", stop |-> FALSE, turn |-> FALSE, last |-> None, first |-> None,
   retry |-> 0, next |-> 0, failures |-> 0, check |-> 0,
   stamped |-> FALSE, told |-> FALSE, late |-> 0]

\* watch_loop before its first turn: it is due at once.
Fresh == [Off EXCEPT !.pc = "idle"]

Alive(w) == thread[w].pc # "off"
Smaller(a, b) == IF a < b THEN a ELSE b
Larger(a, b) == IF a < b THEN b ELSE a

Init ==
  /\ thread = [w \in Watchers |-> Off]
  /\ current = None
  /\ lock = None
  /\ dirty = {} /\ running = {}
  /\ age = [k \in Kinds |-> 0]
  /\ changes = 0 /\ restarts = 0

-----------------------------------------------------------------------------
(* What the threads see *)

\* Every live thread has its own stamp of the local files, file watcher and
\* count of wake-ups; it takes up an event and a wake-up in the same way.
Notice(stamp, event) ==
  [w \in Watchers |->
     IF ~Alive(w) THEN thread[w]
     ELSE [thread[w] EXCEPT !.stamped = @ \/ stamp, !.told = @ \/ event]]

\* A write to the vault: the stamp shows it, a file event may get lost, and
\* some requests count up sync_wake.
LocalWrite ==
  /\ changes < MaxChanges /\ changes' = changes + 1
  /\ dirty' = dirty \cup {"local"}
  /\ \E event \in BOOLEAN : thread' = Notice(TRUE, event)
  /\ UNCHANGED <<current, lock, running, age, restarts>>

\* Another device publishes: a folder's file event or a push may tell.
RemoteChange ==
  /\ changes < MaxChanges /\ changes' = changes + 1
  /\ dirty' = dirty \cup {"remote"}
  /\ \E event \in BOOLEAN : thread' = Notice(FALSE, event)
  /\ UNCHANGED <<current, lock, running, age, restarts>>

-----------------------------------------------------------------------------
(* Debounce *)

\* Mutant: the burst's first event is forgotten with every later one.
record_event_Restarts(t) == [t EXCEPT !.first = 0, !.last = 0]

record_event(t) ==
  [t EXCEPT !.first = IF @ = None THEN 0 ELSE @, !.last = 0]

\* take_due: quiet for the window, or postponed for as long as the cap.
Due(t) == t.last # None /\ (t.last >= Window \/ t.first >= Cap)

Disarmed(t) == [t EXCEPT !.first = None, !.last = None]

-----------------------------------------------------------------------------
(* watch_loop *)

\* What a turn finds: events or a wake-up, or, if it is time to look, a stamp
\* that has changed.
Observed(t) == t.told \/ (t.check >= CheckEvery /\ t.stamped)

\* The turn's view of its own clocks and channels once it has looked.
Looked(t) ==
  LET u == [t EXCEPT !.told = FALSE,
                     !.stamped = @ /\ t.check < CheckEvery,
                     !.check = IF @ >= CheckEvery THEN 0 ELSE @]
  IN IF Observed(t) THEN record_event(u) ELSE u

\* Mutant: only an event makes a run due.
Ripe_EventsOnly(t) == t.retry = 0 /\ Due(t)

\* It is time for a run: no back-off, and the debounce or the timer is due.
Ripe(t) == t.retry = 0 /\ (Due(t) \/ t.next = 0)

\* Mutant: the stop flag is not read again after a run.
Stops_Never(t) == FALSE

\* The stop flag, read at both ends of recv_timeout.
Stops(t) == t.stop

\* One turn of the loop, up to its decision.
Turn(w) ==
  LET t == thread[w]
      u == Looked(t)
  IN /\ t.pc = "idle" /\ ~t.turn
     /\ thread' = [thread EXCEPT ![w] =
          IF Stops(t) THEN Off
          ELSE IF Ripe(u) THEN [(IF Due(u) THEN Disarmed(u) ELSE u) EXCEPT !.pc = "waiting"]
          ELSE [u EXCEPT !.turn = TRUE]]
     /\ UNCHANGED <<current, lock, dirty, running, age, changes, restarts>>

\* run_configured has the sync lock: it reads the vault and the target.
Begin ==
  /\ running' = running \cup dirty
  /\ dirty' = {}
  /\ age' = [k \in Kinds |-> 0]

Start(w) ==
  /\ thread[w].pc = "waiting" /\ lock = None
  /\ lock' = w
  /\ thread' = [thread EXCEPT ![w].pc = "run",
                              ![w].late = IF thread[w].stop THEN @ + 1 ELSE @]
  /\ Begin
  /\ UNCHANGED <<current, changes, restarts>>

next_delay(auth, failures) ==
  IF auth THEN AuthDelay
  ELSE IF failures > 0 THEN Smaller(Backoff * 2^failures, MaxDelay)
  ELSE Interval

\* A run whose report is neither offline nor refused, with conflicts or not,
\* has exchanged everything; what it applied are writes to the vault.
Succeed(w) ==
  LET told == Notice("remote" \in running, "remote" \in running) IN
  /\ thread[w].pc = "run"
  /\ thread' = [told EXCEPT ![w] =
       [@ EXCEPT !.pc = "idle", !.turn = TRUE, !.failures = 0,
                 !.retry = 0, !.next = next_delay(FALSE, 0)]]
  /\ lock' = None
  /\ running' = {}
  /\ UNCHANGED <<current, dirty, age, changes, restarts>>

\* Offline, a server error, a refused password or a locked vault.
Fail(w) ==
  /\ thread[w].pc = "run"
  /\ \E auth \in BOOLEAN :
       LET f == Smaller(thread[w].failures + 1, MaxFailures)
           d == next_delay(auth, f)
       IN thread' = [thread EXCEPT ![w] =
            [@ EXCEPT !.pc = "idle", !.turn = TRUE, !.failures = f, !.retry = d, !.next = d]]
  /\ lock' = None
  /\ dirty' = dirty \cup running
  /\ running' = {}
  /\ UNCHANGED <<current, age, changes, restarts>>

-----------------------------------------------------------------------------
(* Runs the user asks for, restarts, time *)

UserRuns ==
  /\ lock = None
  /\ lock' = User
  /\ Begin
  /\ UNCHANGED <<thread, current, changes, restarts>>

UserRunEnds ==
  /\ lock = User
  /\ lock' = None
  /\ \/ dirty' = dirty \cup running /\ UNCHANGED thread
     \/ thread' = Notice("remote" \in running, "remote" \in running)
        /\ UNCHANGED dirty
  /\ running' = {}
  /\ UNCHANGED <<current, age, changes, restarts>>

\* restart_sync_watcher: a new thread, if the settings have a target, and the
\* stop flag for the old one, which nobody joins.
Restart ==
  /\ restarts < MaxRestarts /\ restarts' = restarts + 1
  /\ LET told == IF current = None THEN thread
                 ELSE [thread EXCEPT ![current].stop = Alive(current)] IN
     \/ /\ current' = None /\ thread' = told
     \/ LET w == CHOOSE w \in Watchers : ~Alive(w) IN
        /\ \E v \in Watchers : ~Alive(v)
        /\ current' = w
        /\ thread' = [told EXCEPT ![w] = Fresh]
  /\ UNCHANGED <<lock, dirty, running, age, changes>>

\* A turn of the loop, and a free sync lock, never wait for the clock.
Settled ==
  \A w \in Watchers :
    /\ thread[w].pc = "idle" => thread[w].turn
    /\ thread[w].pc = "waiting" => lock # None

Later(x, bound) == IF x = None THEN None ELSE Smaller(x + 1, bound)
Sooner(x) == IF x = 0 THEN 0 ELSE x - 1

\* The current thread is between two runs and not backing off.
Attentive ==
  current # None /\ thread[current].pc = "idle" /\ thread[current].retry = 0

Tick ==
  /\ Settled
  /\ thread' = [w \in Watchers |->
       IF ~Alive(w) THEN thread[w]
       ELSE [thread[w] EXCEPT !.turn = FALSE,
               !.last = Later(@, Cap), !.first = Later(@, Cap),
               !.check = Smaller(@ + 1, CheckEvery),
               !.retry = Sooner(@), !.next = Sooner(@)]]
  /\ age' = [k \in Kinds |-> IF k \in dirty /\ Attentive THEN age[k] + 1 ELSE 0]
  /\ UNCHANGED <<current, lock, dirty, running, changes, restarts>>

Next ==
  \/ LocalWrite \/ RemoteChange \/ UserRuns \/ UserRunEnds \/ Restart \/ Tick
  \/ \E w \in Watchers : Turn(w) \/ Start(w) \/ Succeed(w) \/ Fail(w)

Spec == Init /\ [][Next]_vars

\* Threads keep turning, time passes, runs end, the user's own runs leave the
\* lock to others, and the target is reachable again and again.
FairSpec ==
  /\ Spec
  /\ WF_vars(Tick) /\ WF_vars(UserRunEnds)
  /\ WF_vars(\E w \in Watchers : Turn(w))
  /\ SF_vars(\E w \in Watchers : Start(w))
  /\ SF_vars(\E w \in Watchers : Succeed(w))

-----------------------------------------------------------------------------
(* Properties *)

Waiting == dirty \cup running

\* Each variable holds a value of its kind; no back-off is longer than the
\* longest of next_delay.
Thread ==
  [pc : {"off", "idle", "waiting", "run"}, stop : BOOLEAN, turn : BOOLEAN,
   last : 0 .. Cap \cup {None}, first : 0 .. Cap \cup {None},
   retry : 0 .. Larger(MaxDelay, AuthDelay), next : Nat, failures : 0 .. MaxFailures,
   check : 0 .. CheckEvery, stamped : BOOLEAN, told : BOOLEAN, late : Nat]

TypeOK ==
  /\ thread \in [Watchers -> Thread]
  /\ current \in Watchers \cup {None}
  /\ lock \in Watchers \cup {None, User}
  /\ dirty \subseteq Kinds /\ running \subseteq Kinds
  /\ age \in [Kinds -> Nat]
  /\ changes \in Nat /\ restarts \in Nat

\* With no run under way and no back-off, a change to the vault starts a run
\* after at most one look at the stamp and the debounce's cap, however many
\* writes follow and whatever file events are lost (Debounce::take_due); a
\* change nobody announces waits no longer than the polling interval.
Prompt ==
  /\ age["local"] <= CheckEvery + Cap
  /\ age["remote"] <= Interval

\* A thread that was told to stop starts at most the one run it had already
\* decided on: no two schedulers go on side by side.
StopsInTime == \A w \in Watchers : thread[w].late <= 1

\* As long as synchronization stays configured, every change is delivered by a
\* run that starts after it, although debounce, timer, back-off, other threads
\* and the user's own runs put each other off.
Delivered ==
  \A k \in Kinds : k \in Waiting /\ current # None ~> k \notin Waiting \/ current = None
=============================================================================
