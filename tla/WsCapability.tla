----------------------------- MODULE WsCapability -----------------------------
(***************************************************************************)
(* What the proxy learns about a provider's support of Responses           *)
(* WebSockets, and how the agent saves it (crates/aipass-proxy/src/        *)
(* websocket/capability.rs and upstream.rs, crates/aipass-agent/src/       *)
(* proxy_service.rs).  Two rejected handshakes are evidence; an HTTP       *)
(* response to the same request confirms it; a completed WebSocket         *)
(* response refutes it.  A thread of the agent disables WebSockets in the  *)
(* vault for confirmed evidence and reloads the running proxy.             *)
(*                                                                         *)
(* One provider.  The transport settings that websocket_config_key hashes  *)
(* are a version number.  Evidence is named by the attempt that found it.  *)
(***************************************************************************)
EXTENDS Naturals

CONSTANTS
  MaxAttempts,    \* bound: requests that may try a WebSocket
  None, Unset,
  StoppedProbes,  \* the proxy may be stopped while the user has the provider probed
  MaxEdits,       \* bound: the user's edits of the provider
  MaxRestarts,    \* bound: starts of the listener
  MaxFaults       \* bound: failed writes of the vault and failed reloads

\* Requests, in the order they begin.
Attempts == 1 .. MaxAttempts

ASSUME CapabilityConstants ==
  /\ StoppedProbes \in BOOLEAN
  /\ {MaxAttempts, MaxEdits, MaxRestarts, MaxFaults} \subseteq Nat
  /\ {None, Unset} \cap Nat = {} /\ Unset # None

\* The provider's record and the proxy's copy of it; Health; a request, from
\* handshake to response, with the evidence it rests on.
Provider == [ws : BOOLEAN, key : Nat, rev : Nat]
Snapshot == [ws : BOOLEAN, key : Nat]
Evidence == Attempts \cup {None}
Health == [epoch : Nat, success : Nat \cup {None}, candidate : Evidence, confirmed : BOOLEAN]
Attempt == [pc : {"new", "handshake", "ws", "http", "done"}, key : Nat, epoch : Nat,
            started : Nat, evidence : Evidence]

ASSUME NoneIsNoSnapshot == None \notin Snapshot

VARIABLES
  vault,    \* the provider's record: WebSocket preference, settings, revision
  runtime,  \* the running proxy's snapshot of it; None while it is stopped
  health,   \* ws_health of the settings in use
  epochs,   \* epochs so far
  now,      \* completed WebSocket responses so far, as a clock
  attempt,  \* each request
  fallback, \* the downstream session's HTTP fallback: unset, or its evidence
  pending,  \* pending_ws_events
  refresh,  \* pending_ws_refresh
  holder,   \* who holds the proxy lock, and where it is
  probe,    \* the user's request to enable WebSockets again
  edits, restarts, faults,
  backed,   \* history: evidence whose request got an HTTP response
  doubted,  \* history: evidence that a WebSocket success came after
  unpublished \* history: a committed preference that no sync was told of

counters == <<edits, restarts, faults>>
history == <<backed, doubted, unpublished>>
vars == <<vault, runtime, health, epochs, now, attempt, fallback, pending, refresh,
          holder, probe, counters, history>>

\* Health::default
Fresh(n) == [epoch |-> n, success |-> None, candidate |-> None, confirmed |-> FALSE]

New == [pc |-> "new", key |-> 0, epoch |-> 0, started |-> 0, evidence |-> None]
Quiet == [pc |-> "none", rev |-> 0, epoch |-> None]
Free == [by |-> "nobody", event |-> None]

Init ==
  /\ vault = [ws |-> TRUE, key |-> 0, rev |-> 0]
  /\ runtime = [ws |-> TRUE, key |-> 0]
  /\ health = Fresh(0) /\ epochs = 0 /\ now = 0
  /\ attempt = [a \in Attempts |-> New]
  /\ fallback = Unset /\ pending = None /\ refresh = FALSE
  /\ holder = Free /\ probe = Quiet
  /\ edits = 0 /\ restarts = 0 /\ faults = 0
  /\ backed = {} /\ doubted = {} /\ unpublished = FALSE

Live == runtime # None
Unlocked == holder = Free

\* Evidence and attempts under way that an observation of this epoch outlives.
Earlier(key, epoch) ==
  {a \in Attempts : attempt[a].pc # "new" /\ attempt[a].key = key /\ attempt[a].epoch <= epoch}

-----------------------------------------------------------------------------
(* capability.rs *)

\* allowed: neither switched off nor known to be unsupported.
Allowed == Live /\ runtime.ws /\ ~health.confirmed

\* Mutant: an observation of an earlier epoch counts.
Timely_AnyEpoch(a) == health.success = None \/ health.success <= attempt[a].started

\* candidate: the observation is of this epoch, and no success came after the
\* attempt started.
Timely(a) ==
  /\ attempt[a].epoch = health.epoch
  /\ health.success = None \/ health.success <= attempt[a].started

\* success clears the evidence of the observation's own epoch.
Success(epoch) ==
  /\ now' = now + 1
  /\ health' = IF Live /\ health.epoch = epoch
               THEN [health EXCEPT !.success = now + 1, !.candidate = None, !.confirmed = FALSE]
               ELSE health

\* confirmed evidence that waits to be saved
Event == IF health.confirmed THEN health.candidate ELSE None

Unsaved == IF Live THEN Event ELSE pending

\* Mutant: nothing is acknowledged.
Acknowledged_Never(e) == health

\* acknowledge_websocket_capability_event
Acknowledged(e) == IF health.candidate = e THEN [health EXCEPT !.candidate = None] ELSE health

-----------------------------------------------------------------------------
(* An attempt: upstream.rs forward, connect_twice, and the HTTP fallback *)

Set(a, x) == attempt' = [attempt EXCEPT ![a] = x]

\* forward: the session's fallback is remembered; otherwise a handshake.
Begin(a) ==
  /\ attempt[a].pc = "new" /\ Allowed
  /\ \A b \in 1 .. a - 1 : attempt[b].pc # "new"
  /\ Set(a, [attempt[a] EXCEPT !.key = runtime.key, !.epoch = health.epoch, !.started = now,
               !.pc = IF fallback = Unset THEN "handshake" ELSE "http",
               !.evidence = IF fallback = Unset THEN None ELSE fallback])
  /\ UNCHANGED <<vault, runtime, health, epochs, now, fallback, pending, refresh, holder,
                 probe, counters, history>>

Connect(a) ==
  /\ attempt[a].pc = "handshake"
  /\ Set(a, [attempt[a] EXCEPT !.pc = "ws"])
  /\ UNCHANGED <<vault, runtime, health, epochs, now, fallback, pending, refresh, holder,
                 probe, counters, history>>

\* Both handshakes are refused as unsupported: a candidate, or the one there
\* already is; an unconfirmed one may be too old and is replaced.
RejectTwice(a) ==
  /\ attempt[a].pc = "handshake" /\ Live
  /\ \E stale \in BOOLEAN :
       LET found == IF ~Timely(a) THEN None
                    ELSE IF health.candidate = None \/ (stale /\ ~health.confirmed) THEN a
                    ELSE health.candidate
       IN /\ health' = IF Timely(a) THEN [health EXCEPT !.candidate = found] ELSE health
          /\ fallback' = found
          /\ Set(a, [attempt[a] EXCEPT !.pc = "http", !.evidence = found])
  /\ UNCHANGED <<vault, runtime, epochs, now, pending, refresh, holder, probe, counters, history>>

\* A timeout or server error: fallback without evidence.
Unreachable(a) ==
  /\ attempt[a].pc = "handshake"
  /\ fallback' = None
  /\ Set(a, [attempt[a] EXCEPT !.pc = "http"])
  /\ UNCHANGED <<vault, runtime, health, epochs, now, pending, refresh, holder,
                 probe, counters, history>>

\* A response completes over the WebSocket.  The session survives a reload
\* that only changes the preference.
WsCompletes(a) ==
  /\ attempt[a].pc = "ws"
  /\ Success(attempt[a].epoch)
  /\ Set(a, [attempt[a] EXCEPT !.pc = "done"])
  /\ doubted' = doubted \cup (Earlier(attempt[a].key, attempt[a].epoch) \ {a})
  /\ UNCHANGED <<vault, runtime, epochs, fallback, pending, refresh, holder, probe,
                 counters, backed, unpublished>>

\* The response completes over HTTP (http_success), in time or not.
HttpCompletes(a) ==
  LET e == attempt[a].evidence IN
  /\ attempt[a].pc = "http"
  /\ \E timely \in BOOLEAN :
       health' = IF timely /\ Live /\ e # None /\ health.candidate = e
                 THEN [health EXCEPT !.confirmed = TRUE] ELSE health
  /\ Set(a, [attempt[a] EXCEPT !.pc = "done"])
  /\ backed' = IF e = None THEN backed ELSE backed \cup {e}
  /\ UNCHANGED <<vault, runtime, epochs, now, fallback, pending, refresh, holder, probe,
                 counters, doubted, unpublished>>

\* An attempt fails, is cancelled or times out.
GiveUp(a) ==
  /\ attempt[a].pc \in {"handshake", "ws", "http"}
  /\ Set(a, [attempt[a] EXCEPT !.pc = "done"])
  /\ UNCHANGED <<vault, runtime, health, epochs, now, fallback, pending, refresh, holder,
                 probe, counters, history>>

\* The downstream connection ends, or its HTTP session expires.
SessionEnds ==
  /\ fallback # Unset
  /\ fallback' = Unset
  /\ UNCHANGED <<vault, runtime, health, epochs, now, attempt, pending, refresh, holder,
                 probe, counters, history>>

-----------------------------------------------------------------------------
(* Configuration and listener: runtime.rs update_config, proxy_service.rs *)

\* update_config: new settings, or WebSockets switched on again, start an epoch.
Renewed(v) == v.key # runtime.key \/ (v.ws /\ ~runtime.ws)

Reload(v) ==
  /\ runtime' = IF Live THEN [ws |-> v.ws, key |-> v.key] ELSE None
  /\ IF Live /\ Renewed(v) THEN health' = Fresh(epochs + 1) /\ epochs' = epochs + 1
     ELSE UNCHANGED <<health, epochs>>

\* capture_ws_events: every task has ended before the ledger is read.
Captured ==
  /\ runtime' = None
  /\ attempt' = [a \in Attempts |-> IF attempt[a].pc = "new" THEN attempt[a]
                                    ELSE [attempt[a] EXCEPT !.pc = "done"]]
  /\ pending' = Event
  /\ fallback' = Unset
  /\ UNCHANGED <<health, epochs>>

Stop ==
  /\ Live /\ Unlocked
  /\ StoppedProbes \/ probe = Quiet
  /\ Captured
  /\ UNCHANGED <<vault, now, refresh, holder, probe, counters, history>>

\* start: the listener serves before the saved evidence is put back.
Start ==
  /\ ~Live /\ Unlocked
  /\ restarts < MaxRestarts /\ restarts' = restarts + 1
  /\ runtime' = [ws |-> vault.ws, key |-> vault.key]
  /\ health' = Fresh(epochs + 1) /\ epochs' = epochs + 1
  /\ holder' = [Free EXCEPT !.by = "start"]
  /\ UNCHANGED <<vault, now, attempt, fallback, pending, refresh, probe, edits, faults, history>>

\* restore_websocket_capability_event
Restorable == health.success = None /\ ~health.confirmed

Restore ==
  /\ holder.by = "start"
  /\ health' = IF pending # None /\ attempt[pending].key = runtime.key /\ Restorable
               THEN [health EXCEPT !.candidate = pending, !.confirmed = TRUE] ELSE health
  /\ holder' = Free
  /\ UNCHANGED <<vault, runtime, epochs, now, attempt, fallback, pending, refresh, probe,
                 counters, history>>

-----------------------------------------------------------------------------
(* persist_ws_capabilities, every second, under the vault and proxy locks *)

Fault == faults < MaxFaults /\ faults' = faults + 1

\* An earlier write may not have reached the running proxy: reload, and if the
\* preference is saved, drop its evidence and tell the sync.
PersistRetry ==
  /\ Unlocked /\ refresh
  /\ \/ /\ Fault
        /\ UNCHANGED <<runtime, health, epochs, pending, refresh, holder, unpublished>>
     \/ /\ runtime' = IF Live THEN [ws |-> vault.ws, key |-> vault.key] ELSE None
        /\ LET new == Live /\ Renewed(vault)
               h == IF new THEN Fresh(epochs + 1) ELSE health
           IN /\ epochs' = IF new THEN epochs + 1 ELSE epochs
              /\ health' = IF ~vault.ws /\ h.confirmed THEN [h EXCEPT !.candidate = None] ELSE h
        /\ refresh' = FALSE
        /\ pending' = IF vault.ws THEN pending ELSE None
        /\ unpublished' = (unpublished /\ vault.ws)
        /\ holder' = IF vault.ws THEN [Free EXCEPT !.by = "collect"] ELSE Free
        /\ UNCHANGED faults
  /\ UNCHANGED <<vault, now, attempt, fallback, probe, edits, restarts, backed, doubted>>

\* The live ledger replaces what was pending; evidence of other settings is
\* dropped.
Collect ==
  LET e == Unsaved
      current == e # None /\ attempt[e].key = vault.key
  IN
  /\ \/ Unlocked /\ ~refresh /\ e # None
     \/ holder.by = "collect"
  /\ holder' = IF current THEN [by |-> "write", event |-> e] ELSE Free
  /\ pending' = IF current THEN e ELSE None
  /\ health' = IF e # None /\ ~current /\ Live THEN Acknowledged(e) ELSE health
  /\ UNCHANGED <<vault, runtime, epochs, now, attempt, fallback, refresh, probe, counters, history>>

\* Mutant: the write is registered only when it has succeeded.
Registered_OnSuccess(ok) == refresh \/ ok

\* pending_ws_refresh is set before the write.
Registered(ok) == TRUE

\* with_websocket_capability_event: still the confirmed candidate.
Standing(e) == Live => Event = e

\* disable_provider_websocket, with the ledger locked; an error may come after
\* the record was committed.
Write ==
  LET e == holder.event IN
  /\ holder.by = "write"
  /\ \/ /\ ~vault.ws
        /\ holder' = [holder EXCEPT !.by = "reload"]
        /\ refresh' = TRUE
        /\ UNCHANGED <<vault, pending, faults, unpublished>>
     \/ /\ vault.ws /\ ~Standing(e)
        /\ holder' = Free
        /\ pending' = None
        /\ UNCHANGED <<vault, refresh, faults, unpublished>>
     \/ /\ vault.ws /\ Standing(e)
        /\ vault' = [vault EXCEPT !.ws = FALSE, !.rev = @ + 1]
        /\ unpublished' = TRUE
        /\ refresh' = Registered(TRUE)
        /\ holder' = [holder EXCEPT !.by = "reload"]
        /\ UNCHANGED <<pending, faults>>
     \/ /\ vault.ws /\ Standing(e) /\ Fault
        /\ \E committed \in BOOLEAN :
             /\ vault' = IF committed THEN [vault EXCEPT !.ws = FALSE, !.rev = @ + 1] ELSE vault
             /\ unpublished' = (unpublished \/ committed)
        /\ refresh' = Registered(FALSE)
        /\ holder' = Free
        /\ UNCHANGED pending
  /\ UNCHANGED <<runtime, health, epochs, now, attempt, fallback, probe, edits, restarts, backed, doubted>>

\* The running proxy is given the saved preference; then the evidence has done
\* its work.
PersistReload ==
  LET e == holder.event IN
  /\ holder.by = "reload"
  /\ holder' = Free
  /\ \/ /\ Fault
        /\ UNCHANGED <<runtime, health, pending, refresh, unpublished>>
     \/ /\ runtime' = IF Live THEN [ws |-> vault.ws, key |-> vault.key] ELSE None
        /\ health' = IF Live THEN Acknowledged(e) ELSE health
        /\ refresh' = FALSE /\ pending' = None /\ unpublished' = FALSE
        /\ UNCHANGED faults
  /\ UNCHANGED <<vault, epochs, now, attempt, fallback, probe, edits, restarts, backed, doubted>>

-----------------------------------------------------------------------------
(* Edits: handlers.rs ProviderUpdate, and vault_sync.rs *)

Edit == edits < MaxEdits /\ edits' = edits + 1

\* WebSockets switched off, or other transport settings: committed, and the
\* running proxy reloaded, or stopped if that fails; the sync is told.
Save ==
  /\ Unlocked /\ Edit
  /\ \E v \in {[vault EXCEPT !.ws = FALSE, !.rev = @ + 1],
               [vault EXCEPT !.key = @ + 1, !.rev = @ + 1]} :
       /\ vault' = v
       /\ \/ Reload(v) /\ UNCHANGED <<attempt, fallback, pending, faults>>
          \/ Live /\ probe = Quiet /\ Fault /\ Captured
  /\ unpublished' = FALSE
  /\ UNCHANGED <<now, refresh, holder, probe, restarts, backed, doubted>>

\* An edit made on another device arrives with a sync, which exchanges both
\* sides' changes; if the reload fails,
\* the proxy runs on with what it has.
Synced ==
  /\ Unlocked /\ Edit
  /\ \E ws \in BOOLEAN, key \in {vault.key, vault.key + 1} :
       LET v == [ws |-> ws, key |-> key, rev |-> vault.rev + 1] IN
       /\ vault' = v
       /\ \/ Reload(v) /\ UNCHANGED faults
          \/ Fault /\ UNCHANGED <<runtime, health, epochs>>
  /\ unpublished' = FALSE
  /\ UNCHANGED <<now, attempt, fallback, pending, refresh, holder, probe, restarts,
                 backed, doubted>>

\* Switching them on again begins with a probe outside the locks.
ProbeBegins ==
  /\ Unlocked /\ Edit
  /\ ~vault.ws /\ probe = Quiet
  /\ Live \/ StoppedProbes
  /\ probe' = [pc |-> "probing", rev |-> vault.rev,
               epoch |-> IF Live /\ runtime.key = vault.key THEN health.epoch ELSE None]
  /\ UNCHANGED <<vault, runtime, health, epochs, now, attempt, fallback, pending, refresh,
                 holder, restarts, faults, history>>

\* The probe completes a response: confirm_websocket_probe.
ProbeSucceeds ==
  /\ Unlocked /\ probe.pc = "probing"
  /\ probe' = [probe EXCEPT !.pc = "verified"]
  /\ Success(probe.epoch)
  /\ doubted' = IF probe.rev = vault.rev THEN doubted \cup Earlier(vault.key, epochs) ELSE doubted
  /\ UNCHANGED <<vault, runtime, epochs, attempt, fallback, pending, refresh, holder,
                 counters, backed, unpublished>>

ProbeFails ==
  /\ probe.pc = "probing"
  /\ probe' = Quiet
  /\ UNCHANGED <<vault, runtime, health, epochs, now, attempt, fallback, pending, refresh,
                 holder, counters, history>>

\* The record must be the one that was probed.
ProbeCommits ==
  /\ Unlocked /\ probe.pc = "verified"
  /\ probe' = Quiet
  /\ IF vault.rev = probe.rev
     THEN LET v == [vault EXCEPT !.ws = TRUE, !.rev = @ + 1]
          IN vault' = v /\ Reload(v) /\ unpublished' = FALSE
     ELSE UNCHANGED <<vault, runtime, health, epochs, unpublished>>
  /\ UNCHANGED <<now, attempt, fallback, pending, refresh, holder, counters, backed, doubted>>

Persist == PersistRetry \/ Collect \/ Write \/ PersistReload

Next ==
  \/ \E a \in Attempts :
       Begin(a) \/ Connect(a) \/ RejectTwice(a) \/ Unreachable(a) \/ WsCompletes(a)
         \/ HttpCompletes(a) \/ GiveUp(a)
  \/ SessionEnds \/ Stop \/ Start \/ Restore \/ Persist
  \/ Save \/ Synced \/ ProbeBegins \/ ProbeSucceeds \/ ProbeFails \/ ProbeCommits

Spec == Init /\ [][Next]_vars

\* The thread that saves comes round every second; a lock holder goes on.
FairSpec == Spec /\ WF_vars(Persist) /\ WF_vars(Restore)

-----------------------------------------------------------------------------
(* Properties *)

\* Each variable holds a value of its kind.
TypeOK ==
  /\ vault \in Provider /\ runtime \in Snapshot \cup {None} /\ health \in Health
  /\ epochs \in Nat /\ now \in Nat
  /\ attempt \in [Attempts -> Attempt]
  /\ fallback \in Evidence \cup {Unset} /\ pending \in Evidence /\ refresh \in BOOLEAN
  /\ holder \in [by : {"nobody", "start", "collect", "write", "reload"}, event : Evidence]
  /\ probe \in [pc : {"none", "probing", "verified"}, rev : Nat, epoch : Nat \cup {None}]
  /\ edits \in Nat /\ restarts \in Nat /\ faults \in Nat
  /\ backed \subseteq Attempts /\ doubted \subseteq Attempts /\ unpublished \in BOOLEAN

\* The agent switches WebSockets off only for evidence about the settings in
\* the vault that no later success contradicts: neither a completed WebSocket
\* response nor the user's verified probe is overruled by an older rejection,
\* across reloads, restarts of the listener and failed writes; and HTTP has
\* worked with these settings where the WebSocket was refused.
Justified ==
  [][holder.by = "write" /\ vault.ws /\ ~vault'.ws =>
       /\ attempt[holder.event].key = vault.key
       /\ holder.event \notin doubted
       /\ \E b \in backed \ doubted : attempt[b].key = vault.key]_vars

\* A preference that was committed reaches the running proxy and the sync, even
\* if the write reported an error or its evidence has been refuted meanwhile.
Follows ==
  unpublished ~> ~unpublished /\ (Live => runtime.ws = vault.ws)

\* Confirmed evidence is saved or dropped, also when the listener has stopped.
EvidenceSettles == Unsaved # None ~> Unsaved = None
=============================================================================
