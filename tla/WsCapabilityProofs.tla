-------------------------- MODULE WsCapabilityProofs --------------------------
(***************************************************************************)
(* Proofs about WsCapability, for any number of attempts, edits, restarts  *)
(* and faults: the inductive invariant CapabilityInv, from which           *)
(* WebSockets are switched off only for evidence that still stands.        *)
(***************************************************************************)
EXTENDS WsCapability, TLAPS

Begun(a) == attempt[a].pc # "new"
Active(a) == attempt[a].pc \in {"handshake", "ws", "http"}

\* Epochs are counted; no request knows of a later one, or of later successes.
\* Whatever is evidence is a request that has begun.
ClockSound ==
  /\ health.epoch = epochs
  /\ \A a \in Attempts : Begun(a) => attempt[a].epoch <= epochs /\ attempt[a].started <= now
  /\ \A a \in Attempts : attempt[a].evidence # None => Begun(attempt[a].evidence)
  /\ \A e \in {fallback, pending, health.candidate} : e \in Attempts => Begun(e)
  /\ \A e \in backed \cup doubted : Begun(e)

\* Requests of the epoch have its settings; while the proxy is stopped there
\* are none under way.
EpochSound ==
  /\ Live => \A a \in Attempts : Begun(a) /\ attempt[a].epoch = epochs =>
       /\ attempt[a].key = runtime.key
       /\ a \in doubted => health.success # None /\ attempt[a].started < health.success
  /\ ~Live => \A a \in Attempts : ~Active(a)

\* Evidence for the settings in use that no success contradicts, nor can one of
\* an earlier epoch that is still under way.
Stands(e) ==
  /\ Begun(e) /\ e \notin doubted
  /\ attempt[e].key = runtime.key
  /\ \A a \in Attempts : Active(a) =>
       attempt[a].epoch < attempt[e].epoch \/ attempt[a].epoch = epochs

\* The ledger holds nothing else, and if it says "confirmed", HTTP has worked.
LedgerSound ==
  Live => /\ health.candidate # None => Stands(health.candidate)
          /\ health.confirmed => \E b \in backed : Stands(b)

\* Evidence saved when the listener stopped, and until it is restored.
PendingSound ==
  pending # None /\ (~Live \/ (holder.by = "start" /\ health.success = None)) =>
    /\ pending \notin doubted
    /\ \E b \in backed \ doubted : attempt[b].key = attempt[pending].key

\* A started listener serves requests of its own epoch only; what is to be
\* saved is evidence about the settings in the vault and in the proxy.
HolderSound ==
  /\ holder.by = "start" =>
       /\ Live /\ probe.pc = "none"
       /\ \A a \in Attempts : Active(a) => attempt[a].epoch = epochs
  /\ holder.by \in {"write", "reload"} =>
       /\ holder.event # None /\ Begun(holder.event)
       /\ attempt[holder.event].key = vault.key
       /\ Live => runtime.key = vault.key
       /\ ~Live /\ holder.by = "write" => pending = holder.event

\* A probe whose record is still the one it read speaks for the epoch, or for
\* settings that no request has used.
ProbeSound ==
  /\ probe.pc # "none" => Live /\ probe.rev <= vault.rev
  /\ probe.pc = "probing" /\ probe.rev = vault.rev =>
       /\ ~vault.ws
       /\ \/ probe.epoch = epochs /\ runtime.key = vault.key
          \/ probe.epoch = None /\ runtime.key # vault.key
          \/ /\ probe.epoch = None /\ runtime.key = vault.key /\ ~runtime.ws
             /\ health.candidate = None /\ ~health.confirmed
             /\ \A a \in Attempts : Begun(a) => attempt[a].epoch # epochs

CapabilityInv ==
  /\ TypeOK /\ ClockSound /\ EpochSound /\ LedgerSound /\ PendingSound /\ HolderSound
  /\ ProbeSound

-----------------------------------------------------------------------------
(* Types *)

\* Fields of the ledger and of a request may be set one by one.
LEMMA HealthWith ==
  ASSUME NEW h \in Health
  PROVE  /\ \A c \in Evidence : [h EXCEPT !.candidate = c] \in Health
         /\ \A c \in Evidence : [h EXCEPT !.candidate = c, !.confirmed = TRUE] \in Health
         /\ [h EXCEPT !.confirmed = TRUE] \in Health
         /\ \A n \in Nat : [h EXCEPT !.success = n, !.candidate = None,
                                    !.confirmed = FALSE] \in Health
<1>1. \A c \in Evidence : [h EXCEPT !.candidate = c] \in Health
  BY DEF Health
<1>2. \A c \in Evidence : [h EXCEPT !.candidate = c, !.confirmed = TRUE] \in Health
  BY DEF Health
<1>3. [h EXCEPT !.confirmed = TRUE] \in Health
  BY DEF Health
<1>4. \A n \in Nat : [h EXCEPT !.success = n, !.candidate = None, !.confirmed = FALSE] \in Health
  BY DEF Health, Evidence
<1> QED
  BY <1>1, <1>2, <1>3, <1>4

LEMMA ProviderWith ==
  ASSUME NEW v \in Provider
  PROVE  /\ [v EXCEPT !.ws = FALSE, !.rev = @ + 1] \in Provider
         /\ [v EXCEPT !.ws = TRUE, !.rev = @ + 1] \in Provider
         /\ [v EXCEPT !.key = @ + 1, !.rev = @ + 1] \in Provider
<1>1. v.rev + 1 \in Nat /\ v.key + 1 \in Nat
  BY DEF Provider
<1>2. PICK r \in Nat : r = v.rev + 1
  BY <1>1
<1>3. PICK k \in Nat : k = v.key + 1
  BY <1>1
<1>4. [v EXCEPT !.ws = FALSE, !.rev = r] \in Provider /\ [v EXCEPT !.ws = TRUE, !.rev = r] \in Provider
  BY DEF Provider
<1>5. [v EXCEPT !.key = k, !.rev = r] \in Provider
  BY DEF Provider
<1>6. /\ [v EXCEPT !.ws = FALSE, !.rev = @ + 1] = [v EXCEPT !.ws = FALSE, !.rev = r]
      /\ [v EXCEPT !.ws = TRUE, !.rev = @ + 1] = [v EXCEPT !.ws = TRUE, !.rev = r]
      /\ [v EXCEPT !.key = @ + 1, !.rev = @ + 1] = [v EXCEPT !.key = k, !.rev = r]
  BY <1>2, <1>3 DEF Provider
<1> QED
  BY <1>4, <1>5, <1>6

LEMMA AttemptWith ==
  ASSUME NEW r \in Attempt, NEW p \in {"new", "handshake", "ws", "http", "done"},
         NEW e \in Evidence, NEW k \in Nat, NEW n \in Nat, NEW t \in Nat
  PROVE  /\ [r EXCEPT !.pc = p] \in Attempt
         /\ [r EXCEPT !.pc = p, !.evidence = e] \in Attempt
         /\ [r EXCEPT !.key = k, !.epoch = n, !.started = t, !.pc = p, !.evidence = e] \in Attempt
  BY DEF Attempt

LEMMA FreshTyped == \A n \in Nat : Fresh(n) \in Health
  BY DEF Fresh, Health, Evidence

LEMMA SuccessTyped ==
  ASSUME TypeOK, NEW e, Success(e)
  PROVE  health' \in Health /\ now' \in Nat
<1>1. now \in Nat /\ health \in Health
  BY DEF TypeOK
<1>2. [health EXCEPT !.success = now + 1, !.candidate = None, !.confirmed = FALSE] \in Health
  <2>1. now + 1 \in Nat
    BY <1>1
  <2> QED
    BY <1>1, <2>1, HealthWith
<1> QED
  BY <1>1, <1>2 DEF Success

LEMMA ReloadTyped ==
  ASSUME TypeOK, NEW v \in Provider, Reload(v)
  PROVE  runtime' \in Snapshot \cup {None} /\ health' \in Health /\ epochs' \in Nat
<1>1. [ws |-> v.ws, key |-> v.key] \in Snapshot
  BY DEF Provider, Snapshot
<1>2. epochs \in Nat /\ epochs + 1 \in Nat /\ health \in Health
  BY DEF TypeOK
<1> QED
  BY <1>1, <1>2, FreshTyped DEF Reload

LEMMA CapturedTyped ==
  ASSUME TypeOK, Captured
  PROVE  /\ runtime' = None /\ health' = health /\ epochs' = epochs
         /\ attempt' \in [Attempts -> Attempt]
         /\ pending' \in Evidence /\ fallback' \in Evidence \cup {Unset}
<1>1. health.candidate \in Evidence /\ None \in Evidence
  BY DEF TypeOK, Health, Evidence
<1>2. \A a \in Attempts : attempt[a] \in Attempt /\ [attempt[a] EXCEPT !.pc = "done"] \in Attempt
  <2> SUFFICES ASSUME NEW a \in Attempts
               PROVE  attempt[a] \in Attempt /\ [attempt[a] EXCEPT !.pc = "done"] \in Attempt
    OBVIOUS
  <2>1. attempt[a] \in Attempt
    BY DEF TypeOK
  <2> QED
    BY <2>1 DEF Attempt
<1> QED
  BY <1>1, <1>2 DEF Captured, Event

LEMMA AcknowledgedTyped ==
  ASSUME TypeOK
  PROVE  \A e : Acknowledged(e) \in Health
<1>1. health \in Health /\ None \in Evidence
  BY DEF TypeOK, Evidence
<1>2. [health EXCEPT !.candidate = None] \in Health
  BY <1>1, HealthWith
<1> QED
  BY <1>1, <1>2 DEF Acknowledged

LEMMA SetTyped ==
  ASSUME TypeOK, NEW a \in Attempts, NEW r \in Attempt, Set(a, r)
  PROVE  attempt' \in [Attempts -> Attempt]
  BY DEF TypeOK, Set

\* Every step keeps every variable of its kind.
LEMMA StepTypes ==
  ASSUME TypeOK, Next
  PROVE  TypeOK'
<1> USE CapabilityConstants
<1>1. ASSUME NEW a \in Attempts, Begin(a) PROVE TypeOK'
  <2> DEFINE pc == IF fallback = Unset THEN "handshake" ELSE "http"
             e == IF fallback = Unset THEN None ELSE fallback
  <2>1. pc \in {"new", "handshake", "ws", "http", "done"} /\ e \in Evidence
    BY DEF TypeOK, Evidence
  <2>2. attempt[a] \in Attempt /\ now \in Nat
    BY DEF TypeOK
  <2>3. runtime.key \in Nat /\ health.epoch \in Nat
    BY <1>1 DEF TypeOK, Begin, Allowed, Live, Snapshot, Health
  <2>4. [attempt[a] EXCEPT !.key = runtime.key, !.epoch = health.epoch, !.started = now,
                           !.pc = pc, !.evidence = e] \in Attempt
    BY <2>1, <2>2, <2>3, AttemptWith
  <2>5. attempt' \in [Attempts -> Attempt]
    BY <1>1, <2>4, SetTyped DEF Begin
  <2> QED
    BY <1>1, <2>5 DEF TypeOK, Begin, counters, history
<1>2. ASSUME NEW a \in Attempts, Connect(a) PROVE TypeOK'
  <2>1. [attempt[a] EXCEPT !.pc = "ws"] \in Attempt
    BY DEF TypeOK, Attempt
  <2>2. attempt' \in [Attempts -> Attempt]
    BY <1>2, <2>1, SetTyped DEF Connect
  <2> QED
    BY <1>2, <2>2 DEF TypeOK, Connect, counters, history
<1>3. ASSUME NEW a \in Attempts, RejectTwice(a) PROVE TypeOK'
  <2>1. attempt[a] \in Attempt /\ health \in Health /\ health.candidate \in Evidence
    BY DEF TypeOK, Health
  <2>2. PICK stale \in BOOLEAN :
          LET found == IF ~Timely(a) THEN None
                       ELSE IF health.candidate = None \/ (stale /\ ~health.confirmed) THEN a
                       ELSE health.candidate
          IN /\ health' = IF Timely(a) THEN [health EXCEPT !.candidate = found] ELSE health
             /\ fallback' = found
             /\ Set(a, [attempt[a] EXCEPT !.pc = "http", !.evidence = found])
    BY <1>3 DEF RejectTwice
  <2>3. PICK found \in Evidence :
             /\ health' = IF Timely(a) THEN [health EXCEPT !.candidate = found] ELSE health
             /\ fallback' = found
             /\ Set(a, [attempt[a] EXCEPT !.pc = "http", !.evidence = found])
    BY <2>1, <2>2 DEF Evidence
  <2>4. [attempt[a] EXCEPT !.pc = "http", !.evidence = found] \in Attempt
    BY <2>1 DEF Attempt
  <2>5. attempt' \in [Attempts -> Attempt]
    BY <2>3, <2>4, SetTyped
  <2>6. health' \in Health
    BY <2>1, <2>3, HealthWith
  <2> QED
    BY <1>3, <2>3, <2>5, <2>6 DEF TypeOK, RejectTwice, counters, history
<1>4. ASSUME NEW a \in Attempts, Unreachable(a) PROVE TypeOK'
  <2>1. [attempt[a] EXCEPT !.pc = "http"] \in Attempt
    BY DEF TypeOK, Attempt
  <2>2. attempt' \in [Attempts -> Attempt]
    BY <1>4, <2>1, SetTyped DEF Unreachable
  <2> QED
    BY <1>4, <2>2 DEF TypeOK, Unreachable, Evidence, counters, history
<1>5. ASSUME NEW a \in Attempts, WsCompletes(a) PROVE TypeOK'
  <2>1. [attempt[a] EXCEPT !.pc = "done"] \in Attempt
    BY DEF TypeOK, Attempt
  <2>2. attempt' \in [Attempts -> Attempt]
    BY <1>5, <2>1, SetTyped DEF WsCompletes
  <2>3. health' \in Health /\ now' \in Nat
    BY <1>5, SuccessTyped DEF WsCompletes
  <2> QED
    BY <1>5, <2>2, <2>3 DEF TypeOK, WsCompletes, Earlier, counters
<1>6. ASSUME NEW a \in Attempts, HttpCompletes(a) PROVE TypeOK'
  <2>1. attempt[a] \in Attempt /\ health \in Health /\ attempt[a].evidence \in Evidence
    BY DEF TypeOK, Attempt
  <2>2. [attempt[a] EXCEPT !.pc = "done"] \in Attempt
    BY <2>1 DEF Attempt
  <2>3. attempt' \in [Attempts -> Attempt]
    BY <1>6, <2>2, SetTyped DEF HttpCompletes
  <2>4. [health EXCEPT !.confirmed = TRUE] \in Health
    BY <2>1, HealthWith
  <2>5. health' \in Health
    BY <1>6, <2>1, <2>4 DEF HttpCompletes
  <2>6. backed' \subseteq Attempts
    BY <1>6, <2>1 DEF HttpCompletes, TypeOK, Evidence
  <2> QED
    BY <1>6, <2>3, <2>5, <2>6 DEF TypeOK, HttpCompletes, counters, history
<1>7. ASSUME NEW a \in Attempts, GiveUp(a) PROVE TypeOK'
  <2>1. [attempt[a] EXCEPT !.pc = "done"] \in Attempt
    BY DEF TypeOK, Attempt
  <2>2. attempt' \in [Attempts -> Attempt]
    BY <1>7, <2>1, SetTyped DEF GiveUp
  <2> QED
    BY <1>7, <2>2 DEF TypeOK, GiveUp, counters, history
<1>8. ASSUME SessionEnds PROVE TypeOK'
  BY <1>8 DEF TypeOK, SessionEnds, counters, history
<1>9. ASSUME Stop PROVE TypeOK'
  BY <1>9, CapturedTyped DEF TypeOK, Stop, counters, history
<1>10. ASSUME Start PROVE TypeOK'
  BY <1>10 DEF TypeOK, Start, Fresh, Health, Snapshot, Provider, Evidence, Free, counters, history
<1>11. ASSUME Restore PROVE TypeOK'
  <2>1. health' \in Health
    <3>1. health \in Health /\ pending \in Evidence
      BY DEF TypeOK
    <3>2. [health EXCEPT !.candidate = pending, !.confirmed = TRUE] \in Health
      BY <3>1, HealthWith
    <3> QED
      BY <1>11, <3>1, <3>2 DEF Restore
  <2> QED
    BY <1>11, <2>1 DEF TypeOK, Restore, Free, Evidence, counters, history
<1>12. ASSUME PersistRetry PROVE TypeOK'
  <2>1. health' \in Health /\ epochs' \in Nat
    <3>1. health \in Health /\ epochs \in Nat /\ Fresh(epochs + 1) \in Health /\ epochs + 1 \in Nat
      BY FreshTyped DEF TypeOK
    <3>2. \A h \in Health : [h EXCEPT !.candidate = None] \in Health
      BY DEF Health, Evidence
    <3> QED
      BY <1>12, <3>1, <3>2 DEF PersistRetry
  <2>2. runtime' \in Snapshot \cup {None}
    <3>1. runtime' = runtime \/ runtime' = None \/ runtime' = [ws |-> vault.ws, key |-> vault.key]
      BY <1>12, Zenon DEF PersistRetry
    <3>2. [ws |-> vault.ws, key |-> vault.key] \in Snapshot /\ runtime \in Snapshot \cup {None}
      BY DEF TypeOK, Provider, Snapshot
    <3> QED
      BY <3>1, <3>2
  <2>3. faults' \in Nat
    <3>1. faults \in Nat /\ (faults' = faults \/ faults' = faults + 1)
      BY <1>12, Zenon DEF TypeOK, PersistRetry, Fault
    <3> QED
      BY <3>1
  <2>4. holder' \in [by : {"nobody", "start", "collect", "write", "reload"}, event : Evidence]
    <3>1. holder' \in {holder, Free, [Free EXCEPT !.by = "collect"]}
      BY <1>12, Zenon DEF PersistRetry
    <3>2. \A x \in {holder, Free, [Free EXCEPT !.by = "collect"]} :
            x \in [by : {"nobody", "start", "collect", "write", "reload"}, event : Evidence]
      BY DEF TypeOK, Free, Evidence
    <3> QED
      BY <3>1, <3>2
  <2>5. refresh' \in BOOLEAN /\ unpublished' \in BOOLEAN
    BY <1>12, ZenonT(30) DEF TypeOK, PersistRetry
  <2>6. pending' \in Evidence
    BY <1>12 DEF TypeOK, PersistRetry, Evidence
  <2> QED
    BY <1>12, <2>1, <2>2, <2>3, <2>4, <2>5, <2>6 DEF TypeOK, PersistRetry
<1>13. ASSUME Collect PROVE TypeOK'
  <2>1. health' \in Health
    BY <1>13, AcknowledgedTyped DEF TypeOK, Collect
  <2>2. Unsaved \in Evidence
    BY DEF TypeOK, Unsaved, Event, Health, Evidence
  <2>3. pending' \in Evidence
    BY <1>13, <2>2 DEF Collect, Evidence
  <2>4. holder' \in [by : {"nobody", "start", "collect", "write", "reload"}, event : Evidence]
    BY <1>13, <2>2 DEF Collect, Free, Evidence
  <2> QED
    BY <1>13, <2>1, <2>3, <2>4 DEF TypeOK, Collect, counters, history
<1>14. ASSUME Write PROVE TypeOK'
  <2>1. vault' \in Provider
    <3>1. vault \in Provider /\ [vault EXCEPT !.ws = FALSE, !.rev = @ + 1] \in Provider
      BY ProviderWith DEF TypeOK
    <3> QED
      BY <1>14, <3>1 DEF Write
  <2>2. faults' \in Nat
    <3>1. faults \in Nat /\ (faults' = faults \/ faults' = faults + 1)
      BY <1>14, Zenon DEF TypeOK, Write, Fault
    <3> QED
      BY <3>1
  <2>3. holder' \in [by : {"nobody", "start", "collect", "write", "reload"}, event : Evidence]
    <3>1. holder' \in {Free, [holder EXCEPT !.by = "reload"]}
      BY <1>14, Zenon DEF Write
    <3>2. \A x \in {Free, [holder EXCEPT !.by = "reload"]} :
            x \in [by : {"nobody", "start", "collect", "write", "reload"}, event : Evidence]
      BY DEF TypeOK, Free, Evidence
    <3> QED
      BY <3>1, <3>2
  <2>4. refresh' \in BOOLEAN /\ unpublished' \in BOOLEAN
    BY <1>14, ZenonT(30) DEF TypeOK, Write, Registered
  <2>5. pending' \in Evidence
    BY <1>14 DEF TypeOK, Write, Evidence
  <2> QED
    BY <1>14, <2>1, <2>2, <2>3, <2>4, <2>5 DEF TypeOK, Write
<1>15. ASSUME PersistReload PROVE TypeOK'
  <2>1. health' \in Health
    BY <1>15, AcknowledgedTyped DEF TypeOK, PersistReload
  <2>2. runtime' \in Snapshot \cup {None}
    <3>1. runtime' = runtime \/ runtime' = None \/ runtime' = [ws |-> vault.ws, key |-> vault.key]
      BY <1>15, Zenon DEF PersistReload
    <3>2. [ws |-> vault.ws, key |-> vault.key] \in Snapshot /\ runtime \in Snapshot \cup {None}
      BY DEF TypeOK, Provider, Snapshot
    <3> QED
      BY <3>1, <3>2
  <2>3. faults' \in Nat
    <3>1. faults \in Nat /\ (faults' = faults \/ faults' = faults + 1)
      BY <1>15, Zenon DEF TypeOK, PersistReload, Fault
    <3> QED
      BY <3>1
  <2>4. refresh' \in BOOLEAN /\ unpublished' \in BOOLEAN
    BY <1>15, ZenonT(30) DEF TypeOK, PersistReload
  <2>5. pending' \in Evidence
    BY <1>15 DEF TypeOK, PersistReload, Evidence
  <2>6. holder' \in [by : {"nobody", "start", "collect", "write", "reload"}, event : Evidence]
    BY <1>15 DEF PersistReload, Free, Evidence
  <2> QED
    BY <1>15, <2>1, <2>2, <2>3, <2>4, <2>5, <2>6 DEF TypeOK, PersistReload
<1>16. ASSUME Save PROVE TypeOK'
  <2>1. PICK v \in {[vault EXCEPT !.ws = FALSE, !.rev = @ + 1],
                    [vault EXCEPT !.key = @ + 1, !.rev = @ + 1]} :
          /\ vault' = v
          /\ \/ Reload(v) /\ UNCHANGED <<attempt, fallback, pending, faults>>
             \/ Live /\ probe = Quiet /\ Fault /\ Captured
    BY <1>16 DEF Save
  <2>2. v \in Provider
    BY <2>1, ProviderWith DEF TypeOK
  <2>3. CASE Reload(v) /\ UNCHANGED <<attempt, fallback, pending, faults>>
    <3>1. edits \in Nat /\ edits' = edits + 1
      BY <1>16, Zenon DEF TypeOK, Save, Edit
    <3>2. UNCHANGED <<now, refresh, holder, probe, restarts, backed, doubted>> /\ unpublished' = FALSE
      BY <1>16, Zenon DEF Save
    <3>3. vault' \in Provider
      BY <2>1, <2>2
    <3>4. runtime' \in Snapshot \cup {None} /\ health' \in Health /\ epochs' \in Nat
      BY <2>2, <2>3, ReloadTyped
    <3>5. edits' \in Nat
      BY <3>1
    <3> QED
      BY <2>3, <3>2, <3>3, <3>4, <3>5 DEF TypeOK
  <2>4. CASE Fault /\ Captured
    <3>1. edits \in Nat /\ edits' = edits + 1
      BY <1>16, Zenon DEF TypeOK, Save, Edit
    <3>2. UNCHANGED <<now, refresh, holder, probe, restarts, backed, doubted>> /\ unpublished' = FALSE
      BY <1>16, Zenon DEF Save
    <3>3. vault' \in Provider
      BY <2>1, <2>2
    <3>4. faults' \in Nat
      BY <2>4 DEF TypeOK, Fault
    <3>5. edits' \in Nat
      BY <3>1
    <3> QED
      BY <2>4, CapturedTyped, <3>2, <3>3, <3>4, <3>5 DEF TypeOK
  <2> QED
    BY <2>1, <2>3, <2>4
<1>17. ASSUME Synced PROVE TypeOK'
  <2>1. PICK ws \in BOOLEAN, key \in {vault.key, vault.key + 1} :
          LET v == [ws |-> ws, key |-> key, rev |-> vault.rev + 1] IN
          /\ vault' = v
          /\ \/ Reload(v) /\ UNCHANGED faults
             \/ Fault /\ UNCHANGED <<runtime, health, epochs>>
    BY <1>17 DEF Synced
  <2>2. PICK v : v = [ws |-> ws, key |-> key, rev |-> vault.rev + 1]
    OBVIOUS
  <2>3. v \in Provider
    BY <2>2 DEF TypeOK, Provider
  <2>4. CASE Reload(v) /\ UNCHANGED faults
    <3>1. edits \in Nat /\ edits' = edits + 1
      BY <1>17, Zenon DEF TypeOK, Synced, Edit
    <3>2. /\ UNCHANGED <<now, attempt, fallback, pending, refresh, holder, probe, restarts>>
          /\ UNCHANGED <<backed, doubted>> /\ unpublished' = FALSE
      BY <1>17, Zenon DEF Synced
    <3>3. vault' \in Provider
      BY <2>1, <2>2, <2>3
    <3>4. runtime' \in Snapshot \cup {None} /\ health' \in Health /\ epochs' \in Nat
      BY <2>3, <2>4, ReloadTyped
    <3>5. edits' \in Nat
      BY <3>1
    <3> QED
      BY <2>4, <3>2, <3>3, <3>4, <3>5 DEF TypeOK
  <2>5. CASE Fault /\ UNCHANGED <<runtime, health, epochs>>
    <3>1. edits \in Nat /\ edits' = edits + 1
      BY <1>17, Zenon DEF TypeOK, Synced, Edit
    <3>2. /\ UNCHANGED <<now, attempt, fallback, pending, refresh, holder, probe, restarts>>
          /\ UNCHANGED <<backed, doubted>> /\ unpublished' = FALSE
      BY <1>17, Zenon DEF Synced
    <3>3. vault' \in Provider
      BY <2>1, <2>2, <2>3
    <3>4. faults' \in Nat
      BY <2>5 DEF TypeOK, Fault
    <3>5. edits' \in Nat
      BY <3>1
    <3> QED
      BY <2>5, <3>2, <3>3, <3>4, <3>5 DEF TypeOK
  <2> QED
    BY <2>1, <2>2, <2>4, <2>5
<1>18. ASSUME ProbeBegins PROVE TypeOK'
  BY <1>18 DEF TypeOK, ProbeBegins, Edit, Provider, Health, counters, history
<1>19. ASSUME ProbeSucceeds PROVE TypeOK'
  <2>1. probe' \in [pc : {"none", "probing", "verified"}, rev : Nat, epoch : Nat \cup {None}]
    BY <1>19 DEF TypeOK, ProbeSucceeds
  <2>2. health' \in Health /\ now' \in Nat
    BY <1>19, SuccessTyped DEF ProbeSucceeds
  <2>3. doubted' \subseteq Attempts
    BY <1>19 DEF TypeOK, ProbeSucceeds, Earlier
  <2> QED
    BY <1>19, <2>1, <2>2, <2>3 DEF TypeOK, ProbeSucceeds, counters
<1>20. ASSUME ProbeFails PROVE TypeOK'
  BY <1>20 DEF TypeOK, ProbeFails, Quiet, counters, history
<1>21. ASSUME ProbeCommits PROVE TypeOK'
  <2>1. [vault EXCEPT !.ws = TRUE, !.rev = @ + 1] \in Provider
    BY ProviderWith DEF TypeOK
  <2>2. vault' \in Provider /\ runtime' \in Snapshot \cup {None} /\ health' \in Health /\ epochs' \in Nat
    BY <1>21, <2>1, ReloadTyped DEF ProbeCommits, TypeOK
  <2> QED
    BY <1>21, <2>2 DEF TypeOK, ProbeCommits, Quiet, counters
<1>22. QED
  BY <1>1, <1>2, <1>3, <1>4, <1>5, <1>6, <1>7, <1>8, <1>9, <1>10, <1>11, <1>12, <1>13, <1>14, <1>15, <1>16, <1>17, <1>18, <1>19, <1>20, <1>21 DEF Next, Persist

-----------------------------------------------------------------------------
(* Steps *)

\* The numbers of the state, and what evidence may be.
LEMMA Plain ==
  ASSUME TypeOK
  PROVE  /\ epochs \in Nat /\ now \in Nat /\ vault.key \in Nat /\ vault.rev \in Nat
         /\ \A a \in Attempts : /\ attempt[a].key \in Nat /\ attempt[a].epoch \in Nat
                                /\ attempt[a].started \in Nat
                                /\ attempt[a].evidence \in Evidence
         /\ health.epoch \in Nat /\ health.success \in Nat \cup {None}
         /\ health.candidate \in Evidence /\ pending \in Evidence /\ holder.event \in Evidence
         /\ backed \subseteq Attempts /\ doubted \subseteq Attempts
         /\ Live => runtime.key \in Nat
         /\ probe.rev \in Nat /\ probe.epoch \in Nat \cup {None}
         /\ None \notin Nat /\ None \notin Attempts /\ Unset \notin Attempts
<1>1. epochs \in Nat /\ now \in Nat /\ backed \subseteq Attempts /\ doubted \subseteq Attempts
      /\ pending \in Evidence
  BY DEF TypeOK
<1>2. vault.key \in Nat /\ vault.rev \in Nat
  BY DEF TypeOK, Provider
<1>3. \A a \in Attempts : /\ attempt[a].key \in Nat /\ attempt[a].epoch \in Nat
                          /\ attempt[a].started \in Nat
                          /\ attempt[a].evidence \in Evidence
  BY DEF TypeOK, Attempt
<1>4. health.epoch \in Nat /\ health.success \in Nat \cup {None} /\ health.candidate \in Evidence
  BY DEF TypeOK, Health
<1>5. holder.event \in Evidence /\ probe.rev \in Nat /\ probe.epoch \in Nat \cup {None}
  BY DEF TypeOK
<1>6. Live => runtime.key \in Nat
  BY DEF TypeOK, Live, Snapshot
<1>7. None \notin Nat /\ None \notin Attempts /\ Unset \notin Attempts
  BY CapabilityConstants DEF Attempts
<1> QED
  BY <1>1, <1>2, <1>3, <1>4, <1>5, <1>6, <1>7

\* A step of the requests and the ledger: requests go on, or end, and evidence
\* that is entered or confirmed stands.
LEMMA LedgerStep ==
  ASSUME CapabilityInv, TypeOK',
         UNCHANGED <<vault, runtime, epochs, now, pending, holder, probe, doubted>>,
         \A a \in Attempts :
           /\ attempt'[a].key = attempt[a].key /\ attempt'[a].epoch = attempt[a].epoch
           /\ attempt'[a].started = attempt[a].started
           /\ Begun(a)' <=> Begun(a)
           /\ Active(a)' => Active(a)
           /\ attempt'[a].evidence # None => Begun(attempt'[a].evidence),
         fallback' \in Attempts => Begun(fallback'),
         backed \subseteq backed', \A b \in backed' : Begun(b),
         health'.epoch = health.epoch /\ health'.success = health.success,
         health'.candidate \in Attempts => Begun(health'.candidate),
         Live => /\ health'.candidate # None => Stands(health'.candidate)
                 /\ health'.confirmed => \E b \in backed' : Stands(b),
         \/ health' = health
         \/ \E a \in Attempts : Begun(a) /\ attempt[a].epoch = epochs
         \/ health.candidate # None
  PROVE  CapabilityInv'
<1>1. TypeOK
  BY DEF CapabilityInv
<1>2. ClockSound'
  <2>1. backed' \subseteq Attempts /\ doubted \subseteq Attempts
    BY DEF TypeOK
  <2>2. \A e \in Attempts : Begun(e) => Begun(e)'
    OBVIOUS
  <2>3. /\ health'.epoch = epochs'
        /\ \A a \in Attempts :
             Begun(a)' => attempt'[a].epoch <= epochs' /\ attempt'[a].started <= now'
    BY DEF CapabilityInv, ClockSound
  <2>4. (\A a \in Attempts : attempt[a].evidence # None => Begun(attempt[a].evidence))'
    <3>1. \A a \in Attempts : attempt'[a].evidence \in Evidence
      BY DEF TypeOK, Attempt
    <3> QED
      BY <2>2, <3>1 DEF Evidence, Begun
  <2>5. \A e \in {fallback', pending', health'.candidate} : e \in Attempts => Begun(e)'
    BY <2>2 DEF CapabilityInv, ClockSound
  <2>6. \A e \in backed' \cup doubted' : Begun(e)'
    BY <2>1, <2>2 DEF CapabilityInv, ClockSound
  <2> QED
    BY <2>3, <2>4, <2>5, <2>6 DEF ClockSound
<1>3. EpochSound'
  BY <1>1, Plain DEF CapabilityInv, EpochSound, Live
<1>4. LedgerSound'
  <2>1. \A e \in Attempts : Live /\ Stands(e) => Stands(e)'
    BY DEF Stands, Begun, Active, Live
  <2>2. health'.candidate \in Evidence /\ backed' \subseteq Attempts
    BY DEF TypeOK, Health
  <2> QED
    BY <2>1, <2>2 DEF LedgerSound, Live, Evidence
<1>5. PendingSound'
  BY <1>1, Plain DEF CapabilityInv, PendingSound, Live, Evidence
<1>6. HolderSound'
  BY <1>1, Plain DEF CapabilityInv, HolderSound, Live, Evidence
<1>7. ProbeSound'
  BY <1>1, Plain DEF CapabilityInv, ProbeSound, Live
<1> QED
  BY <1>2, <1>3, <1>4, <1>5, <1>6, <1>7 DEF CapabilityInv

\* A request that is under way goes on, or ends.
LEMMA GoesOn ==
  ASSUME TypeOK, ClockSound, NEW a \in Attempts, Active(a), NEW p \in {"ws", "http", "done"},
         NEW e \in Evidence, e # None => Begun(e),
         Set(a, [attempt[a] EXCEPT !.pc = p, !.evidence = e])
  PROVE  \A b \in Attempts :
           /\ attempt'[b].key = attempt[b].key /\ attempt'[b].epoch = attempt[b].epoch
           /\ attempt'[b].started = attempt[b].started
           /\ Begun(b)' <=> Begun(b)
           /\ Active(b)' => Active(b)
           /\ attempt'[b].evidence # None => Begun(attempt'[b].evidence)
<1>1. attempt \in [Attempts -> Attempt]
  BY DEF TypeOK
<1>2. /\ attempt'[a].pc = p /\ attempt'[a].evidence = e /\ attempt'[a].key = attempt[a].key
      /\ attempt'[a].epoch = attempt[a].epoch /\ attempt'[a].started = attempt[a].started
  BY <1>1 DEF Set, Attempt
<1>3. \A b \in Attempts : b # a => attempt'[b] = attempt[b]
  BY <1>1 DEF Set
<1> QED
  BY <1>2, <1>3 DEF Begun, Active, ClockSound

\* The same without new evidence.
LEMMA GoesOnAsIs ==
  ASSUME TypeOK, ClockSound, NEW a \in Attempts, Active(a), NEW p \in {"ws", "http", "done"},
         Set(a, [attempt[a] EXCEPT !.pc = p])
  PROVE  \A b \in Attempts :
           /\ attempt'[b].key = attempt[b].key /\ attempt'[b].epoch = attempt[b].epoch
           /\ attempt'[b].started = attempt[b].started
           /\ Begun(b)' <=> Begun(b)
           /\ Active(b)' => Active(b)
           /\ attempt'[b].evidence # None => Begun(attempt'[b].evidence)
<1>1. attempt[a] \in Attempt /\ attempt[a].evidence \in Evidence
  BY DEF TypeOK, Attempt
<1>2. [attempt[a] EXCEPT !.pc = p] = [attempt[a] EXCEPT !.pc = p, !.evidence = attempt[a].evidence]
  BY <1>1 DEF Attempt
<1>3. attempt[a].evidence # None => Begun(attempt[a].evidence)
  BY DEF ClockSound
<1>4. Set(a, [attempt[a] EXCEPT !.pc = p, !.evidence = attempt[a].evidence])
  BY <1>2 DEF Set
<1> QED
  BY <1>1, <1>3, <1>4, GoesOn

\* What the ledger holds now.
LEMMA LedgerNow ==
  ASSUME CapabilityInv
  PROVE  /\ TypeOK /\ ClockSound /\ \A b \in backed : Begun(b)
         /\ fallback \in Attempts => Begun(fallback)
         /\ health.candidate \in Attempts => Begun(health.candidate)
         /\ Live => /\ health.candidate # None => Stands(health.candidate)
                    /\ health.confirmed => \E b \in backed : Stands(b)
  BY DEF CapabilityInv, ClockSound, LedgerSound

LEMMA ConnectSound ==
  ASSUME CapabilityInv, TypeOK', NEW a \in Attempts, Connect(a)
  PROVE  CapabilityInv'
<1>1. Active(a)
  BY DEF Connect, Active
<1>2. UNCHANGED <<vault, runtime, health, epochs, now, fallback, pending, holder, probe,
                  backed, doubted>>
  BY DEF Connect, history
<1> QED
  BY <1>1, <1>2, LedgerNow, GoesOnAsIs, LedgerStep DEF Connect

LEMMA UnreachableSound ==
  ASSUME CapabilityInv, TypeOK', NEW a \in Attempts, Unreachable(a)
  PROVE  CapabilityInv'
<1>1. Active(a) /\ None \notin Attempts
  BY LedgerNow, Plain DEF Unreachable, Active
<1>2. /\ UNCHANGED <<vault, runtime, health, epochs, now, pending, holder, probe,
                     backed, doubted>>
      /\ fallback' = None
  BY DEF Unreachable, history
<1> QED
  BY <1>1, <1>2, LedgerNow, GoesOnAsIs, LedgerStep DEF Unreachable

LEMMA GiveUpSound ==
  ASSUME CapabilityInv, TypeOK', NEW a \in Attempts, GiveUp(a)
  PROVE  CapabilityInv'
<1>1. Active(a)
  BY DEF GiveUp, Active
<1>2. UNCHANGED <<vault, runtime, health, epochs, now, fallback, pending, holder, probe,
                  backed, doubted>>
  BY DEF GiveUp, history
<1> QED
  BY <1>1, <1>2, LedgerNow, GoesOnAsIs, LedgerStep DEF GiveUp

LEMMA SessionEndsSound ==
  ASSUME CapabilityInv, TypeOK', SessionEnds
  PROVE  CapabilityInv'
<1>1. /\ UNCHANGED <<vault, runtime, health, epochs, now, attempt, pending, holder, probe,
                     backed, doubted>>
      /\ fallback' \notin Attempts
  BY LedgerNow, Plain DEF SessionEnds, history
<1>2. \A b \in Attempts : attempt[b].evidence # None => Begun(attempt[b].evidence)
  BY LedgerNow DEF ClockSound
<1>3. \A b \in Attempts : (Begun(b)' <=> Begun(b)) /\ (Active(b)' => Active(b))
  BY <1>1 DEF Begun, Active
<1> QED
  BY <1>1, <1>2, <1>3, LedgerNow, LedgerStep

\* A rejection that is timely stands: no success of its epoch came after the
\* request began.
LEMMA TimelyStands ==
  ASSUME CapabilityInv, Live, NEW a \in Attempts, Active(a), Timely(a)
  PROVE  Stands(a) /\ Begun(a) /\ attempt[a].epoch = epochs
<1>1. TypeOK /\ ClockSound /\ EpochSound
  BY DEF CapabilityInv
<1>2. Begun(a) /\ attempt[a].epoch = epochs
  BY <1>1 DEF Active, Begun, Timely, ClockSound
<1>3. attempt[a].key = runtime.key /\ a \notin doubted
  BY <1>1, <1>2, Plain DEF EpochSound, Timely
<1>4. \A b \in Attempts : Active(b) =>
        attempt[b].epoch < attempt[a].epoch \/ attempt[b].epoch = epochs
  BY <1>1, <1>2, Plain DEF ClockSound, Active, Begun
<1> QED
  BY <1>2, <1>3, <1>4 DEF Stands

LEMMA RejectTwiceSound ==
  ASSUME CapabilityInv, TypeOK', NEW a \in Attempts, RejectTwice(a)
  PROVE  CapabilityInv'
<1>1. Active(a) /\ Live
  BY DEF RejectTwice, Active
<1>2. UNCHANGED <<vault, runtime, epochs, now, pending, holder, probe, backed, doubted>>
  BY DEF RejectTwice, history
<1>3. health \in Health /\ health.candidate \in Evidence /\ None \notin Attempts
  BY LedgerNow, Plain DEF TypeOK
<1>4. PICK found \in Evidence :
        /\ ~Timely(a) => found = None
        /\ found \in {None, a, health.candidate}
        /\ health' = IF Timely(a) THEN [health EXCEPT !.candidate = found] ELSE health
        /\ fallback' = found
        /\ Set(a, [attempt[a] EXCEPT !.pc = "http", !.evidence = found])
  <2>1. PICK stale \in BOOLEAN :
          LET found == IF ~Timely(a) THEN None
                       ELSE IF health.candidate = None \/ (stale /\ ~health.confirmed) THEN a
                       ELSE health.candidate
          IN /\ health' = IF Timely(a) THEN [health EXCEPT !.candidate = found] ELSE health
             /\ fallback' = found
             /\ Set(a, [attempt[a] EXCEPT !.pc = "http", !.evidence = found])
    BY DEF RejectTwice
  <2> QED
    BY <2>1, <1>3 DEF Evidence
<1>5. Timely(a) => Stands(a) /\ attempt[a].epoch = epochs
  BY <1>1, TimelyStands
<1>6. Begun(a)
  BY <1>1 DEF Active, Begun
<1>7. found # None => Begun(found)
  BY <1>3, <1>4, <1>6, LedgerNow DEF Evidence
<1>8. \A b \in Attempts :
        /\ attempt'[b].key = attempt[b].key /\ attempt'[b].epoch = attempt[b].epoch
        /\ attempt'[b].started = attempt[b].started
        /\ Begun(b)' <=> Begun(b)
        /\ Active(b)' => Active(b)
        /\ attempt'[b].evidence # None => Begun(attempt'[b].evidence)
  BY <1>1, <1>4, <1>7, LedgerNow, GoesOn
<1>9. /\ health'.epoch = health.epoch /\ health'.success = health.success
      /\ health'.confirmed = health.confirmed
      /\ health'.candidate = IF Timely(a) THEN found ELSE health.candidate
  BY <1>3, <1>4 DEF Health
<1>10. health'.candidate # None => Stands(health'.candidate)
  BY <1>1, <1>4, <1>5, <1>9, LedgerNow
<1>11. health'.candidate \in Attempts => Begun(health'.candidate)
  BY <1>4, <1>7, <1>9, <1>3, LedgerNow
<1>12. health' = health \/ \E b \in Attempts : Begun(b) /\ attempt[b].epoch = epochs
  BY <1>4, <1>5, <1>6
<1>13. (fallback' \in Attempts => Begun(fallback')) /\ backed \subseteq backed'
       /\ (\A b \in backed' : Begun(b)) /\ (health'.confirmed => \E b \in backed' : Stands(b))
  BY <1>1, <1>2, <1>3, <1>4, <1>7, <1>9, LedgerNow
<1> QED
  BY <1>2, <1>8, <1>9, <1>10, <1>11, <1>12, <1>13, LedgerStep

LEMMA HttpCompletesSound ==
  ASSUME CapabilityInv, TypeOK', NEW a \in Attempts, HttpCompletes(a)
  PROVE  CapabilityInv'
<1> DEFINE e == attempt[a].evidence
<1>1. Active(a)
  BY DEF HttpCompletes, Active
<1>2. UNCHANGED <<vault, runtime, epochs, now, fallback, pending, holder, probe, doubted>>
  BY DEF HttpCompletes
<1>3. health \in Health /\ health.candidate \in Evidence /\ e \in Evidence /\ None \notin Attempts
  BY LedgerNow, Plain DEF TypeOK
<1>4. \A b \in Attempts :
        /\ attempt'[b].key = attempt[b].key /\ attempt'[b].epoch = attempt[b].epoch
        /\ attempt'[b].started = attempt[b].started
        /\ Begun(b)' <=> Begun(b)
        /\ Active(b)' => Active(b)
        /\ attempt'[b].evidence # None => Begun(attempt'[b].evidence)
  BY <1>1, LedgerNow, GoesOnAsIs DEF HttpCompletes
<1>5. e # None => Begun(e)
  BY LedgerNow DEF ClockSound
<1>6. backed \subseteq backed' /\ (e # None => e \in backed') /\ \A b \in backed' : Begun(b)
  BY <1>5, LedgerNow DEF HttpCompletes
<1>7. \/ health' = health
      \/ Live /\ e # None /\ health.candidate = e /\ health' = [health EXCEPT !.confirmed = TRUE]
  BY DEF HttpCompletes
<1>8. /\ health'.epoch = health.epoch /\ health'.success = health.success
      /\ health'.candidate = health.candidate
  BY <1>3, <1>7 DEF Health
<1>9. Live => /\ health'.candidate # None => Stands(health'.candidate)
              /\ health'.confirmed => \E b \in backed' : Stands(b)
  BY <1>6, <1>7, <1>8, LedgerNow
<1>10. health' = health \/ health.candidate # None
  BY <1>7
<1>11. fallback' \in Attempts => Begun(fallback')
  BY <1>2, LedgerNow
<1>12. health'.candidate \in Attempts => Begun(health'.candidate)
  BY <1>8, LedgerNow
<1> QED
  BY <1>2, <1>4, <1>6, <1>8, <1>9, <1>10, <1>11, <1>12, LedgerStep

LEMMA BeginSound ==
  ASSUME CapabilityInv, TypeOK', NEW a \in Attempts, Begin(a)
  PROVE  CapabilityInv'
<1>1. TypeOK /\ ClockSound /\ EpochSound /\ Live /\ runtime.ws /\ ~Begun(a)
  BY DEF CapabilityInv, Begin, Allowed, Begun
<1>2. UNCHANGED <<vault, runtime, health, epochs, now, fallback, pending, holder, probe,
                  backed, doubted>>
  BY DEF Begin, history
<1>3. /\ attempt'[a].key = runtime.key /\ attempt'[a].epoch = epochs
      /\ attempt'[a].started = now /\ attempt'[a].pc \in {"handshake", "http"}
      /\ attempt'[a].evidence \in {None, fallback}
      /\ attempt'[a].evidence # Unset
  <2>1. attempt \in [Attempts -> Attempt] /\ health.epoch = epochs /\ None # Unset
    BY <1>1, CapabilityConstants DEF TypeOK, ClockSound
  <2> QED
    BY <2>1 DEF Begin, Set, Attempt
<1>4. \A b \in Attempts : b # a => attempt'[b] = attempt[b]
  BY <1>1 DEF Begin, Set, TypeOK
<1>5. Begun(a)' /\ Active(a)' /\ a \notin doubted /\ a \notin backed
  BY <1>1, <1>3 DEF Begun, Active, ClockSound
<1>6. \A b \in Attempts : Begun(b) => Begun(b)' /\ b # a
  BY <1>1, <1>4 DEF Begun
<1>7. \A b \in Attempts : b # a => (Active(b)' <=> Active(b)) /\ (Begun(b)' <=> Begun(b))
  BY <1>4 DEF Active, Begun
<1>8. attempt'[a].evidence # None => attempt'[a].evidence \in Attempts /\ Begun(attempt'[a].evidence)
  <2>1. fallback \in Attempts \cup {None, Unset}
    BY <1>1 DEF TypeOK, Evidence
  <2> QED
    BY <1>1, <1>3, <2>1 DEF ClockSound
<1>9. ClockSound'
  <2>1. backed \subseteq Attempts /\ doubted \subseteq Attempts /\ epochs \in Nat /\ now \in Nat
    BY <1>1, Plain
  <2>2. \A b \in Attempts : Begun(b)' => attempt'[b].epoch <= epochs /\ attempt'[b].started <= now
    BY <1>1, <1>3, <1>4, <1>7, <2>1 DEF ClockSound
  <2>3. (\A b \in Attempts : attempt[b].evidence # None => Begun(attempt[b].evidence))'
    <3>1. \A b \in Attempts : attempt[b].evidence \in Evidence
      BY <1>1, Plain
    <3>2. \A b \in Attempts : attempt'[b].evidence # None =>
            attempt'[b].evidence \in Attempts /\ Begun(attempt'[b].evidence)
      BY <1>1, <1>4, <1>8, <3>1 DEF ClockSound, Evidence
    <3> QED
      BY <1>6, <3>2 DEF Begun
  <2>4. \A e \in {fallback', pending', health'.candidate} : e \in Attempts => Begun(e)'
    BY <1>1, <1>2, <1>6 DEF ClockSound
  <2>5. \A e \in backed' \cup doubted' : Begun(e)'
    BY <1>1, <1>2, <1>6, <2>1 DEF ClockSound
  <2> QED
    BY <1>1, <1>2, <2>2, <2>3, <2>4, <2>5 DEF ClockSound
<1>10. EpochSound'
  BY <1>1, <1>2, <1>3, <1>4, <1>5, <1>7 DEF EpochSound, Live
<1>11. LedgerSound'
  <2>1. \A e \in Attempts : Stands(e) => Stands(e)'
    BY <1>2, <1>3, <1>4, <1>6, <1>7 DEF Stands
  <2>2. health.candidate \in Evidence /\ backed \subseteq Attempts
    BY <1>1, Plain
  <2> QED
    BY <1>1, <1>2, <2>1, <2>2 DEF CapabilityInv, LedgerSound, Live, Evidence
<1>12. PendingSound'
  <2>1. pending \in Evidence /\ backed \subseteq Attempts
    BY <1>1, Plain
  <2>2. \A b \in backed : attempt'[b] = attempt[b]
    BY <1>4, <1>5, <2>1
  <2>3. pending # None => attempt'[pending] = attempt[pending]
    BY <1>1, <1>4, <2>1 DEF ClockSound, Evidence
  <2> QED
    BY <1>2, <2>2, <2>3 DEF CapabilityInv, PendingSound, Live
<1>13. HolderSound'
  <2>1. holder.event \in Evidence
    BY <1>1, Plain
  <2>2. holder.event # None /\ Begun(holder.event) =>
          Begun(holder.event)' /\ attempt'[holder.event] = attempt[holder.event]
    BY <1>1, <1>2, <1>4, <1>6, <2>1 DEF Evidence, Begun
  <2>3. holder.by = "start" =>
          /\ Live /\ probe.pc = "none"
          /\ \A b \in Attempts : Active(b) => attempt[b].epoch = epochs
    BY DEF CapabilityInv, HolderSound
  <2>4. holder'.by = "start" =>
          /\ Live' /\ probe'.pc = "none"
          /\ \A b \in Attempts : Active(b)' => attempt'[b].epoch = epochs'
    BY <1>2, <1>3, <1>4, <1>7, <2>3 DEF Live
  <2> QED
    BY <1>2, <2>2, <2>4 DEF CapabilityInv, HolderSound, Live
<1>14. ProbeSound'
  BY <1>1, <1>2 DEF CapabilityInv, ProbeSound, Live
<1> QED
  BY <1>9, <1>10, <1>11, <1>12, <1>13, <1>14 DEF CapabilityInv

\* A completed WebSocket response: what it contradicts is cleared, if it is of
\* the epoch, and otherwise of settings that are not in use any more.
LEMMA WsCompletesSound ==
  ASSUME CapabilityInv, TypeOK', NEW a \in Attempts, WsCompletes(a)
  PROVE  CapabilityInv'
<1>1. TypeOK /\ ClockSound /\ EpochSound /\ Live /\ Active(a) /\ Begun(a)
  <2>1. Active(a) /\ Begun(a)
    BY DEF WsCompletes, Active, Begun
  <2> QED
    BY <2>1 DEF CapabilityInv, EpochSound
<1>2. UNCHANGED <<vault, runtime, epochs, fallback, pending, holder, probe, backed>>
  BY DEF WsCompletes
<1>3. \A b \in Attempts :
        /\ attempt'[b].key = attempt[b].key /\ attempt'[b].epoch = attempt[b].epoch
        /\ attempt'[b].started = attempt[b].started
        /\ Begun(b)' <=> Begun(b)
        /\ Active(b)' => Active(b)
        /\ attempt'[b].evidence # None => Begun(attempt'[b].evidence)
  BY <1>1, GoesOnAsIs DEF WsCompletes
<1>4. doubted' = doubted \cup (Earlier(attempt[a].key, attempt[a].epoch) \ {a})
  BY DEF WsCompletes
<1>5. /\ epochs \in Nat /\ now \in Nat /\ health.epoch = epochs /\ attempt[a].epoch \in Nat
      /\ attempt[a].epoch <= epochs /\ backed \subseteq Attempts /\ doubted \subseteq Attempts
      /\ \A b \in Attempts : attempt[b].epoch \in Nat /\ attempt[b].started \in Nat
      /\ None \notin Nat /\ health \in Health /\ pending \in Evidence /\ holder.event \in Evidence
      /\ health.candidate \in Evidence /\ health.success \in Nat \cup {None}
  BY <1>1, Plain DEF ClockSound, TypeOK
<1>6. now' = now + 1 /\ health'.epoch = epochs
  BY <1>5 DEF WsCompletes, Success, Health
<1>7. attempt[a].epoch = epochs => /\ health'.success = now + 1 /\ health'.candidate = None
                                   /\ ~health'.confirmed
  BY <1>1, <1>5 DEF WsCompletes, Success, Health
<1>8. attempt[a].epoch # epochs => health' = health
  BY <1>5 DEF WsCompletes, Success
<1>9. \A e \in Earlier(attempt[a].key, attempt[a].epoch) :
         e \in Attempts /\ Begun(e) /\ attempt[e].epoch <= attempt[a].epoch
  BY DEF Earlier, Begun
<1>10. ClockSound'
  <2>1. \A b \in Attempts : Begun(b)' => attempt'[b].epoch <= epochs /\ attempt'[b].started <= now + 1
    BY <1>1, <1>3, <1>5 DEF ClockSound
  <2>2. (\A b \in Attempts : attempt[b].evidence # None => Begun(attempt[b].evidence))'
    <3>1. \A b \in Attempts : attempt'[b].evidence \in Evidence
      BY DEF TypeOK, Attempt
    <3> QED
      BY <1>3, <3>1 DEF Evidence, Begun
  <2>3. \A e \in {fallback', pending', health'.candidate} : e \in Attempts => Begun(e)'
    <3>1. None \notin Attempts
      BY <1>1, Plain
    <3> QED
      BY <1>1, <1>2, <1>3, <1>7, <1>8, <3>1 DEF ClockSound
  <2>4. \A e \in backed' \cup doubted' : Begun(e)'
    BY <1>1, <1>2, <1>3, <1>4, <1>5, <1>9 DEF ClockSound
  <2> QED
    BY <1>2, <1>6, <2>1, <2>2, <2>3, <2>4 DEF ClockSound
<1>11. EpochSound'
  <2> SUFFICES ASSUME NEW b \in Attempts, Begun(b)', attempt'[b].epoch = epochs'
               PROVE  /\ attempt'[b].key = runtime'.key
                      /\ b \in doubted' => /\ health'.success # None
                                           /\ attempt'[b].started < health'.success
    BY <1>1, <1>2 DEF EpochSound, Live
  <2>1. Begun(b) /\ attempt[b].epoch = epochs /\ attempt[b].started <= now
    BY <1>1, <1>2, <1>3 DEF ClockSound
  <2>2. attempt'[b].key = runtime'.key
    BY <1>1, <1>2, <1>3, <2>1 DEF EpochSound
  <2>3. CASE attempt[a].epoch = epochs
    BY <1>3, <1>5, <1>7, <2>1, <2>2, <2>3
  <2>4. CASE attempt[a].epoch # epochs
    <3>1. b \in doubted' => b \in doubted
      BY <1>4, <1>5, <1>9, <2>1, <2>4
    <3> QED
      BY <1>1, <1>3, <1>8, <2>1, <2>2, <2>4, <3>1 DEF EpochSound
  <2> QED
    BY <2>3, <2>4
<1>12. LedgerSound'
  <2>1. CASE attempt[a].epoch = epochs
    BY <1>7, <2>1 DEF LedgerSound
  <2>2. CASE attempt[a].epoch # epochs
    <3>1. \A e \in Attempts : Stands(e) => e \notin Earlier(attempt[a].key, attempt[a].epoch)
      BY <1>1, <1>5, <2>2, <1>9 DEF Stands
    <3>2. \A e \in Attempts : Stands(e) => Stands(e)'
      BY <1>2, <1>3, <1>4, <3>1 DEF Stands
    <3> QED
      BY <1>1, <1>2, <1>5, <1>8, <2>2, <3>2 DEF CapabilityInv, LedgerSound, Evidence, Live
  <2> QED
    BY <2>1, <2>2
<1>13. PendingSound'
  <2>1. holder.by = "start" => attempt[a].epoch = epochs
    BY <1>1 DEF CapabilityInv, HolderSound
  <2>2. holder.by = "start" => health'.success # None
    BY <1>5, <1>7, <2>1
  <2> QED
    BY <1>1, <1>2, <2>2 DEF PendingSound, Live
<1>14. HolderSound'
  BY <1>2, <1>3, <1>5 DEF CapabilityInv, HolderSound, Live, Evidence
<1>15. ProbeSound'
  <2>1. attempt[a].epoch # epochs \/ \E b \in Attempts : Begun(b) /\ attempt[b].epoch = epochs
    BY <1>1
  <2> QED
    BY <1>2, <1>3, <1>8, <2>1 DEF CapabilityInv, ProbeSound, Live
<1> QED
  BY <1>10, <1>11, <1>12, <1>13, <1>14, <1>15 DEF CapabilityInv

\* Configuration: the parts of the invariant that speak of requests alone are
\* kept when no request moves.
LEMMA RequestsStill ==
  ASSUME CapabilityInv, TypeOK', UNCHANGED <<attempt, now, fallback, backed, doubted>>,
         epochs \in Nat, epochs' \in {epochs, epochs + 1}, health'.epoch = epochs',
         pending' \in Attempts => Begun(pending'),
         health'.candidate \in Attempts => Begun(health'.candidate)
  PROVE  ClockSound'
<1>1. ClockSound /\ TypeOK
  BY DEF CapabilityInv
<1>2. \A b \in Attempts : attempt[b].epoch \in Nat
  BY <1>1, Plain
<1>3. \A b \in Attempts : Begun(b) => attempt[b].epoch <= epochs' /\ attempt[b].started <= now
  BY <1>1, <1>2 DEF ClockSound
<1>4. \A e \in {fallback', pending', health'.candidate} : e \in Attempts => Begun(e)
  BY <1>1 DEF ClockSound
<1>5. \A e : Begun(e)' <=> Begun(e)
  BY DEF Begun
<1>6. (\A b \in Attempts : attempt[b].evidence # None => Begun(attempt[b].evidence))'
  BY <1>1 DEF ClockSound, Begun
<1> QED
  BY <1>1, <1>3, <1>4, <1>5, <1>6 DEF ClockSound

\* update_config, with a new version of the record: new settings start an epoch,
\* in which there are no requests and no evidence yet.
LEMMA ReloadSound ==
  ASSUME CapabilityInv, TypeOK', Unlocked, NEW v \in Provider, Reload(v), vault'.rev = vault.rev + 1,
         UNCHANGED <<attempt, now, fallback, pending, holder, backed, doubted>>,
         probe' = probe \/ probe' = Quiet
  PROVE  CapabilityInv'
<1>1. TypeOK /\ ClockSound /\ EpochSound
  BY DEF CapabilityInv
<1>2. /\ epochs \in Nat /\ health.candidate \in Evidence /\ health.epoch = epochs
      /\ backed \subseteq Attempts /\ None \notin Attempts
  BY <1>1, Plain DEF ClockSound
<1>3. [ws |-> v.ws, key |-> v.key] # None
  BY NoneIsNoSnapshot DEF Provider, Snapshot
<1>4. Live' <=> Live
  BY <1>3 DEF Reload, Live
<1>5. holder.by = "nobody" /\ holder'.by = "nobody"
  BY DEF Unlocked, Free
<1>6. \A b \in Attempts : Begun(b) => attempt[b].epoch <= epochs /\ attempt[b].epoch \in Nat
  BY <1>1, Plain DEF ClockSound
<1>7. \/ epochs' = epochs /\ health' = health /\ (Live => runtime'.key = runtime.key)
      \/ Live /\ epochs' = epochs + 1 /\ health' = Fresh(epochs + 1)
  <2>1. CASE Live /\ Renewed(v)
    BY <2>1 DEF Reload
  <2>2. CASE ~(Live /\ Renewed(v))
    BY <2>2 DEF Reload, Renewed, Live
  <2> QED
    BY <2>1, <2>2
<1>8. Fresh(epochs + 1).epoch = epochs + 1 /\ Fresh(epochs + 1).candidate = None
      /\ ~Fresh(epochs + 1).confirmed
  BY DEF Fresh
<1>9. ClockSound'
  <2>1. health'.epoch = epochs' /\ (health'.candidate \in Attempts => Begun(health'.candidate))
    BY <1>1, <1>2, <1>7, <1>8 DEF ClockSound
  <2>2. pending' \in Attempts => Begun(pending')
    BY <1>1 DEF ClockSound
  <2> QED
    BY <1>2, <1>7, <2>1, <2>2, RequestsStill
<1>10. EpochSound'
  <2>1. \A b \in Attempts : (Begun(b)' <=> Begun(b)) /\ (Active(b)' <=> Active(b))
    BY DEF Begun, Active
  <2>2. CASE epochs' = epochs /\ health' = health /\ (Live => runtime'.key = runtime.key)
    BY <1>1, <1>4, <2>1, <2>2 DEF EpochSound
  <2>3. CASE Live /\ epochs' = epochs + 1
    BY <1>2, <1>4, <1>6, <2>1, <2>3 DEF EpochSound
  <2> QED
    BY <1>7, <2>2, <2>3
<1>11. LedgerSound'
  <2>1. CASE epochs' = epochs /\ health' = health /\ (Live => runtime'.key = runtime.key)
    <3>1. \A e \in Attempts : Live /\ Stands(e) => Stands(e)'
      BY <2>1 DEF Stands, Begun, Active
    <3> QED
      BY <1>2, <1>4, <2>1, <3>1 DEF CapabilityInv, LedgerSound, Evidence
  <2>2. CASE health' = Fresh(epochs + 1)
    BY <1>8, <2>2 DEF LedgerSound
  <2> QED
    BY <1>7, <2>1, <2>2
<1>12. PendingSound'
  BY <1>4, <1>5 DEF CapabilityInv, PendingSound
<1>13. HolderSound'
  BY <1>5 DEF HolderSound
<1>14. ProbeSound'
  <2>1. probe.rev \in Nat /\ vault.rev \in Nat
    BY <1>1, Plain
  <2> QED
    BY <1>4, <2>1 DEF CapabilityInv, ProbeSound, Quiet
<1> QED
  BY <1>9, <1>10, <1>11, <1>12, <1>13, <1>14 DEF CapabilityInv

\* capture_ws_events: what was confirmed is kept, and nothing is under way that
\* could contradict it.
LEMMA CapturedSound ==
  ASSUME CapabilityInv, TypeOK', Unlocked, Live, Captured, probe.pc = "none", probe' = probe,
         UNCHANGED <<now, holder, backed, doubted>>
  PROVE  CapabilityInv'
<1>1. TypeOK /\ ClockSound /\ LedgerSound
  BY DEF CapabilityInv
<1>2. /\ epochs \in Nat /\ health.candidate \in Evidence /\ backed \subseteq Attempts
      /\ None \notin Attempts /\ Unset \notin Attempts /\ doubted \subseteq Attempts
  BY <1>1, Plain
<1>3. ~Live'
  BY DEF Captured, Live
<1>4. \A b \in Attempts :
        /\ attempt'[b].key = attempt[b].key /\ attempt'[b].epoch = attempt[b].epoch
        /\ attempt'[b].started = attempt[b].started /\ attempt'[b].evidence = attempt[b].evidence
        /\ Begun(b)' <=> Begun(b)
        /\ ~Active(b)'
  <2> SUFFICES ASSUME NEW b \in Attempts
               PROVE  /\ attempt'[b].key = attempt[b].key /\ attempt'[b].epoch = attempt[b].epoch
                      /\ attempt'[b].started = attempt[b].started
                      /\ attempt'[b].evidence = attempt[b].evidence
                      /\ Begun(b)' <=> Begun(b)
                      /\ ~Active(b)'
    OBVIOUS
  <2>1. attempt[b] \in Attempt
    BY <1>1 DEF TypeOK
  <2> QED
    BY <2>1 DEF Captured, Attempt, Begun, Active
<1>5. pending' = Event /\ UNCHANGED <<health, epochs>> /\ fallback' = Unset
  BY DEF Captured
<1>6. pending' # None => /\ pending' \in Attempts /\ Begun(pending') /\ Stands(pending')
                         /\ \E b \in backed : Stands(b)
  BY <1>1, <1>2, <1>5 DEF Event, LedgerSound, ClockSound, Evidence
<1>7. ClockSound'
  <2>1. \A b \in Attempts : Begun(b)' => attempt'[b].epoch <= epochs /\ attempt'[b].started <= now
    BY <1>1, <1>4 DEF ClockSound
  <2>2. (\A b \in Attempts : attempt[b].evidence # None => Begun(attempt[b].evidence))'
    <3>1. \A b \in Attempts : attempt[b].evidence \in Evidence
      BY <1>1, Plain
    <3>2. \A b \in Attempts : attempt[b].evidence # None =>
            attempt[b].evidence \in Attempts /\ Begun(attempt[b].evidence)
      BY <1>1, <3>1 DEF ClockSound, Evidence
    <3> QED
      BY <1>4, <3>2 DEF Begun
  <2>3. \A e \in {fallback', pending', health'.candidate} : e \in Attempts => Begun(e)'
    BY <1>1, <1>2, <1>4, <1>5, <1>6 DEF ClockSound
  <2>4. \A e \in backed' \cup doubted' : Begun(e)'
    BY <1>1, <1>2, <1>4 DEF ClockSound
  <2> QED
    BY <1>1, <1>5, <2>1, <2>2, <2>3, <2>4 DEF ClockSound
<1>8. EpochSound'
  BY <1>3, <1>4 DEF EpochSound
<1>9. LedgerSound'
  BY <1>3 DEF LedgerSound
<1>10. PendingSound'
  <2>1. pending' # None =>
          /\ pending' \notin doubted
          /\ \E b \in backed \ doubted : attempt[b].key = attempt[pending'].key
    BY <1>6 DEF Stands
  <2>2. pending' # None =>
          /\ pending' \notin doubted'
          /\ \E b \in backed' \ doubted' : attempt'[b].key = attempt'[pending'].key
    BY <1>2, <1>4, <1>6, <2>1
  <2> QED
    BY <2>2 DEF PendingSound
<1>11. HolderSound'
  BY DEF HolderSound, Unlocked, Free
<1>12. ProbeSound'
  BY DEF ProbeSound
<1> QED
  BY <1>7, <1>8, <1>9, <1>10, <1>11, <1>12 DEF CapabilityInv

LEMMA StopSound ==
  ASSUME CapabilityInv, TypeOK', ~StoppedProbes, Stop
  PROVE  CapabilityInv'
<1>1. /\ Unlocked /\ Live /\ Captured /\ probe.pc = "none"
      /\ UNCHANGED <<now, holder, probe, backed, doubted>>
  BY DEF Stop, Quiet, history
<1> QED
  BY <1>1, CapturedSound

LEMMA SaveSound ==
  ASSUME CapabilityInv, TypeOK', Save
  PROVE  CapabilityInv'
<1>1. PICK v \in {[vault EXCEPT !.ws = FALSE, !.rev = @ + 1],
                  [vault EXCEPT !.key = @ + 1, !.rev = @ + 1]} :
        /\ vault' = v
        /\ \/ Reload(v) /\ UNCHANGED <<attempt, fallback, pending, faults>>
           \/ Live /\ probe = Quiet /\ Fault /\ Captured
  BY DEF Save
<1>2. Unlocked /\ UNCHANGED <<now, holder, probe, backed, doubted>>
  BY DEF Save
<1>3. vault \in Provider /\ v \in Provider
  BY <1>1, ProviderWith DEF CapabilityInv, TypeOK
<1>4. v.rev = vault.rev + 1
  BY <1>1, <1>3 DEF Provider
<1>5. CASE Reload(v) /\ UNCHANGED <<attempt, fallback, pending, faults>>
  BY <1>1, <1>2, <1>3, <1>4, <1>5, ReloadSound
<1>6. CASE Live /\ probe = Quiet /\ Fault /\ Captured
  BY <1>2, <1>6, CapturedSound DEF Quiet
<1> QED
  BY <1>1, <1>5, <1>6

LEMMA SyncedSound ==
  ASSUME CapabilityInv, TypeOK', Synced
  PROVE  CapabilityInv'
<1>1. PICK ws \in BOOLEAN, key \in {vault.key, vault.key + 1} :
        LET v == [ws |-> ws, key |-> key, rev |-> vault.rev + 1] IN
        /\ vault' = v
        /\ \/ Reload(v) /\ UNCHANGED faults
           \/ Fault /\ UNCHANGED <<runtime, health, epochs>>
  BY DEF Synced
<1>2. PICK v : v = [ws |-> ws, key |-> key, rev |-> vault.rev + 1]
  OBVIOUS
<1>3. Unlocked /\ UNCHANGED <<now, attempt, fallback, pending, holder, probe, backed, doubted>>
  BY DEF Synced
<1>4. vault' = v /\ v.rev = vault.rev + 1 /\ v \in Provider
  BY <1>1, <1>2 DEF TypeOK
<1>5. CASE Reload(v)
  BY <1>3, <1>4, <1>5, ReloadSound
<1>6. CASE UNCHANGED <<runtime, health, epochs>>
  <2>1. vault.rev \in Nat /\ probe.rev \in Nat /\ holder.by = "nobody"
    BY <1>3, Plain DEF CapabilityInv, Unlocked, Free
  <2>2. ClockSound' /\ EpochSound' /\ LedgerSound' /\ PendingSound'
    BY <1>3, <1>6 DEF CapabilityInv, ClockSound, EpochSound, LedgerSound, PendingSound, Begun,
                      Active, Stands, Live
  <2>3. HolderSound' /\ ProbeSound'
    BY <1>3, <1>4, <1>6, <2>1 DEF CapabilityInv, HolderSound, ProbeSound, Live
  <2> QED
    BY <2>2, <2>3 DEF CapabilityInv
<1> QED
  BY <1>1, <1>2, <1>5, <1>6

\* A started listener has an epoch to itself; the saved evidence waits.
LEMMA StartSound ==
  ASSUME CapabilityInv, TypeOK', Start
  PROVE  CapabilityInv'
<1>1. TypeOK /\ ClockSound /\ EpochSound /\ ~Live /\ probe.pc = "none"
  BY DEF CapabilityInv, Start, ProbeSound
<1>2. /\ UNCHANGED <<vault, now, attempt, fallback, pending, probe, backed, doubted>>
      /\ holder'.by = "start" /\ epochs' = epochs + 1 /\ health' = Fresh(epochs + 1)
      /\ runtime' = [ws |-> vault.ws, key |-> vault.key]
  BY DEF Start, history, Free
<1>3. epochs \in Nat /\ vault \in Provider /\ None \notin Attempts
  BY <1>1, Plain DEF TypeOK
<1>4. health'.epoch = epochs' /\ health'.candidate = None /\ ~health'.confirmed
  BY <1>2 DEF Fresh
<1>5. Live'
  BY <1>2, <1>3, NoneIsNoSnapshot DEF Live, Provider, Snapshot
<1>6. \A b \in Attempts : Begun(b) => attempt[b].epoch <= epochs /\ attempt[b].epoch \in Nat
  BY <1>1, Plain DEF ClockSound
<1>7. ClockSound'
  <2>1. pending' \in Attempts => Begun(pending')
    BY <1>1, <1>2 DEF ClockSound
  <2> QED
    BY <1>2, <1>3, <1>4, <2>1, RequestsStill
<1>8. EpochSound'
  BY <1>2, <1>3, <1>5, <1>6 DEF EpochSound, Begun
<1>9. LedgerSound'
  BY <1>4 DEF LedgerSound
<1>10. PendingSound'
  BY <1>1, <1>2 DEF CapabilityInv, PendingSound
<1>11. HolderSound'
  BY <1>1, <1>2, <1>5 DEF HolderSound, EpochSound, Active
<1>12. ProbeSound'
  BY <1>1, <1>2 DEF ProbeSound
<1> QED
  BY <1>7, <1>8, <1>9, <1>10, <1>11, <1>12 DEF CapabilityInv

\* Saved evidence is put back only for its own settings, and if no success of
\* the new epoch came first.
LEMMA RestoreSound ==
  ASSUME CapabilityInv, TypeOK', Restore
  PROVE  CapabilityInv'
<1>1. TypeOK /\ ClockSound /\ EpochSound /\ LedgerSound
  BY DEF CapabilityInv
<1>2. /\ UNCHANGED <<vault, runtime, epochs, now, attempt, fallback, pending, probe, backed, doubted>>
      /\ holder.by = "start" /\ holder'.by = "nobody"
  BY DEF Restore, history, Free
<1>3. /\ Live /\ probe.pc = "none"
      /\ \A b \in Attempts : Active(b) => attempt[b].epoch = epochs
  BY <1>2 DEF CapabilityInv, HolderSound
<1>4. /\ health \in Health /\ health.candidate \in Evidence /\ pending \in Evidence
      /\ epochs \in Nat /\ health.epoch = epochs /\ None \notin Attempts /\ backed \subseteq Attempts
  BY <1>1, Plain DEF TypeOK, ClockSound
<1>5. \/ health' = health
      \/ /\ pending \in Attempts /\ Stands(pending) /\ \E b \in backed : Stands(b)
         /\ health' = [health EXCEPT !.candidate = pending, !.confirmed = TRUE]
  <2>1. SUFFICES ASSUME pending # None, attempt[pending].key = runtime.key, Restorable
                 PROVE  /\ pending \in Attempts /\ Stands(pending) /\ \E b \in backed : Stands(b)
    BY DEF Restore
  <2>2. pending \in Attempts /\ Begun(pending)
    BY <1>1, <1>4, <2>1 DEF ClockSound, Evidence
  <2>3. pending \notin doubted
    BY <1>2, <2>1 DEF CapabilityInv, PendingSound, Restorable
  <2>4. PICK b \in backed \ doubted : attempt[b].key = attempt[pending].key
    BY <1>2, <2>1 DEF CapabilityInv, PendingSound, Restorable
  <2>5. Stands(pending)
    BY <1>3, <2>1, <2>2, <2>3 DEF Stands
  <2>6. Stands(b)
    BY <1>1, <1>3, <2>1, <2>4 DEF Stands, ClockSound
  <2> QED
    BY <2>2, <2>4, <2>5, <2>6
<1>6. /\ health'.epoch = epochs /\ health'.success = health.success
      /\ health'.candidate \in {health.candidate, pending}
  BY <1>4, <1>5 DEF Health
<1>7. ClockSound'
  <2>1. pending' \in Attempts => Begun(pending')
    BY <1>1, <1>2 DEF ClockSound
  <2>2. health'.candidate \in Attempts => Begun(health'.candidate)
    BY <1>1, <1>6 DEF ClockSound
  <2> QED
    BY <1>2, <1>4, <1>6, <2>1, <2>2, RequestsStill
<1>8. EpochSound'
  BY <1>1, <1>2, <1>3, <1>6 DEF EpochSound, Live, Begun
<1>9. LedgerSound'
  <2>1. \A e : Stands(e)' <=> Stands(e)
    BY <1>2 DEF Stands, Begun, Active
  <2>2. /\ health'.candidate # None => Stands(health'.candidate)
        /\ health'.confirmed => \E b \in backed : Stands(b)
    <3>1. CASE health' = health
      BY <1>1, <1>3, <3>1 DEF LedgerSound
    <3>2. CASE /\ Stands(pending) /\ \E b \in backed : Stands(b)
               /\ health' = [health EXCEPT !.candidate = pending, !.confirmed = TRUE]
      BY <1>4, <3>2 DEF Health
    <3> QED
      BY <1>5, <3>1, <3>2
  <2> QED
    BY <1>2, <2>1, <2>2 DEF LedgerSound
<1>10. PendingSound'
  BY <1>2, <1>3 DEF PendingSound, Live
<1>11. HolderSound'
  BY <1>2 DEF HolderSound
<1>12. ProbeSound'
  BY <1>2, <1>3 DEF ProbeSound
<1> QED
  BY <1>7, <1>8, <1>9, <1>10, <1>11, <1>12 DEF CapabilityInv

LEMMA PersistRetrySound ==
  ASSUME CapabilityInv, TypeOK', PersistRetry
  PROVE  CapabilityInv'
<1>1. TypeOK /\ ClockSound /\ EpochSound /\ LedgerSound
  BY DEF CapabilityInv
<1>2. /\ UNCHANGED <<vault, now, attempt, fallback, probe, backed, doubted>>
      /\ holder.by = "nobody" /\ holder'.by \in {"nobody", "collect"}
      /\ pending' \in {pending, None}
  <2>1. UNCHANGED <<vault, now, attempt, fallback, probe, backed, doubted>> /\ holder = Free
    BY DEF PersistRetry, Unlocked
  <2>2. holder' \in {holder, Free, [Free EXCEPT !.by = "collect"]} /\ pending' \in {pending, None}
    BY Zenon DEF PersistRetry
  <2> QED
    BY <2>1, <2>2 DEF Free
<1>3. /\ epochs \in Nat /\ health \in Health /\ health.candidate \in Evidence /\ health.epoch = epochs
      /\ backed \subseteq Attempts /\ None \notin Attempts /\ vault \in Provider
  BY <1>1, Plain DEF ClockSound, TypeOK
<1>4. CASE UNCHANGED <<runtime, health, epochs, pending, holder>>
  <2>1. ClockSound' /\ EpochSound' /\ LedgerSound' /\ PendingSound'
    BY <1>2, <1>4 DEF CapabilityInv, ClockSound, EpochSound, LedgerSound, PendingSound, Begun,
                      Active, Stands, Live
  <2>2. HolderSound' /\ ProbeSound'
    BY <1>2, <1>4 DEF CapabilityInv, HolderSound, ProbeSound, Live, Begun
  <2> QED
    BY <2>1, <2>2 DEF CapabilityInv
<1>5. CASE ~UNCHANGED <<runtime, health, epochs, pending, holder>>
  <2>1. runtime' = IF Live THEN [ws |-> vault.ws, key |-> vault.key] ELSE None
    BY <1>5 DEF PersistRetry
  <2>2. Live' <=> Live
    BY <1>3, <2>1, NoneIsNoSnapshot DEF Live, Provider, Snapshot
  <2>3. \/ /\ Live /\ Renewed(vault) /\ epochs' = epochs + 1 /\ health' = Fresh(epochs + 1)
        \/ /\ ~(Live /\ Renewed(vault)) /\ epochs' = epochs
           /\ health' \in {health, [health EXCEPT !.candidate = None]}
    <3>1. CASE Live /\ Renewed(vault)
      BY <1>5, <3>1 DEF PersistRetry, Fresh
    <3>2. CASE ~(Live /\ Renewed(vault))
      BY <1>5, <3>2 DEF PersistRetry
    <3> QED
      BY <3>1, <3>2
  <2>4. CASE /\ Live /\ Renewed(vault) /\ epochs' = epochs + 1 /\ health' = Fresh(epochs + 1)
    <3>1. health'.epoch = epochs' /\ health'.candidate = None /\ ~health'.confirmed
      BY <2>4 DEF Fresh
    <3>2. \A b \in Attempts : Begun(b) => attempt[b].epoch <= epochs /\ attempt[b].epoch \in Nat
      BY <1>1, Plain DEF ClockSound
    <3>3. ClockSound'
      <4>1. pending' \in Attempts => Begun(pending')
        BY <1>1, <1>2, <1>3 DEF ClockSound
      <4> QED
        BY <1>2, <1>3, <2>4, <3>1, <4>1, RequestsStill
    <3>4. EpochSound' /\ LedgerSound'
      BY <1>2, <1>3, <2>2, <2>4, <3>1, <3>2 DEF EpochSound, LedgerSound, Begun
    <3>5. PendingSound' /\ HolderSound'
      BY <1>2, <2>2, <2>4 DEF PendingSound, HolderSound
    <3>6. ProbeSound'
      <4>1. \A b \in Attempts : Begun(b)' => attempt'[b].epoch # epochs'
        BY <1>2, <1>3, <2>4, <3>2 DEF Begun
      <4>2. runtime'.key = vault'.key /\ (~vault'.ws => ~runtime'.ws)
        BY <1>2, <2>1, <2>4
      <4>3. probe.pc = "probing" /\ probe.rev = vault.rev => ~vault.ws /\ probe.epoch = None
        BY <1>3, <2>4 DEF CapabilityInv, ProbeSound, Renewed
      <4> QED
        BY <1>2, <2>2, <3>1, <4>1, <4>2, <4>3 DEF CapabilityInv, ProbeSound
    <3> QED
      BY <3>3, <3>4, <3>5, <3>6 DEF CapabilityInv
  <2>5. CASE /\ ~(Live /\ Renewed(vault)) /\ epochs' = epochs
             /\ health' \in {health, [health EXCEPT !.candidate = None]}
    <3>1. /\ health'.epoch = epochs' /\ health'.candidate \in {None, health.candidate}
          /\ health'.success = health.success /\ health'.confirmed = health.confirmed
      BY <1>3, <2>5 DEF Health
    <3>2. Live => runtime'.key = runtime.key /\ runtime.key = vault.key
      BY <2>1, <2>5 DEF Renewed
    <3>3. ClockSound'
      <4>1. pending' \in Attempts => Begun(pending')
        BY <1>1, <1>2, <1>3 DEF ClockSound
      <4>2. health'.candidate \in Attempts => Begun(health'.candidate)
        BY <1>1, <1>3, <3>1 DEF ClockSound
      <4> QED
        BY <1>2, <1>3, <2>5, <3>1, <4>1, <4>2, RequestsStill
    <3>4. EpochSound'
      BY <1>1, <1>2, <2>2, <2>5, <3>1, <3>2 DEF EpochSound, Begun, Active
    <3>5. LedgerSound'
      <4>1. \A e : Live /\ Stands(e) => Stands(e)'
        BY <1>2, <2>5, <3>2 DEF Stands, Begun, Active
      <4> QED
        BY <1>1, <1>2, <2>2, <3>1, <4>1 DEF LedgerSound
    <3>6. PendingSound' /\ HolderSound'
      BY <1>2, <2>2 DEF CapabilityInv, PendingSound, HolderSound
    <3>7. ProbeSound'
      <4>1. Live => runtime'.ws = vault.ws
        BY <2>1
      <4> QED
        BY <1>2, <2>2, <2>5, <3>1, <3>2, <4>1 DEF CapabilityInv, ProbeSound, Begun
    <3> QED
      BY <3>3, <3>4, <3>5, <3>6, <3>7 DEF CapabilityInv
  <2> QED
    BY <2>3, <2>4, <2>5
<1> QED
  BY <1>4, <1>5

\* What is saved is evidence about the vault's settings; other evidence is
\* dropped.
LEMMA CollectSound ==
  ASSUME CapabilityInv, TypeOK', Collect
  PROVE  CapabilityInv'
<1> DEFINE e == Unsaved
<1>1. TypeOK /\ ClockSound /\ EpochSound /\ LedgerSound
  BY DEF CapabilityInv
<1>2. /\ UNCHANGED <<vault, runtime, epochs, now, attempt, fallback, probe, backed, doubted>>
      /\ holder.by \in {"nobody", "collect"}
      /\ \/ /\ e # None /\ attempt[e].key = vault.key
            /\ holder' = [by |-> "write", event |-> e] /\ pending' = e
         \/ holder'.by = "nobody" /\ pending' = None
      /\ health' \in {health, Acknowledged(e)}
  BY DEF Collect, Unlocked, Free, history
<1>3. /\ epochs \in Nat /\ health \in Health /\ health.candidate \in Evidence /\ health.epoch = epochs
      /\ backed \subseteq Attempts /\ None \notin Attempts /\ pending \in Evidence
  BY <1>1, Plain DEF ClockSound, TypeOK
<1>4. /\ health'.epoch = epochs /\ health'.candidate \in {None, health.candidate}
      /\ health'.success = health.success /\ health'.confirmed = health.confirmed
  BY <1>2, <1>3 DEF Acknowledged, Health
<1>5. e # None => e \in Attempts /\ Begun(e) /\ (Live => Stands(e)) /\ (~Live => e = pending)
  BY <1>1, <1>3 DEF Unsaved, Event, ClockSound, LedgerSound, Evidence
<1>6. ClockSound'
  <2>1. pending' \in Attempts => Begun(pending')
    BY <1>2, <1>3, <1>5
  <2>2. health'.candidate \in Attempts => Begun(health'.candidate)
    BY <1>1, <1>3, <1>4 DEF ClockSound
  <2> QED
    BY <1>2, <1>3, <1>4, <2>1, <2>2, RequestsStill
<1>7. EpochSound'
  BY <1>1, <1>2, <1>4 DEF EpochSound, Begun, Active, Live
<1>8. LedgerSound'
  <2>1. \A x : Stands(x) => Stands(x)'
    BY <1>2 DEF Stands, Begun, Active
  <2> QED
    BY <1>1, <1>2, <1>4, <2>1 DEF LedgerSound, Live
<1>9. PendingSound'
  <2>1. ~Live /\ pending' # None => pending' = pending
    BY <1>2, <1>5
  <2>2. holder'.by # "start"
    BY <1>2
  <2> QED
    BY <1>2, <2>1, <2>2 DEF CapabilityInv, PendingSound, Live
<1>10. HolderSound'
  BY <1>2, <1>5 DEF HolderSound, Stands, Begun, Live
<1>11. ProbeSound'
  BY <1>2, <1>4 DEF CapabilityInv, ProbeSound, Live, Begun
<1> QED
  BY <1>6, <1>7, <1>8, <1>9, <1>10, <1>11 DEF CapabilityInv

\* What Write and the reload after it leave alone.
LEMMA SettingsStay ==
  ASSUME CapabilityInv, TypeOK', UNCHANGED <<epochs, now, attempt, fallback, probe, backed, doubted>>,
         Live' <=> Live, Live => runtime'.key = runtime.key,
         pending' \in {pending, None}, holder'.by # "start",
         health'.epoch = health.epoch, health'.success = health.success,
         health'.confirmed = health.confirmed, health'.candidate \in {None, health.candidate}
  PROVE  ClockSound' /\ EpochSound' /\ LedgerSound' /\ PendingSound'
<1>1. TypeOK /\ ClockSound /\ EpochSound /\ LedgerSound
  BY DEF CapabilityInv
<1>2. /\ epochs \in Nat /\ health.epoch = epochs /\ None \notin Attempts
  BY <1>1, Plain DEF ClockSound
<1>3. ClockSound'
  <2>1. pending' \in Attempts => Begun(pending')
    BY <1>1, <1>2 DEF ClockSound
  <2>2. health'.candidate \in Attempts => Begun(health'.candidate)
    BY <1>1, <1>2 DEF ClockSound
  <2> QED
    BY <1>2, <2>1, <2>2, RequestsStill
<1>4. EpochSound'
  BY <1>1 DEF EpochSound, Begun, Active
<1>5. LedgerSound'
  <2>1. \A x : Live /\ Stands(x) => Stands(x)'
    BY DEF Stands, Begun, Active
  <2> QED
    BY <1>1, <2>1 DEF LedgerSound
<1>6. PendingSound'
  BY DEF CapabilityInv, PendingSound
<1> QED
  BY <1>3, <1>4, <1>5, <1>6

LEMMA WriteSound ==
  ASSUME CapabilityInv, TypeOK', Write
  PROVE  CapabilityInv'
<1>1. /\ UNCHANGED <<runtime, health, epochs, now, attempt, fallback, probe, backed, doubted>>
      /\ holder.by = "write" /\ pending' \in {pending, None}
      /\ holder' \in {Free, [holder EXCEPT !.by = "reload"]}
      /\ vault' \in {vault, [vault EXCEPT !.ws = FALSE, !.rev = @ + 1]}
  BY DEF Write
<1>2. /\ vault \in Provider /\ vault.rev \in Nat /\ probe.rev \in Nat
      /\ holder \in [by : {"nobody", "start", "collect", "write", "reload"}, event : Evidence]
  BY Plain DEF CapabilityInv, TypeOK
<1>3. /\ holder'.by \in {"nobody", "reload"} /\ (holder'.by = "reload" => holder'.event = holder.event)
      /\ vault'.key = vault.key
      /\ vault' = vault \/ vault'.rev = vault.rev + 1
  <2>1. holder'.by \in {"nobody", "reload"} /\ (holder'.by = "reload" => holder'.event = holder.event)
    BY <1>1, <1>2 DEF Free
  <2>2. vault'.key = vault.key
    BY <1>1, <1>2 DEF Provider
  <2>3. vault' = vault \/ vault'.rev = vault.rev + 1
    BY <1>1, <1>2 DEF Provider
  <2> QED
    BY <2>1, <2>2, <2>3
<1>4. ClockSound' /\ EpochSound' /\ LedgerSound' /\ PendingSound'
  BY <1>1, <1>3, SettingsStay DEF Live
<1>5. HolderSound'
  BY <1>1, <1>3 DEF CapabilityInv, HolderSound, Begun, Live
<1>6. ProbeSound'
  BY <1>1, <1>2, <1>3 DEF CapabilityInv, ProbeSound, Begun, Live
<1> QED
  BY <1>4, <1>5, <1>6 DEF CapabilityInv

LEMMA PersistReloadSound ==
  ASSUME CapabilityInv, TypeOK', PersistReload
  PROVE  CapabilityInv'
<1>1. /\ UNCHANGED <<vault, epochs, now, attempt, fallback, probe, backed, doubted>>
      /\ holder.by = "reload" /\ holder'.by = "nobody"
      /\ pending' \in {pending, None}
      /\ runtime' \in {runtime, IF Live THEN [ws |-> vault.ws, key |-> vault.key] ELSE None}
      /\ health' \in {health, Acknowledged(holder.event)}
  BY DEF PersistReload, Free
<1>2. vault \in Provider /\ health \in Health
  BY DEF CapabilityInv, TypeOK
<1>3. Live' <=> Live
  BY <1>1, <1>2, NoneIsNoSnapshot DEF Live, Provider, Snapshot
<1>4. Live => /\ runtime.key = vault.key /\ runtime'.key = runtime.key
              /\ runtime'.ws \in {runtime.ws, vault.ws}
  BY <1>1 DEF CapabilityInv, HolderSound
<1>5. /\ health'.epoch = health.epoch /\ health'.candidate \in {None, health.candidate}
      /\ health'.success = health.success /\ health'.confirmed = health.confirmed
  BY <1>1, <1>2 DEF Acknowledged, Health
<1>6. ClockSound' /\ EpochSound' /\ LedgerSound' /\ PendingSound'
  BY <1>1, <1>3, <1>4, <1>5, SettingsStay
<1>7. HolderSound'
  BY <1>1 DEF HolderSound
<1>8. ProbeSound'
  BY <1>1, <1>3, <1>4, <1>5 DEF CapabilityInv, ProbeSound, Begun
<1> QED
  BY <1>6, <1>7, <1>8 DEF CapabilityInv

-----------------------------------------------------------------------------
(* The user's probe *)

LEMMA ProbeBeginsSound ==
  ASSUME CapabilityInv, TypeOK', ~StoppedProbes, ProbeBegins
  PROVE  CapabilityInv'
<1>1. /\ UNCHANGED <<vault, runtime, health, epochs, now, attempt, fallback, pending, holder,
                     backed, doubted>>
      /\ Live /\ holder.by = "nobody" /\ ~vault.ws /\ probe'.rev = vault.rev
      /\ probe'.epoch = IF runtime.key = vault.key THEN health.epoch ELSE None
  BY DEF ProbeBegins, Unlocked, Free, history
<1>2. health.epoch = epochs /\ vault.rev \in Nat
  BY Plain DEF CapabilityInv, ClockSound
<1>3. ClockSound' /\ EpochSound' /\ LedgerSound' /\ PendingSound'
  BY <1>1 DEF CapabilityInv, ClockSound, EpochSound, LedgerSound, PendingSound, Begun, Active,
              Stands, Live
<1>4. HolderSound' /\ ProbeSound'
  BY <1>1, <1>2 DEF HolderSound, ProbeSound, Live
<1> QED
  BY <1>3, <1>4 DEF CapabilityInv

\* A probe that succeeds contradicts all evidence about the record it probed:
\* there is none but its epoch's, which it clears.
LEMMA ProbeSucceedsSound ==
  ASSUME CapabilityInv, TypeOK', ProbeSucceeds
  PROVE  CapabilityInv'
<1>1. TypeOK /\ ClockSound /\ EpochSound /\ LedgerSound /\ ProbeSound
  BY DEF CapabilityInv
<1>2. /\ UNCHANGED <<vault, runtime, epochs, attempt, fallback, pending, holder, backed>>
      /\ holder.by = "nobody" /\ probe.pc = "probing"
      /\ doubted' = IF probe.rev = vault.rev THEN doubted \cup Earlier(vault.key, epochs) ELSE doubted
      /\ Success(probe.epoch)
  BY DEF ProbeSucceeds, Unlocked, Free
<1>3. probe'.pc = "verified" /\ probe'.rev = probe.rev
  BY <1>1 DEF ProbeSucceeds, TypeOK
<1>4. Live /\ probe.rev <= vault.rev
  BY <1>1, <1>2 DEF ProbeSound
<1>5. /\ epochs \in Nat /\ now \in Nat /\ health \in Health /\ health.candidate \in Evidence
      /\ health.epoch = epochs /\ backed \subseteq Attempts /\ None \notin Attempts /\ None \notin Nat
      /\ doubted \subseteq Attempts
      /\ \A b \in Attempts : attempt[b].epoch \in Nat /\ attempt[b].started \in Nat
  BY <1>1, Plain DEF ClockSound, TypeOK
<1>6. /\ now' = now + 1 /\ health'.epoch = epochs
      /\ \/ health' = health
         \/ /\ health'.success = now + 1 /\ health'.candidate = None /\ ~health'.confirmed
      /\ probe.epoch = epochs =>
           health'.success = now + 1 /\ health'.candidate = None /\ ~health'.confirmed
      /\ probe.epoch # epochs => health' = health
  BY <1>2, <1>4, <1>5 DEF Success, Health
<1>7. \A b \in Earlier(vault.key, epochs) : b \in Attempts /\ Begun(b) /\ attempt[b].key = vault.key
  BY DEF Earlier, Begun
<1>8. \A b \in Attempts : (Begun(b)' <=> Begun(b)) /\ (Active(b)' <=> Active(b))
  BY <1>2 DEF Begun, Active
<1>9. ClockSound'
  <2>1. \A b \in Attempts : Begun(b) => attempt[b].epoch <= epochs /\ attempt[b].started <= now + 1
    BY <1>1, <1>5 DEF ClockSound
  <2>2. (\A b \in Attempts : attempt[b].evidence # None => Begun(attempt[b].evidence))'
    BY <1>1, <1>2 DEF ClockSound, Begun
  <2>3. \A x \in {fallback', pending', health'.candidate} : x \in Attempts => Begun(x)'
    BY <1>1, <1>2, <1>5, <1>6, <1>8 DEF ClockSound
  <2>4. \A x \in backed' \cup doubted' : Begun(x)'
    BY <1>1, <1>2, <1>5, <1>7, <1>8 DEF ClockSound
  <2> QED
    BY <1>2, <1>6, <1>8, <2>1, <2>2, <2>3, <2>4 DEF ClockSound
<1>10. CASE probe.rev # vault.rev \/ probe.epoch # epochs
  <2>1. \A b \in Attempts : b \in doubted' =>
          b \in doubted \/ (runtime.key # attempt[b].key /\ attempt[b].epoch # epochs)
                        \/ (/\ health.candidate = None /\ ~health.confirmed /\ health' = health
                            /\ attempt[b].epoch # epochs)
    BY <1>1, <1>2, <1>4, <1>6, <1>7, <1>10 DEF ProbeSound, EpochSound
  <2>2. EpochSound'
    BY <1>1, <1>2, <1>4, <1>5, <1>6, <1>8, <2>1 DEF EpochSound, Live, ClockSound
  <2>3. LedgerSound'
    <3>1. CASE health.candidate = None /\ ~health.confirmed /\ health' = health
      BY <3>1 DEF LedgerSound
    <3>2. CASE ~(health.candidate = None /\ ~health.confirmed /\ health' = health)
      <4>1. \A x \in Attempts : Stands(x) => Stands(x)'
        BY <1>2, <1>8, <2>1, <3>2 DEF Stands
      <4> QED
        BY <1>1, <1>2, <1>4, <1>5, <1>6, <4>1 DEF LedgerSound, Live, Evidence
    <3> QED
      BY <3>1, <3>2
  <2> QED
    BY <2>2, <2>3, <1>9, <1>2, <1>3, <1>4 DEF CapabilityInv, PendingSound, HolderSound, ProbeSound, Live
<1>11. CASE probe.epoch = epochs
  <2>1. EpochSound'
    BY <1>1, <1>2, <1>4, <1>5, <1>6, <1>8, <1>11 DEF EpochSound, Live, ClockSound
  <2>2. LedgerSound'
    BY <1>6, <1>11 DEF LedgerSound
  <2> QED
    BY <2>1, <2>2, <1>9, <1>2, <1>3, <1>4 DEF CapabilityInv, PendingSound, HolderSound, ProbeSound, Live
<1> QED
  BY <1>10, <1>11

LEMMA ProbeFailsSound ==
  ASSUME CapabilityInv, TypeOK', ProbeFails
  PROVE  CapabilityInv'
<1>1. /\ UNCHANGED <<vault, runtime, health, epochs, now, attempt, fallback, pending, holder,
                     backed, doubted>>
      /\ probe'.pc = "none"
  BY DEF ProbeFails, Quiet, history
<1>2. ClockSound' /\ EpochSound' /\ LedgerSound' /\ PendingSound'
  BY <1>1 DEF CapabilityInv, ClockSound, EpochSound, LedgerSound, PendingSound, Begun, Active,
              Stands, Live
<1>3. HolderSound' /\ ProbeSound'
  BY <1>1 DEF CapabilityInv, HolderSound, ProbeSound, Begun, Active, Live
<1> QED
  BY <1>2, <1>3 DEF CapabilityInv

LEMMA ProbeCommitsSound ==
  ASSUME CapabilityInv, TypeOK', ProbeCommits
  PROVE  CapabilityInv'
<1>1. /\ UNCHANGED <<now, attempt, fallback, pending, holder, backed, doubted>>
      /\ Unlocked /\ probe' = Quiet
  BY DEF ProbeCommits
<1>2. CASE vault.rev = probe.rev
  <2>1. vault \in Provider /\ [vault EXCEPT !.ws = TRUE, !.rev = @ + 1] \in Provider
    BY ProviderWith DEF CapabilityInv, TypeOK
  <2>2. [vault EXCEPT !.ws = TRUE, !.rev = @ + 1].rev = vault.rev + 1
    BY <2>1 DEF Provider
  <2> QED
    BY <1>1, <1>2, <2>1, <2>2, ReloadSound DEF ProbeCommits
<1>3. CASE vault.rev # probe.rev
  <2>1. UNCHANGED <<vault, runtime, health, epochs>> /\ probe'.pc = "none"
    BY <1>1, <1>3 DEF ProbeCommits, Quiet
  <2>2. ClockSound' /\ EpochSound' /\ LedgerSound' /\ PendingSound'
    BY <1>1, <2>1 DEF CapabilityInv, ClockSound, EpochSound, LedgerSound, PendingSound, Begun,
                      Active, Stands, Live
  <2>3. HolderSound' /\ ProbeSound'
    BY <1>1, <2>1 DEF CapabilityInv, HolderSound, ProbeSound, Begun, Active, Live
  <2> QED
    BY <2>2, <2>3 DEF CapabilityInv
<1> QED
  BY <1>2, <1>3

-----------------------------------------------------------------------------
(* Theorems *)

LEMMA InitSound == Init => CapabilityInv
<1> SUFFICES ASSUME Init PROVE CapabilityInv
  OBVIOUS
<1>1. TypeOK
  BY CapabilityConstants DEF Init, TypeOK, Provider, Snapshot, Fresh, Health, Evidence, Attempt,
                             New, Free, Quiet, Attempts
<1>2. ClockSound /\ EpochSound
  BY CapabilityConstants DEF Init, ClockSound, EpochSound, Begun, Active, New, Fresh, Attempts
<1>3. LedgerSound /\ PendingSound /\ HolderSound /\ ProbeSound
  BY DEF Init, LedgerSound, PendingSound, HolderSound, ProbeSound, Fresh, Free, Quiet
<1> QED
  BY <1>1, <1>2, <1>3 DEF CapabilityInv

LEMMA StepSound ==
  ASSUME CapabilityInv, ~StoppedProbes, Next
  PROVE  CapabilityInv'
<1>1. TypeOK'
  BY StepTypes DEF CapabilityInv
<1>2. ASSUME NEW a \in Attempts,
             Begin(a) \/ Connect(a) \/ RejectTwice(a) \/ Unreachable(a) \/ WsCompletes(a)
               \/ HttpCompletes(a) \/ GiveUp(a)
      PROVE  CapabilityInv'
  BY <1>1, <1>2, BeginSound, ConnectSound, RejectTwiceSound, UnreachableSound, WsCompletesSound,
     HttpCompletesSound, GiveUpSound
<1>3. ASSUME SessionEnds \/ Stop \/ Start \/ Restore \/ Persist
      PROVE  CapabilityInv'
  BY <1>1, <1>3, SessionEndsSound, StopSound, StartSound, RestoreSound, PersistRetrySound,
     CollectSound, WriteSound, PersistReloadSound DEF Persist
<1>4. ASSUME Save \/ Synced \/ ProbeBegins \/ ProbeSucceeds \/ ProbeFails \/ ProbeCommits
      PROVE  CapabilityInv'
  BY <1>1, <1>4, SaveSound, SyncedSound, ProbeBeginsSound, ProbeSucceedsSound, ProbeFailsSound,
     ProbeCommitsSound
<1> QED
  BY <1>2, <1>3, <1>4 DEF Next

LEMMA StutterSound ==
  ASSUME CapabilityInv, UNCHANGED vars
  PROVE  CapabilityInv'
<1>1. TypeOK' /\ ClockSound' /\ EpochSound'
  BY DEF CapabilityInv, vars, counters, history, TypeOK, ClockSound, EpochSound, Begun, Active, Live
<1>2. LedgerSound' /\ PendingSound' /\ HolderSound' /\ ProbeSound'
  BY DEF CapabilityInv, vars, counters, history, LedgerSound, PendingSound, HolderSound,
         ProbeSound, Begun, Active, Stands, Live
<1> QED
  BY <1>1, <1>2 DEF CapabilityInv

\* The invariant holds in every reachable state, unless the proxy may be
\* stopped during the user's probe: then saved evidence outlives its refutation.
THEOREM CapabilityInvariant == ~StoppedProbes => (Spec => []CapabilityInv)
<1> SUFFICES ASSUME ~StoppedProbes PROVE Spec => []CapabilityInv
  OBVIOUS
<1>1. CapabilityInv /\ [Next]_vars => CapabilityInv'
  BY StepSound, StutterSound
<1> QED
  BY <1>1, InitSound, PTL DEF Spec

\* The agent switches WebSockets off only for evidence about the settings in the
\* vault that no success has contradicted since, and only if HTTP worked with
\* them (candidate, with_websocket_capability_event, persist_ws_capabilities).
THEOREM EvidenceStands == ~StoppedProbes => (Spec => Justified)
<1> SUFFICES ASSUME ~StoppedProbes PROVE Spec => Justified
  OBVIOUS
<1> DEFINE Right == holder.by = "write" /\ vault.ws /\ ~vault'.ws =>
                      /\ attempt[holder.event].key = vault.key
                      /\ holder.event \notin doubted
                      /\ \E b \in backed \ doubted : attempt[b].key = vault.key
<1>1. CapabilityInv /\ [Next]_vars => Right
  <2> SUFFICES ASSUME CapabilityInv, Next \/ UNCHANGED vars, holder.by = "write", vault.ws, ~vault'.ws
               PROVE  /\ attempt[holder.event].key = vault.key
                      /\ holder.event \notin doubted
                      /\ \E b \in backed \ doubted : attempt[b].key = vault.key
    OBVIOUS
  <2>1. attempt[holder.event].key = vault.key /\ holder.event # None /\ (Live => runtime.key = vault.key)
    BY DEF CapabilityInv, HolderSound
  <2>2. Standing(holder.event)
    <3>1. ~Unlocked
      BY DEF Unlocked, Free
    <3>2. vault' # vault
      OBVIOUS
    <3>3. Write
      BY <3>1, <3>2 DEF Next, Persist, Begin, Connect, RejectTwice, Unreachable, WsCompletes,
           HttpCompletes, GiveUp, SessionEnds, Stop, Start, Restore, PersistRetry, Collect,
           PersistReload, Save, Synced, ProbeBegins, ProbeSucceeds, ProbeFails, ProbeCommits, vars
    <3> QED
      BY <3>2, <3>3 DEF Write
  <2>3. CASE Live
    <3>1. holder.event = health.candidate /\ health.confirmed
      BY <2>1, <2>2, <2>3 DEF Standing, Event
    <3>2. Stands(holder.event) /\ \E b \in backed : Stands(b)
      BY <2>1, <2>3, <3>1 DEF CapabilityInv, LedgerSound
    <3> QED
      BY <2>1, <2>3, <3>2 DEF Stands
  <2>4. CASE ~Live
    <3>1. pending = holder.event
      BY <2>4 DEF CapabilityInv, HolderSound
    <3> QED
      BY <2>1, <2>4, <3>1 DEF CapabilityInv, PendingSound
  <2> QED
    BY <2>3, <2>4
<1> QED
  BY <1>1, CapabilityInvariant, PTL DEF Spec, Justified
=============================================================================
