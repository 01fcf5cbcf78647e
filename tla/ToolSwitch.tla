----------------------------- MODULE ToolSwitch -----------------------------
(***************************************************************************)
(* Switching a command-line tool between accounts and gateways             *)
(* (crates/aipass-agent/src/tool_switch.rs and tool_switch/), through the  *)
(* encrypted transactions of crates/aipass-config-writers/src/             *)
(* transaction.rs.  A switch moves login grants between the tool's active  *)
(* home and the private home of each account, rewrites the tool's          *)
(* configuration and AIPass's binding, and updates the vault's record of   *)
(* where each account's grant lives; the vault and the files share no      *)
(* atomic write, so a transaction file with both images is saved first.    *)
(*                                                                         *)
(* The tool is Claude Code, whose store has two parts: the grant and the   *)
(* profile that names its account.  All operations hold SWITCH_LOCK, and   *)
(* from Prepare on the account locks and the vault mutex too; the tool     *)
(* itself obeys no lock and writes its files at any time.                  *)
(***************************************************************************)
EXTENDS Naturals, Sequences

CONSTANTS
  Managed,   \* accounts with an entry in the vault; each names its own home
  Original,  \* a login the vault does not know
  Active,    \* the home the tool reads
  Gateway,   \* the choice of an API key or of the local proxy
  Absent,    \* no file at a path
  NoTx,      \* no transaction
  MaxGen,    \* bound: rotations of one account's grant
  MaxEdits,  \* bound: edits of the tool's configuration by its user
  MaxOps,    \* bound: transactions
  Racing,    \* may the tool write between a resource's check and its write?
  RollbackWhilePending  \* may a first switch be rolled back before recovery?

Accounts == Managed \cup {Original}
Homes == Managed \cup {Active}
Ops == 1 .. MaxOps

ASSUME SwitchConstants ==
  /\ Original \notin Managed /\ Active \notin Accounts
  /\ Gateway \notin Accounts /\ Absent \notin Accounts \cup {Gateway}
  /\ MaxGen \in Nat /\ MaxEdits \in Nat /\ MaxOps \in Nat
  /\ {Racing, RollbackWhilePending} \subseteq BOOLEAN

\* Resource: a path or a keychain item, by home and part.
Grant(h) == <<h, "grant">>
Profile(h) == <<h, "profile">>
Config == <<Active, "config">>
Binding == <<Active, "binding">>
Resources == {Grant(h) : h \in Homes} \cup {Profile(h) : h \in Homes} \cup {Config, Binding}

\* A grant is an account's and of a generation; a profile names an account
\* among settings of the tool, which rewrites them at every sign-in.
Grants == [acct : Accounts, gen : Nat]
Profiles == [acct : Accounts, rev : Nat]

\* Of the configuration counts what AIPass plans and what the user wrote.
Configs == [mode : {"none", "official", "gateway"}, user : Nat]

\* A binding: the switch that made it, what it selected, and what it
\* fingerprints, for a gateway the active store as well.
Bindings ==
  [op : Ops, who : Managed \cup {Gateway}, config : Configs,
   native : {Absent} \cup ((Grants \cup {Absent}) \X (Profiles \cup {Absent}))]

Contents == Grants \cup Profiles \cup Configs \cup Bindings \cup {Absent}

\* Change, RefUpdate and Transaction.
Image == [before : Contents, after : Contents]
RefUpdate == [id : Managed, before : Homes, after : Homes]
Transaction ==
  [op : Ops, committed : BOOLEAN,
   changes : UNION {[R -> Image] : R \in SUBSET Resources}, refs : Seq(RefUpdate)]

ASSUME NothingIsSomething ==
  /\ Absent \notin Grants \cup Profiles \cup Configs \cup Bindings
  /\ NoTx \notin Transaction

VARIABLES
  store,     \* what is at each resource
  refs,      \* the vault's reference of each account: the home of its grant
  txs,       \* the .aiptransaction files
  unlocked,  \* is the vault unlocked?
  owed,      \* complete_unlock has not called recover yet
  stage,     \* what the holder of SWITCH_LOCK is doing
  goal,      \* the account or Gateway it switches to
  stamp,     \* the fingerprint taken before the renewal
  tx,        \* the transaction it works on
  todo,      \* resources it has still to write, or to restore
  step,      \* reference updates it has done
  tries,     \* attempts at restore that are left
  keeps,     \* does the transaction file stay after the restore?
  latest,    \* the vendor: the generation of each account's valid grant
  forfeited, \* history: accounts whose grant the user gave up, or whose
             \* verification rotated it and left the result in memory
  disturbed  \* history: pending transactions a foreign write has touched

disk == <<store, refs, txs>>
world == <<latest, forfeited>>
oper == <<stage, goal, stamp, tx, todo, step, tries, keeps>>
vars == <<store, refs, txs, unlocked, owed, stage, goal, stamp, tx, todo,
          step, tries, keeps, latest, forfeited, disturbed>>

-----------------------------------------------------------------------------
(* Transactions *)

\* Mutant: the incoming account first, then the archive of the outgoing one.
Rank_IncomingFirst(r) ==
  CASE r[1] # Active /\ r[2] = "grant"   -> 3
    [] r[1] # Active /\ r[2] = "profile" -> 4
    [] r = Grant(Active)   -> 1
    [] r = Profile(Active) -> 2
    [] r = Config  -> 5
    [] r = Binding -> 6

\* The order of a transaction's changes: the outgoing account's home, the
\* active home, the configuration, the binding.
Rank(r) ==
  CASE r[1] # Active /\ r[2] = "grant"   -> 1
    [] r[1] # Active /\ r[2] = "profile" -> 2
    [] r = Grant(Active)   -> 3
    [] r = Profile(Active) -> 4
    [] r = Config  -> 5
    [] r = Binding -> 6

FirstOf(S) == CHOOSE r \in S : \A q \in S : Rank(r) <= Rank(q)
LastOf(S) == CHOOSE r \in S : \A q \in S : Rank(q) <= Rank(r)

\* Change::new on every resource of post: the preimage is what is there now.
Changes(post) == [r \in DOMAIN post |-> [before |-> store[r], after |-> post[r]]]

Covers(t) == DOMAIN t.changes
Writes(t) == {r \in Covers(t) : t.changes[r].before # t.changes[r].after}

\* Mutant: restore overwrites whatever it finds.
Known_Anything(t, r) == TRUE

\* restore_with accepts what it finds at r.
Known(t, r) == store[r] \in {t.changes[r].before, t.changes[r].after}
Restorable(t) == \A r \in Covers(t) : Known(t, r)

Committed(t) == [t EXCEPT !.committed = TRUE]

\* transaction::pending
Pending == {op \in Ops : txs[op] # NoTx /\ ~txs[op].committed}

-----------------------------------------------------------------------------
(* Stores *)

\* The grant of an account that the vendor accepts.
Live(a) == [acct |-> a, gen |-> latest[a]]
Valid(g) == g = Live(g.acct)

\* NativeStore::identity: the account a home is signed in to, by its profile.
Identity(h) ==
  IF Absent \in {store[Grant(h)], store[Profile(h)]} THEN Absent ELSE store[Profile(h)].acct

Bound == store[Binding] # Absent
Who == store[Binding].who

\* The resources a gateway binding fingerprints besides the configuration.
Native == <<store[Grant(Active)], store[Profile(Active)]>>

\* fingerprint of the binding's config_resources against the one it recorded.
Intact ==
  /\ store[Config] = store[Binding].config
  /\ Who = Gateway => store[Binding].native = Native

\* status_snapshot's "conflict".
Conflict ==
  Bound /\ \/ ~Intact
           \/ Who # Gateway /\ Identity(Active) \notin {Who, Absent}

\* A plan changes the mode and keeps what the user wrote.
Plan(mode) == [store[Config] EXCEPT !.mode = mode]

-----------------------------------------------------------------------------
(* States *)

Idle == stage = "idle"

NoWork ==
  /\ stage = "idle" /\ goal = Absent /\ stamp = Absent /\ tx = NoTx
  /\ todo = {} /\ step = 0 /\ tries = 0 /\ keeps = FALSE

Return ==
  /\ stage' = "idle" /\ goal' = Absent /\ stamp' = Absent /\ tx' = NoTx
  /\ todo' = {} /\ step' = 0 /\ tries' = 0 /\ keeps' = FALSE

Quiet == UNCHANGED <<unlocked, owed, latest, forfeited, disturbed>>

\* A computer on which every managed account but perhaps one has its own
\* home, and the tool is signed in to that one, to a login of its own, or out.
Init ==
  \E who \in Accounts \cup {Absent} :
    /\ store = [r \in Resources |->
         IF r = Config THEN [mode |-> "none", user |-> 0]
         ELSE IF r = Binding THEN Absent
         ELSE LET a == IF r[1] = Active THEN who ELSE r[1] IN
              IF a = Absent \/ r[1] = who THEN Absent
              ELSE IF r[2] = "grant" THEN [acct |-> a, gen |-> 0]
              ELSE [acct |-> a, rev |-> 0]]
    /\ refs = [a \in Managed |-> IF a = who THEN Active ELSE a]
    /\ latest = [a \in Accounts |-> 0]
    /\ forfeited = IF who = Original THEN {} ELSE {Original}
    /\ txs = [op \in Ops |-> NoTx]
    /\ unlocked = FALSE /\ owed = FALSE
    /\ disturbed = {}
    /\ NoWork

-----------------------------------------------------------------------------
(* The world outside *)

\* The tool's files may be written now.
Exposed == stage \in {"put", "unput"} => Racing

\* Someone else wrote the resources in R.
Disturb(R) ==
  disturbed' = disturbed \cup {op \in Pending : R \cap Covers(txs[op]) # {}}
                 \cup (IF stage = "save" /\ R \cap Covers(tx) # {} THEN {tx.op} ELSE {})

Rotated(h) ==
  LET a == store[Grant(h)].acct IN
  /\ Valid(store[Grant(h)]) /\ latest[a] < MaxGen
  /\ latest' = [latest EXCEPT ![a] = @ + 1]
  /\ store' = [store EXCEPT ![Grant(h)] = [acct |-> a, gen |-> latest[a] + 1]]

\* The tool refreshes its grant, which ends the one before.  A tool that was
\* pointed at a gateway does not use its login.
CliRotates ==
  /\ Exposed
  /\ store[Grant(Active)] # Absent /\ store[Config].mode # "gateway"
  /\ Rotated(Active)
  /\ Disturb({Grant(Active)})
  /\ UNCHANGED <<refs, txs, unlocked, owed, oper, forfeited>>

\* The user signs in to an account of their own in the tool, over what was
\* there; unless another home holds it, they gave that grant up.  A copy that
\* a switch has not committed yet may still be taken back.
CliLogin ==
  /\ Exposed
  /\ latest[Original] < MaxGen
  /\ LET old == store[Grant(Active)] IN
     /\ forfeited' = (forfeited \cup
          {a \in Managed : /\ old = Live(a)
                           /\ \A h \in Managed : store[Grant(h)] = Live(a) =>
                                \E op \in Pending : Grant(h) \in Covers(txs[op])})
          \ {Original}
     /\ latest' = [latest EXCEPT ![Original] = @ + 1]
     /\ store' = [store EXCEPT
          ![Grant(Active)] = [acct |-> Original, gen |-> latest[Original] + 1],
          ![Profile(Active)] = [acct |-> Original, rev |-> latest[Original] + 1]]
  /\ Disturb({Grant(Active), Profile(Active)})
  /\ UNCHANGED <<refs, txs, unlocked, owed, oper>>

\* The user edits the tool's configuration.
UserEdits ==
  /\ Exposed
  /\ store[Config].user < MaxEdits
  /\ store' = [store EXCEPT ![Config].user = @ + 1]
  /\ Disturb({Config})
  /\ UNCHANGED <<refs, txs, unlocked, owed, oper, world>>

\* The proxy or a quota probe renews an account at its referenced home, under
\* the account's lock: never while a switch or a recovery holds them all.
ProxyRenews ==
  /\ unlocked /\ stage \in {"idle", "renew", "prepare"}
  /\ \E a \in Managed :
       /\ Identity(refs[a]) = a
       /\ Rotated(refs[a])
       /\ Disturb({Grant(refs[a])})
  /\ UNCHANGED <<refs, txs, unlocked, owed, oper, forfeited>>

-----------------------------------------------------------------------------
(* apply_locked_guarded *)

\* preview_resources less the grant of an official target, which the renewal
\* may rotate.
Stamp(g) ==
  LET R == {Grant(Active), Profile(Active), Config, Binding}
             \cup (IF g = Gateway THEN {} ELSE {Profile(refs[g])})
  IN [r \in R \ (IF g = Gateway THEN {} ELSE {Grant(refs[g])}) |-> store[r]]

\* Mutant: pending recovery does not block a switch.
BeginSwitch_OverPending ==
  /\ Idle /\ unlocked /\ ~Conflict
  /\ \E g \in Managed \cup {Gateway} :
       /\ goal' = g
       /\ stamp' = Stamp(g)
       /\ stage' = IF g = Gateway THEN "prepare" ELSE "renew"
  /\ UNCHANGED <<disk, tx, todo, step, tries, keeps>> /\ Quiet

\* The displayed state is no conflict, nothing waits for recovery, and the
\* fingerprint is taken; an account is then renewed outside the vault mutex.
BeginSwitch ==
  /\ Idle /\ unlocked /\ ~Conflict /\ Pending = {}
  /\ \E g \in Managed \cup {Gateway} :
       /\ goal' = g
       /\ stamp' = Stamp(g)
       /\ stage' = IF g = Gateway THEN "prepare" ELSE "renew"
  /\ UNCHANGED <<disk, tx, todo, step, tries, keeps>> /\ Quiet

\* renew: the official tool checks the account in its home and may rotate it.
Renew ==
  /\ stage = "renew" /\ unlocked
  /\ Identity(refs[goal]) = goal /\ Valid(store[Grant(refs[goal])])
  /\ stage' = "prepare"
  /\ \/ UNCHANGED <<store, latest, disturbed>>
     \/ Rotated(refs[goal]) /\ Disturb({Grant(refs[goal])})
  /\ UNCHANGED <<refs, txs, goal, stamp, tx, todo, step, tries, keeps,
                 unlocked, owed, forfeited>>

\* Any early return: a failed renewal, a busy account lock, a locked vault, a
\* changed fingerprint, a refused preparation, a failed first save.
Refuse ==
  /\ stage \in {"renew", "prepare", "restore", "save"}
  /\ Return
  /\ UNCHANGED disk /\ Quiet

-----------------------------------------------------------------------------
(* apply_prepared *)

Outgoing(g) == {a \in Managed : a # g /\ refs[a] = Active}

\* Mutant: an account that was archived before is not archived again.
Copied_Once(from, r) ==
  IF store[r] # Absent /\ r[1] # Active THEN store[r]
  ELSE IF r[2] = "grant" \/ store[r] = Absent THEN store[<<from, r[2]>>]
  ELSE [store[r] EXCEPT !.acct = store[Profile(from)].acct]

\* copy_store: the grant as it is, and the account of the profile in the
\* settings that are there.
Copied(from, r) ==
  IF r[2] = "grant" \/ store[r] = Absent THEN store[<<from, r[2]>>]
  ELSE [store[r] EXCEPT !.acct = store[Profile(from)].acct]

\* archive_outgoing: what the outgoing accounts' homes will hold.
Archived(g) ==
  [r \in {Grant(a) : a \in Outgoing(g)} \cup {Profile(a) : a \in Outgoing(g)} |->
     Copied(Active, r)]

\* What the active home will hold: the account's own store, or, for a gateway,
\* what it held (Change::unchanged).
Incoming(g) ==
  LET h == IF g = Gateway THEN Active ELSE refs[g] IN
  [r \in {Grant(Active), Profile(Active)} |-> Copied(h, r)]

Merge(f, g) == [r \in DOMAIN f \cup DOMAIN g |-> IF r \in DOMAIN g THEN g[r] ELSE f[r]]

\* The reference updates that go with Archived.
MoveOut(g) ==
  IF Outgoing(g) = {} THEN <<>>
  ELSE LET a == CHOOSE a \in Outgoing(g) : TRUE
       IN <<[id |-> a, before |-> refs[a], after |-> a]>>

MoveIn(g) ==
  IF g = Gateway THEN <<>> ELSE <<[id |-> g, before |-> refs[g], after |-> Active]>>

\* The outgoing account is the one the active store is signed in to.
MayArchive(g) == \A a \in Outgoing(g) : Identity(Active) = a

\* Transactions have unique names.
FreeOp == CHOOSE op \in Ops : txs[op] = NoTx
HasFreeOp == \E op \in Ops : txs[op] = NoTx

Start(post, updates) ==
  /\ tx' = [op |-> FreeOp, committed |-> FALSE,
            changes |-> Changes(post), refs |-> updates]
  /\ stage' = "save"
  /\ disturbed' = disturbed \ {FreeOp}

\* Nothing stamped has changed; the transaction is put together in memory.
Prepare ==
  /\ stage = "prepare" /\ unlocked /\ HasFreeOp
  /\ \A r \in DOMAIN stamp : store[r] = stamp[r]
  /\ MayArchive(goal)
  /\ goal # Gateway => Identity(refs[goal]) = goal
  /\ LET config  == Plan(IF goal = Gateway THEN "gateway" ELSE "official")
         native  == Incoming(goal)
         binding == [op |-> FreeOp, who |-> goal, config |-> config,
                     native |-> IF goal = Gateway
                                THEN <<native[Grant(Active)], native[Profile(Active)]>>
                                ELSE Absent]
     IN Start(Merge(Merge(Archived(goal), native),
                    [r \in {Config, Binding} |-> IF r = Config THEN config ELSE binding]),
              MoveOut(goal) \o MoveIn(goal))
  /\ UNCHANGED <<disk, goal, stamp, todo, step, tries, keeps, unlocked, owed, world>>

\* apply_proxy_locked: a gateway switch that compares no fingerprint.
BeginProxy ==
  /\ Idle /\ unlocked /\ ~Conflict /\ Pending = {}
  /\ goal' = Gateway /\ stamp' = <<>> /\ stage' = "prepare"
  /\ UNCHANGED <<disk, tx, todo, step, tries, keeps>> /\ Quiet

-----------------------------------------------------------------------------
(* rollback of a first switch.  Any other rollback is BeginSwitch to what    *)
(* was selected before, with the same checks.                                *)

NativeParts == {Grant(Active), Profile(Active)}

\* The historical login is to be activated again, and so has to be verified.
Activates(t) ==
  /\ \E r \in NativeParts : t.changes[r].before # t.changes[r].after
  /\ t.changes[Grant(Active)].before # Absent

\* The switch that set the current binding found none before and archived no
\* account.  historical::validate runs the official tool on the old grant in
\* a private home, from which only memory keeps the result.
BeginRollback ==
  /\ Idle /\ unlocked /\ (RollbackWhilePending \/ Pending = {})
  /\ Bound
  /\ LET t   == txs[store[Binding].op]
         old == t.changes[Grant(Active)].before
     IN /\ t # NoTx /\ t.committed
        /\ t.changes[Binding].before = Absent
        /\ \A i \in DOMAIN t.refs : t.refs[i].before = Active => t.refs[i].after = Active
        /\ tx' = t
        /\ \/ /\ ~Activates(t)
              /\ stamp' = Absent /\ UNCHANGED world
           \/ /\ Activates(t) /\ Valid(old)
              /\ stamp' = old /\ UNCHANGED world
           \/ /\ Activates(t) /\ Valid(old) /\ latest[old.acct] < MaxGen
              /\ stamp' = [old EXCEPT !.gen = @ + 1]
              /\ latest' = [latest EXCEPT ![old.acct] = @ + 1]
              /\ forfeited' = forfeited \cup {old.acct}
  /\ stage' = "restore" /\ goal' = Gateway
  /\ UNCHANGED <<disk, todo, step, tries, keeps, unlocked, owed, disturbed>>

\* The reference the first switch moved within the active home goes back there;
\* having archived no account, it moved no other one.
MoveBack(t) ==
  LET moved == {t.refs[i].id : i \in {i \in DOMAIN t.refs : t.refs[i].before = Active}}
  IN IF moved = {} THEN <<>>
     ELSE LET a == CHOOSE a \in moved : TRUE
          IN <<[id |-> a, before |-> refs[a], after |-> Active]>>

PrepareRollback ==
  /\ stage = "restore" /\ HasFreeOp
  /\ MayArchive(Gateway) /\ Intact
  /\ Who # Gateway => Identity(Active) = Who
  /\ Start(Merge(Archived(Gateway),
                 [r \in NativeParts \cup {Config, Binding} |->
                    IF r = Grant(Active) /\ stamp # Absent THEN stamp
                    ELSE tx.changes[r].before]),
           MoveOut(Gateway) \o MoveBack(tx))
  /\ keeps' = TRUE
  /\ UNCHANGED <<disk, goal, stamp, todo, step, tries, unlocked, owed, world>>

-----------------------------------------------------------------------------
(* Transaction::apply, set_references and the committing save *)

Save ==
  /\ stage = "save"
  /\ txs' = [txs EXCEPT ![tx.op] = tx]
  /\ stage' = "check"
  /\ UNCHANGED <<store, refs, goal, stamp, tx, todo, step, tries, keeps>> /\ Quiet

\* The error path: n attempts at restore, and whether the file stays.
Undo(n, keep) ==
  /\ stage' = "undo" /\ tries' = n /\ keeps' = keep
  /\ todo' = {} /\ step' = 0
  /\ UNCHANGED <<goal, stamp, tx>>

\* apply_with validates the entire preimage before changing any resource.
Check ==
  /\ stage = "check"
  /\ IF \A r \in Covers(tx) : store[r] = tx.changes[r].before
     THEN /\ stage' = "write" /\ todo' = Writes(tx)
          /\ UNCHANGED <<goal, stamp, tx, step, tries, keeps>>
     ELSE Undo(1, keeps)
  /\ UNCHANGED disk /\ Quiet

\* It checks each resource again right before its write.
Recheck ==
  /\ stage = "write" /\ todo # {}
  /\ LET r == FirstOf(todo) IN
     IF store[r] = tx.changes[r].before
     THEN /\ stage' = "put"
          /\ UNCHANGED <<goal, stamp, tx, todo, step, tries, keeps>>
     ELSE Undo(1, keeps)
  /\ UNCHANGED disk /\ Quiet

Put ==
  /\ stage = "put"
  /\ LET r == FirstOf(todo) IN
     /\ store' = [store EXCEPT ![r] = tx.changes[r].after]
     /\ todo' = todo \ {r}
  /\ stage' = "write"
  /\ UNCHANGED <<refs, txs, goal, stamp, tx, step, tries, keeps>> /\ Quiet

\* A write returns an error, before or after the rename: apply_with restores,
\* and so does its caller.
PutFails ==
  /\ stage = "put"
  /\ LET r == FirstOf(todo) IN
     store' \in {store, [store EXCEPT ![r] = tx.changes[r].after]}
  /\ Undo(2, keeps)
  /\ UNCHANGED <<refs, txs>> /\ Quiet

\* The update may be made in either direction from where the account is now.
Applicable(u) == refs[u.id] \in {u.before, u.after}

\* set_references: one vault write for each account.
SetReference ==
  /\ stage = "write" /\ todo = {} /\ step < Len(tx.refs)
  /\ LET u == tx.refs[step + 1] IN
     /\ Applicable(u)
     /\ refs' = [refs EXCEPT ![u.id] = u.after]
  /\ step' = step + 1
  /\ UNCHANGED <<store, txs, stage, goal, stamp, tx, todo, tries, keeps>> /\ Quiet

\* The account's reference has changed, or the vault could not write it.
SetReferenceFails ==
  /\ stage = "write" /\ todo = {} /\ step < Len(tx.refs)
  /\ Undo(1, keeps)
  /\ UNCHANGED disk /\ Quiet

\* Mutant: the switch commits before the references are written.
Commit_BeforeReferences ==
  /\ stage = "write" /\ todo = {}
  /\ txs' = [txs EXCEPT ![tx.op] = Committed(tx)]
  /\ disturbed' = disturbed \ {tx.op}
  /\ forfeited' = IF keeps THEN forfeited \ {a \in Accounts : stamp = Live(a)} ELSE forfeited
  /\ Return
  /\ UNCHANGED <<store, refs, unlocked, owed, latest>>

\* The save that commits; refresh_cache cannot undo it.  A verified grant is
\* in a home again.
Commit ==
  /\ stage = "write" /\ todo = {} /\ step = Len(tx.refs)
  /\ txs' = [txs EXCEPT ![tx.op] = Committed(tx)]
  /\ disturbed' = disturbed \ {tx.op}
  /\ forfeited' = IF keeps THEN forfeited \ {a \in Accounts : stamp = Live(a)} ELSE forfeited
  /\ Return
  /\ UNCHANGED <<store, refs, unlocked, owed, latest>>

CommitFails ==
  /\ stage = "write" /\ todo = {} /\ step = Len(tx.refs)
  /\ Undo(1, TRUE)
  /\ UNCHANGED disk /\ Quiet

-----------------------------------------------------------------------------
(* Transaction::restore and what follows it *)

\* One attempt at restore is over: the inner one of apply_with, or the last,
\* which leaves the transaction file for recovery.
AttemptFails ==
  IF tries = 2 THEN Undo(1, keeps) ELSE Return

\* restore_with finds nothing but the two images, or gives up.
CheckImages ==
  /\ stage = "undo"
  /\ IF Restorable(tx)
     THEN /\ stage' = "unwrite" /\ todo' = Writes(tx)
          /\ UNCHANGED <<goal, stamp, tx, step, tries, keeps>>
     ELSE AttemptFails
  /\ UNCHANGED disk /\ Quiet

RecheckImage ==
  /\ stage = "unwrite" /\ todo # {}
  /\ LET r == LastOf(todo) IN
     IF ~Known(tx, r) THEN AttemptFails
     ELSE /\ IF store[r] = tx.changes[r].before
             THEN todo' = todo \ {r} /\ UNCHANGED stage
             ELSE stage' = "unput" /\ UNCHANGED todo
          /\ UNCHANGED <<goal, stamp, tx, step, tries, keeps>>
  /\ UNCHANGED disk /\ Quiet

Unput ==
  /\ stage = "unput"
  /\ LET r == LastOf(todo) IN
     /\ store' = [store EXCEPT ![r] = tx.changes[r].before]
     /\ \/ /\ todo' = todo \ {r} /\ stage' = "unwrite"
           /\ UNCHANGED <<goal, stamp, tx, step, tries, keeps>>
        \/ AttemptFails
  /\ UNCHANGED <<refs, txs>> /\ Quiet

UnputFails ==
  /\ stage = "unput"
  /\ AttemptFails
  /\ UNCHANGED disk /\ Quiet

Restored ==
  /\ stage = "unwrite" /\ todo = {}
  /\ IF tries = 2 THEN Undo(1, keeps)
     ELSE /\ stage' = "unrefs" /\ step' = 0
          /\ UNCHANGED <<goal, stamp, tx, todo, tries, keeps>>
  /\ UNCHANGED disk /\ Quiet

\* set_references backwards, in the order of the list.
ResetReference ==
  /\ stage = "unrefs" /\ step < Len(tx.refs)
  /\ LET u == tx.refs[step + 1] IN
     \/ /\ Applicable(u)
        /\ refs' = [refs EXCEPT ![u.id] = u.before]
        /\ step' = step + 1
        /\ UNCHANGED <<stage, goal, stamp, tx, todo, tries, keeps>>
     \/ UNCHANGED refs /\ Return
  /\ UNCHANGED <<store, txs>> /\ Quiet

\* The transaction is void.  recover goes on to the next one it finds.
Forget ==
  /\ stage = "unrefs" /\ step = Len(tx.refs)
  /\ IF keeps THEN UNCHANGED <<txs, disturbed>>
     ELSE /\ txs' = [txs EXCEPT ![tx.op] = NoTx]
          /\ disturbed' = disturbed \ {tx.op}
  /\ owed' = (owed \/ goal = Absent)
  /\ Return
  /\ UNCHANGED <<store, refs, unlocked, world>>

ForgetFails ==
  /\ stage = "unrefs" /\ step = Len(tx.refs)
  /\ Return
  /\ UNCHANGED disk /\ Quiet

-----------------------------------------------------------------------------
(* The session *)

Unlock ==
  /\ ~unlocked /\ Idle
  /\ unlocked' = TRUE /\ owed' = TRUE
  /\ UNCHANGED <<disk, oper, world, disturbed>>

\* recover, called by complete_unlock: it undoes every pending transaction,
\* unless an account lock is taken, which only a log line reports.
Recover ==
  /\ owed /\ Idle /\ unlocked
  /\ owed' = FALSE
  /\ \/ UNCHANGED oper
     \/ \E op \in Pending :
          /\ tx' = txs[op] /\ stage' = "undo" /\ tries' = 1
          /\ UNCHANGED <<goal, stamp, todo, step, keeps>>
  /\ UNCHANGED <<disk, unlocked, world, disturbed>>

\* lock_session needs the vault mutex.
Lock ==
  /\ unlocked /\ stage \in {"idle", "renew", "prepare"}
  /\ unlocked' = FALSE /\ owed' = FALSE
  /\ UNCHANGED <<disk, oper, world, disturbed>>

\* The agent's process dies.
Crash ==
  /\ stage # "idle"
  /\ unlocked' = FALSE /\ owed' = FALSE
  /\ Return
  /\ UNCHANGED <<disk, world, disturbed>>

Outside == CliRotates \/ CliLogin \/ UserEdits \/ ProxyRenews

Apply ==
  \/ BeginSwitch \/ BeginProxy \/ Renew \/ Refuse \/ Prepare
  \/ BeginRollback \/ PrepareRollback
  \/ Save \/ Check \/ Recheck \/ Put \/ PutFails
  \/ SetReference \/ SetReferenceFails \/ Commit \/ CommitFails

Restore ==
  \/ CheckImages \/ RecheckImage \/ Unput \/ UnputFails \/ Restored
  \/ ResetReference \/ Forget \/ ForgetFails

Next == Outside \/ Apply \/ Restore \/ Unlock \/ Recover \/ Lock \/ Crash

Spec == Init /\ [][Next]_vars

-----------------------------------------------------------------------------
(* Properties *)

\* What may be at a resource.
Content(r) ==
  CASE r[2] = "grant"   -> Grants \cup {Absent}
    [] r[2] = "profile" -> Profiles \cup {Absent}
    [] r[2] = "config"  -> Configs
    [] r[2] = "binding" -> Bindings \cup {Absent}

\* Every image is of its resource's kind.
Typed(t) ==
  /\ t \in Transaction
  /\ \A r \in Covers(t) : {t.changes[r].before, t.changes[r].after} \subseteq Content(r)

TypeOK ==
  /\ store \in [Resources -> Contents] /\ \A r \in Resources : store[r] \in Content(r)
  /\ refs \in [Managed -> Homes]
  /\ \A op \in Ops : txs[op] # NoTx => Typed(txs[op])
  /\ txs \in [Ops -> Transaction \cup {NoTx}]
  /\ tx # NoTx => Typed(tx)
  /\ latest \in [Accounts -> Nat] /\ forfeited \subseteq Accounts
  /\ goal \in Managed \cup {Gateway, Absent}
  /\ stage = "restore" => stamp \in Grants \cup {Absent}
  /\ todo \subseteq Resources /\ step \in Nat /\ tries \in 0 .. 2
  /\ unlocked \in BOOLEAN /\ owed \in BOOLEAN /\ keeps \in BOOLEAN
  /\ disturbed \subseteq Ops

\* The grants in the images of a transaction file.
Backed(g) ==
  \E op \in Ops : /\ txs[op] # NoTx
                  /\ \E r \in Covers(txs[op]) : r[2] = "grant" /\
                       g \in {txs[op].changes[r].before, txs[op].changes[r].after}

\* A rotated grant is the only one the vendor accepts, so the last copy of it
\* must survive every write, crash and recovery: a managed account's in one of
\* the homes, an unmanaged login's there or in an encrypted transaction
\* (archive_outgoing, copy_store, apply_with, restore_with).
NoGrantLost ==
  \A a \in Accounts \ forfeited :
    \/ \E h \in Homes : store[Grant(h)] = Live(a)
    \/ a = Original /\ Backed(Live(a))

\* With no operation under way, none to recover and no displayed conflict,
\* every account's reference leads to a home that is signed in to it with the
\* valid grant, and the account the binding selects is the one at the active
\* home: the proxy and the tool use the same, newest grant.
AccountsAtHome ==
  Idle /\ Pending = {} /\ ~Conflict =>
    /\ \A a \in Managed \ forfeited :
         store[Grant(refs[a])] = Live(a) /\ Identity(refs[a]) = a
    /\ Bound /\ Who \in Managed => refs[Who] = Active

\* A transaction that nobody else interfered with can be restored whatever
\* point it was left at: only a foreign write stops recovery.
RecoveryNeverRefused ==
  \A op \in Pending \ disturbed : Restorable(txs[op])

\* The user's own edits of the configuration are never undone, by a switch, a
\* rollback of bytes saved long before, or a recovery.
UserEditsKept == [][store'[Config].user >= store[Config].user]_vars

\* What the binding and the references say once a pending transaction has
\* been undone.
Chosen ==
  LET b == IF Pending = {} THEN store[Binding]
           ELSE txs[CHOOSE op \in Pending : TRUE].changes[Binding].before
  IN IF b = Absent THEN Absent ELSE b.who

Home ==
  IF Pending = {} THEN refs
  ELSE LET us == txs[CHOOSE op \in Pending : TRUE].refs IN
       [a \in Managed |->
          IF \E i \in DOMAIN us : us[i].id = a
          THEN us[CHOOSE i \in DOMAIN us : us[i].id = a].before
          ELSE refs[a]]

Atomic == INSTANCE AtomicSwitch WITH chosen <- Chosen, home <- Home, None <- Absent

\* The binding file and the accounts' references in the vault, which no common
\* write covers, change together: a crash, a failed write or a recovery that
\* is refused halfway never leaves one without the other in the end
\* (apply_prepared, rollback, recover).
IsAtomicSwitch == Atomic!Spec

\* A reference update is applied or taken back from one of its two images;
\* "the first switch must also be reversible" (tool_switch/restore.rs:122).
UpdatesApplicable ==
  stage = "write" /\ todo = {} /\ step < Len(tx.refs) => Applicable(tx.refs[step + 1])
=============================================================================
