---------------------------- MODULE ConfigManager ----------------------------
(***************************************************************************)
(* The configuration of the running server and its undo history            *)
(* (fuzzbin/common/config_manager.py).                                     *)
(*                                                                         *)
(* What matters here is which Config OBJECT is whose: updates change an    *)
(* object in place, a snapshot is a copy, undo and redo make a snapshot's  *)
(* own object the live one, and the rest of the program keeps the object   *)
(* fuzzbin.configure() loaded.  `store` holds the objects, the other       *)
(* variables refer to them by number.                                      *)
(*                                                                         *)
(* Each operation runs without suspension up to the scheduling of the      *)
(* save, which is a task nobody awaits.  No client is ever registered for  *)
(* hot reload, so that an update of apis.* is an update like any other.    *)
(***************************************************************************)
EXTENDS Naturals, Sequences, FiniteSets, Functions

CONSTANTS
  Fields,        \* paths of the configuration
  Values,        \* what a request may put there
  Coerce,        \* [Values -> Values], what validation makes of a value
  Invalid,       \* the values validation refuses
  Default,       \* the value of a field that config.yaml does not mention
  MaxFailures,   \* bound on the batches that fail in one process
  MaxSnapshots,  \* max_snapshots of the history
  MaxObjects     \* bound on the Config objects one process creates

ASSUME ConfigAssumption ==
  /\ Invalid \subseteq Values
  /\ Default \in Values \ Invalid
  /\ Coerce \in [Values -> Values]
  /\ \A x \in Values : Coerce[Coerce[x]] = Coerce[x]
  /\ Coerce[Default] = Default
  /\ MaxFailures \in Nat
  /\ MaxSnapshots \in Nat \ {0}
  /\ MaxObjects \in Nat \ {0}

Configs == [Fields -> Values]

VARIABLES
  store,   \* the Config objects of this process
  live,    \* ConfigManager._config
  app,     \* fuzzbin._config, what get_config() gives everyone else
  snaps,   \* history.snapshots
  index,   \* history.current_index + 1
  saving,  \* _save_task: none or done, pending, ended by a ConfigSaveError
  yaml,    \* what config.yaml says of each field, the default if nothing
  taken,   \* history: what each snapshot was when it was taken
  used,    \* history: the objects that undo() and redo() made the live one
  failed   \* history: how the batches that failed in this process did

configVars ==
  <<store, live, app, snaps, index, saving, yaml, taken, used, failed>>

Config == store[live]

\* model_validate() of a dump: a new object with proper values, or an error.
Valid(cfg) == \A f \in Fields : cfg[f] \notin Invalid
Coerced(cfg) == [f \in Fields |-> Coerce[cfg[f]]]

\* save_snapshot() first drops what was undone.
Kept(s) == SubSeq(s, 1, index)

\* A deque of bounded length drops its oldest element.
Push(s, x) ==
  LET longer == Append(s, x)
  IN IF Len(longer) > MaxSnapshots THEN Tail(longer) ELSE longer

\* Mutant: the snapshot is the live object itself and not a copy of it.
Itself(cfg) == live

\* ConfigSnapshot.__post_init__(): a copy of its own.
SnapshotOf(cfg) == Len(store) + 1

\* Mutant: the change is not scheduled to be saved.
ForgetSave == UNCHANGED saving

ScheduleSave == saving' = "pending"

\* The common end of update() and update_many(): cfg is now the value of the
\* live object, and a validated copy of it goes into the history.
Change(cfg) ==
  /\ store' = Append([store EXCEPT ![live] = cfg], Coerced(cfg))
  /\ snaps' = Push(Kept(snaps), SnapshotOf(cfg))
  /\ taken' = Push(Kept(taken), Coerced(cfg))
  /\ index' = Len(snaps')
  /\ ScheduleSave
  /\ UNCHANGED <<live, app, yaml, used, failed>>

\* update(): a refused value is put back at once.
Update(f, v) ==
  LET new == [Config EXCEPT ![f] = v]
  IN /\ Len(store) < MaxObjects
     /\ Config[f] # v
     /\ Valid(new)
     /\ Change(new)

Applied(u) == [f \in Fields |-> IF f \in DOMAIN u THEN u[f] ELSE Config[f]]

UpdateMany(u) ==
  /\ Len(store) < MaxObjects
  /\ Cardinality(DOMAIN u) > 1
  /\ Valid(Applied(u))
  /\ Change(Applied(u))

\* update_many() with a refused value: the manager goes on with a copy of
\* what was there before.  The object itself keeps the refused values.
RefuseMany(u) ==
  /\ Len(failed) < MaxFailures
  /\ Len(store) < MaxObjects
  /\ Cardinality(DOMAIN u) > 1
  /\ ~Valid(Applied(u))
  /\ Valid(Config)
  /\ store' = Append([store EXCEPT ![live] = Applied(u)], Coerced(Config))
  /\ live' = Len(store')
  /\ failed' = Append(failed, "refused")
  /\ UNCHANGED <<app, snaps, index, saving, yaml, taken, used>>

\* update_many() with a path that does not exist: the lookup raises, and
\* what was assigned before it stays.
BreakMany(u) ==
  /\ Len(failed) < MaxFailures
  /\ store' = [store EXCEPT ![live] = Applied(u)]
  /\ failed' = Append(failed, "broken")
  /\ UNCHANGED <<live, app, snaps, index, saving, yaml, taken, used>>

\* undo() and redo(): the snapshot's object becomes the live one.  The rest
\* of the program keeps the one it has.
Restore(i) ==
  /\ index' = i
  /\ live' = snaps[i]
  /\ used' = used \cup {snaps[i]}
  /\ ScheduleSave
  /\ UNCHANGED <<store, app, snaps, yaml, taken, failed>>

Undo(steps) ==
  /\ index - steps \in 1..Len(snaps)
  /\ Restore(index - steps)

Redo(steps) ==
  /\ index + steps \in 1..Len(snaps)
  /\ Restore(index + steps)

\* to_yaml(): the dump leaves out what has its default, and is merged into
\* what the file holds.
Merged(cfg) ==
  [f \in Fields |-> IF cfg[f] = Default THEN yaml[f] ELSE Coerce[cfg[f]]]

\* save_after_delay(): the file gets the configuration of that moment.
Save ==
  /\ saving = "pending"
  /\ saving' = "none"
  /\ yaml' = Merged(Config)
  /\ UNCHANGED <<store, live, app, snaps, index, taken, used, failed>>

\* The file cannot be written: ConfigSaveError ends the task, and nothing
\* tries again before the next change.
FailSave ==
  /\ saving = "pending"
  /\ saving' = "failed"
  /\ UNCHANGED <<store, live, app, snaps, index, yaml, taken, used, failed>>

\* The process ends, whatever is pending, and a new one loads the file.
Restart ==
  /\ Valid(yaml)
  /\ store' = <<yaml>>
  /\ live' = 1 /\ app' = 1
  /\ snaps' = <<>> /\ taken' = <<>> /\ index' = 0
  /\ saving' = "none"
  /\ used' = {} /\ failed' = <<>>
  /\ UNCHANGED yaml

-----------------------------------------------------------------------------

ConfigInit ==
  /\ yaml = [f \in Fields |-> Default]
  /\ store = <<yaml>>
  /\ live = 1 /\ app = 1
  /\ snaps = <<>> /\ taken = <<>> /\ index = 0
  /\ saving = "none"
  /\ used = {} /\ failed = <<>>

Batches == UNION {[fs -> Values] : fs \in (SUBSET Fields) \ {{}}}

ConfigNext ==
  \/ \E f \in Fields, v \in Values : Update(f, v)
  \/ \E u \in Batches : UpdateMany(u) \/ RefuseMany(u) \/ BreakMany(u)
  \/ \E steps \in 1..MaxSnapshots : Undo(steps) \/ Redo(steps)
  \/ Save \/ FailSave
  \/ Restart

ConfigSpec == ConfigInit /\ [][ConfigNext]_configVars

-----------------------------------------------------------------------------

\* Every variable has its type; the references are to objects that exist
\* and the position is one of the history.
ConfigTypeOK ==
  /\ store \in Seq(Configs)
  /\ live \in DOMAIN store
  /\ app \in DOMAIN store
  /\ Len(snaps) \in 0..MaxSnapshots
  /\ \A i \in DOMAIN snaps : snaps[i] \in DOMAIN store
  /\ index \in 0..Len(snaps)
  /\ index = 0 => snaps = <<>>
  /\ saving \in {"none", "pending", "failed"}
  /\ yaml \in Configs
  /\ taken \in Seq(Configs)
  /\ Len(taken) = Len(snaps)
  /\ used \subseteq DOMAIN store
  /\ failed \in Seq({"refused", "broken"})

\* What validation makes of the values of two objects is the same.
Alike(i, j) == Coerced(store[i]) = Coerced(store[j])

\* The current snapshot is what GET /config shows, through updates, undo and
\* redo in any order, as long as no batch fails; and what get_config() gives
\* the rest of the server, as long as besides nothing was undone or redone.
CurrentSnapshotIsLive ==
  failed = <<>> /\ index > 0 =>
    /\ Alike(snaps[index], live)
    /\ used = {} => Alike(snaps[index], app)

\* A snapshot that was never restored still holds what was recorded: no
\* update, batch, undo or overflow of the history changes it, although
\* updates change objects in place and undo makes snapshots live.
UnusedSnapshotsStay ==
  \A i \in DOMAIN snaps : snaps[i] \notin used => store[snaps[i]] = taken[i]

\* The server has the configuration the manager shows, from the start on and
\* with an empty history too, until the first undo, redo or failing batch.
ServerFollows == used = {} /\ failed = <<>> => Alike(app, live)

ConfigInv ==
  ConfigTypeOK /\ CurrentSnapshotIsLive /\ UnusedSnapshotsStay /\ ServerFollows

\* A value the manager shows, other than a default, is in config.yaml or about
\* to be, unless the last save failed: also after refused batches, undo and
\* redo, but not after a batch that broke off.
UnsavedIsScheduled ==
  "broken" \notin Range(failed) /\ saving = "none" =>
    \A f \in Fields : Config[f] # Default => yaml[f] = Coerce[Config[f]]
=============================================================================
