---------------------------- MODULE ControlTree ----------------------------
(***************************************************************************)
(* The pause switches of the daemon (control_tree.rs).  Any task may call  *)
(* a setter: it changes the tree under the lock of a watch channel, clones *)
(* the tree again after the unlock and hands the clone to a blocking       *)
(* thread, which writes control_tree.json.  The threads race each other    *)
(* and a crash; a restart loads the file.                                  *)
(***************************************************************************)
EXTENDS Naturals, FiniteSets

CONSTANTS
    Providers, Domains, Workers, Roles, Projects,   \* the switches but one
    Global,         \* global_paused
    Deps,           \* providers and domains each worker depends on
    Calls,          \* the setter calls of a behaviour
    MaxFaults, MaxCrashes   \* bounds

Gates == Providers \cup Domains \cup Workers \cup Roles \cup Projects

ASSUME ControlTreeAssumption ==
    /\ Global \notin Gates
    /\ Workers \cap (Providers \cup Domains \cup Roles \cup Projects) = {}
    /\ Deps \in [Workers -> SUBSET (Providers \cup Domains)]

\* A switch is set to pause or run, or has no entry in its map.
Tree == [Gates \cup {Global} -> {"absent", "pause", "run"}]

\* set_project removes an entry instead of setting it to run.
WellFormed(t) == t \in Tree /\ \A p \in Projects : t[p] # "run"

Default == [g \in Gates \cup {Global} |-> IF g = Global THEN "run" ELSE "absent"]

VARIABLES
    tree,       \* the value of the watch channel
    pc,         \* where each call, and then its blocking thread, stands
    snap,       \* the clone a call writes
    disk,       \* control_tree.json: "empty" (or no file), "ok" or "mixed"
    held,       \* history: the trees the channel has held
    overlapped, \* history: whether a setter began while another was in flight
    unsaved,    \* history: no write has ended well since the last one cut short
    faults, crashes

vars == <<tree, pc, snap, disk, held, overlapped, unsaved, faults, crashes>>

File(state, t) == [state |-> state, tree |-> t]
Unparsable(state) == File(state, Default)

Init ==
    /\ tree = Default
    /\ pc = [c \in Calls |-> "idle"]
    /\ snap = [c \in Calls |-> Default]
    /\ disk = Unparsable("empty")
    /\ held = {Default} /\ overlapped = FALSE /\ unsaved = TRUE
    /\ faults = 0 /\ crashes = 0

InFlight == {c \in Calls : pc[c] \notin {"idle", "done"}}

-----------------------------------------------------------------------------
(* What the readers of the tree are told.                                   *)

\* is_provider_paused, is_domain_paused, is_slot_role_paused; an explicit
\* worker entry overrides the global switch and projects ignore it.
IsPaused(t, g) ==
    CASE g \in Workers  -> t[g] = "pause" \/ (t[g] = "absent" /\ t[Global] = "pause")
      [] g \in Projects -> t[g] = "pause"
      [] OTHER          -> t[g] = "pause" \/ t[Global] = "pause"

\* Mutant of IsEffectivelyPaused: the global switch is left to the gates.
IsEffectivelyPausedByDeps(t, w) ==
    \/ t[w] = "pause"
    \/ t[w] = "absent" /\ \E d \in Deps[w] : t[d] = "pause"

\* is_effectively_paused: worker entry, then global, then dependencies.
IsEffectivelyPaused(t, w) ==
    \/ t[w] = "pause"
    \/ /\ t[w] = "absent"
       /\ t[Global] = "pause" \/ \E d \in Deps[w] : t[d] = "pause"

-----------------------------------------------------------------------------
(* A setter call.                                                           *)

\* Mutant of Applied: set_project inserts false like the other setters.
AppliedInserts(t, g, paused) == [t EXCEPT ![g] = IF paused THEN "pause" ELSE "run"]

\* What the closure given to mutate() does to the tree.
Applied(t, g, paused) ==
    [t EXCEPT ![g] = IF paused THEN "pause"
                     ELSE IF g \in Projects THEN "absent" ELSE "run"]

\* Mutant of Modify: the clone is taken before the change.
ModifyClonesFirst(c, g, paused) ==
    /\ pc[c] = "idle"
    /\ overlapped' = (overlapped \/ InFlight # {})
    /\ snap' = [snap EXCEPT ![c] = tree]
    /\ tree' = Applied(tree, g, paused)
    /\ held' = held \cup {tree'}
    /\ pc' = [pc EXCEPT ![c] = "spawned"]
    /\ UNCHANGED <<disk, unsaved, faults, crashes>>

\* send_modify.
Modify(c, g, paused) ==
    /\ pc[c] = "idle"
    /\ overlapped' = (overlapped \/ InFlight # {})
    /\ tree' = Applied(tree, g, paused)
    /\ held' = held \cup {tree'}
    /\ pc' = [pc EXCEPT ![c] = "modified"]
    /\ UNCHANGED <<snap, disk, unsaved, faults, crashes>>

\* Mutant of Spawn: the change is applied to what the file holds.
SpawnFromDisk(c) ==
    /\ pc[c] = "modified"
    /\ \E g \in Gates : snap' = [snap EXCEPT ![c] = [disk.tree EXCEPT ![g] = tree[g]]]
    /\ pc' = [pc EXCEPT ![c] = "spawned"]
    /\ UNCHANGED <<tree, disk, held, overlapped, unsaved, faults, crashes>>

\* borrow().clone(), by then perhaps changed again, and spawn_blocking.
Spawn(c) ==
    /\ pc[c] = "modified"
    /\ snap' = [snap EXCEPT ![c] = tree]
    /\ pc' = [pc EXCEPT ![c] = "spawned"]
    /\ UNCHANGED <<tree, disk, held, overlapped, unsaved, faults, crashes>>

\* fs::write opens and truncates the file ..
Open(c) ==
    /\ pc[c] = "spawned"
    /\ disk' = Unparsable("empty")
    /\ pc' = [pc EXCEPT ![c] = "opened"]
    /\ UNCHANGED <<tree, snap, held, overlapped, unsaved, faults, crashes>>

\* .. and writes from the start: over the text of another thread that wrote
\* since, the end of a longer text stays behind.
Written(c) ==
    {File("ok", snap[c])} \cup
        IF disk.state = "mixed" \/ (disk.state = "ok" /\ disk.tree # snap[c])
        THEN {Unparsable("mixed")} ELSE {}

Write(c) ==
    /\ pc[c] = "opened"
    /\ disk' \in Written(c)
    /\ unsaved' = (unsaved /\ disk'.state # "ok")
    /\ pc' = [pc EXCEPT ![c] = "done"]
    /\ UNCHANGED <<tree, snap, held, overlapped, faults, crashes>>

\* The open or the write fails, which is logged.
WriteFails(c) ==
    /\ faults < MaxFaults
    /\ faults' = faults + 1
    /\ \/ pc[c] = "spawned" /\ UNCHANGED <<disk, unsaved>>
       \/ pc[c] = "opened" /\ disk' = Unparsable("mixed") /\ unsaved' = TRUE
    /\ pc' = [pc EXCEPT ![c] = "done"]
    /\ UNCHANGED <<tree, snap, held, overlapped, crashes>>

-----------------------------------------------------------------------------
\* load_from_disk.
Loaded == IF disk.state = "ok" THEN disk.tree ELSE Default

Opened == {c \in Calls : pc[c] = "opened"}

\* The process ends, with whatever its threads had not finished, and is
\* started again.  A file that was truncated and not yet written stays so, and
\* with it go all the pauses it held, not only the one being set.
Crash ==
    /\ crashes < MaxCrashes
    /\ crashes' = crashes + 1
    /\ tree' = Loaded
    /\ unsaved' = (unsaved \/ Opened # {})
    /\ pc' = [c \in Calls |-> IF pc[c] = "idle" THEN "idle" ELSE "done"]
    /\ UNCHANGED <<snap, disk, held, overlapped, faults>>

-----------------------------------------------------------------------------
Set(c) == \E g \in Gates \cup {Global}, paused \in BOOLEAN : Modify(c, g, paused)

Next ==
    \/ \E c \in Calls : Set(c) \/ Spawn(c) \/ Open(c) \/ Write(c) \/ WriteFails(c)
    \/ Crash

Spec == Init /\ [][Next]_vars

-----------------------------------------------------------------------------
(* Properties.                                                              *)

TypeOK ==
    /\ WellFormed(tree) /\ snap \in [Calls -> Tree]
    /\ held \subseteq Tree /\ overlapped \in BOOLEAN /\ unsaved \in BOOLEAN
    /\ pc \in [Calls -> {"idle", "modified", "spawned", "opened", "done"}]
    /\ disk \in [state: {"empty", "ok", "mixed"}, tree: Tree]
    /\ WellFormed(Loaded)
    /\ faults \in Nat /\ crashes \in Nat

\* Crash recovery neither invents a state nor forgets one without a cause.  A
\* file that parses holds one tree the daemon has really had, never a mixture
\* of two.  A file that does not, from which a restart takes the default and so
\* drops every pause, was cut short: no write has ended well since the first,
\* a failed or an interrupted one, or one is under way, or setters overlapped.
\* The interrupted one is where the code falls short of "atomically updates the
\* tree and persists .. for crash recovery" (control_tree.rs:7).
RestoresAHeldTree ==
    /\ tree \in held
    /\ disk.state = "ok" => disk.tree \in held
    /\ disk.state # "ok" => unsaved \/ overlapped \/ Opened # {}

\* The checks agree whatever was set: a worker without an entry of its own is
\* stopped exactly when is_worker_paused, or the gate of one of its
\* dependencies as others see it, says so.
CascadeAgrees ==
    \A w \in Workers : tree[w] = "absent" =>
        (IsEffectivelyPaused(tree, w)
            <=> IsPaused(tree, w) \/ \E d \in Deps[w] : IsPaused(tree, d))

\* "atomically updates the tree and persists to `control_tree.json`": once no
\* write is under way a restart would load the tree the daemon has, provided
\* that no write failed and no two setters overlapped.  Without the last
\* condition the older clone may be written last and stay in the file.
PersistedWhenQuiet ==
    InFlight = {} /\ faults = 0 /\ crashes = 0 /\ ~overlapped => Loaded = tree
=============================================================================
