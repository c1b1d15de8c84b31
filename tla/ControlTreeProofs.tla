------------------------- MODULE ControlTreeProofs -------------------------
(***************************************************************************)
(* Proofs about ControlTree, for any switches, setter calls and crashes.   *)
(* What RestoresAHeldTree does not say and its induction needs: a thread   *)
(* holds a clone of a tree the channel had (HeldInv), and a setter that    *)
(* overlaps no other finds the file as it has truncated it (CutInv).       *)
(***************************************************************************)
EXTENDS ControlTree, TLAPS

\* Everything a restart may load, now or once a thread has written, has been
\* the tree.
HeldInv ==
    /\ tree \in held /\ Default \in held
    /\ \A c \in Calls : snap[c] \in held
    /\ disk.state = "ok" => disk.tree \in held
    /\ \A t \in held : WellFormed(t)

\* The default tree is well formed.
LEMMA DefaultFacts == WellFormed(Default)
  BY ControlTreeAssumption DEF WellFormed, Tree, Default, Gates

\* A setter keeps the tree well formed.
LEMMA AppliedFacts ==
    ASSUME NEW t, WellFormed(t), NEW g \in Gates \cup {Global}, NEW p \in BOOLEAN
    PROVE  WellFormed(Applied(t, g, p))
  BY ControlTreeAssumption DEF WellFormed, Tree, Applied, Gates

\* Types and held trees initially.
LEMMA InitHeld == Init => TypeOK /\ HeldInv
<1> SUFFICES ASSUME Init PROVE TypeOK /\ HeldInv
  OBVIOUS
<1> USE DefaultFacts DEF WellFormed
<1>1. disk = [state |-> "empty", tree |-> Default] /\ Loaded = Default
  BY DEF Init, Unparsable, File, Loaded
<1>2. TypeOK
  <2>1. overlapped \in BOOLEAN /\ unsaved \in BOOLEAN
    BY Zenon DEF Init
  <2>2. /\ WellFormed(tree) /\ snap \in [Calls -> Tree] /\ held \subseteq Tree
        /\ pc \in [Calls -> {"idle", "modified", "spawned", "opened", "done"}]
        /\ disk \in [state: {"empty", "ok", "mixed"}, tree: Tree]
        /\ WellFormed(Loaded) /\ faults \in Nat /\ crashes \in Nat
    BY <1>1 DEF Init
  <2> QED BY <2>1, <2>2, Zenon DEF TypeOK
<1>3. HeldInv
  BY <1>1 DEF Init, HeldInv
<1> QED BY <1>2, <1>3

\* Types and held trees in every step.
LEMMA NextHeld == TypeOK /\ HeldInv /\ [Next]_vars => TypeOK' /\ HeldInv'
<1> SUFFICES ASSUME TypeOK, HeldInv, [Next]_vars PROVE TypeOK' /\ HeldInv'
  OBVIOUS
<1> USE DefaultFacts
<1>1. ASSUME NEW c \in Calls, Set(c) PROVE TypeOK' /\ HeldInv'
  <2>1. PICK g \in Gates \cup {Global}, p \in BOOLEAN : Modify(c, g, p)
    BY <1>1 DEF Set
  <2>2. WellFormed(tree')
    BY <2>1, AppliedFacts DEF Modify, TypeOK
  <2>3. HeldInv'
    BY <2>1, <2>2 DEF Modify, HeldInv, WellFormed
  <2>4. TypeOK'
    BY <2>1, <2>2 DEF Modify, TypeOK, WellFormed, Loaded
  <2> QED BY <2>3, <2>4
<1>2. ASSUME NEW c \in Calls, Spawn(c) PROVE TypeOK' /\ HeldInv'
  BY <1>2 DEF Spawn, TypeOK, HeldInv, WellFormed, Loaded
<1>3. ASSUME NEW c \in Calls, Open(c) PROVE TypeOK' /\ HeldInv'
  BY <1>3 DEF Open, TypeOK, HeldInv, WellFormed, Loaded, Unparsable, File
<1>4. ASSUME NEW c \in Calls, Write(c) PROVE TypeOK' /\ HeldInv'
  <2>1. disk' = File("ok", snap[c]) \/ disk' = Unparsable("mixed")
    BY <1>4 DEF Write, Written
  <2>2. disk'.state = "ok" => disk'.tree \in held
    BY <2>1 DEF HeldInv, File, Unparsable
  <2>3. disk' \in [state: {"empty", "ok", "mixed"}, tree: Tree]
    BY <2>1 DEF HeldInv, TypeOK, File, Unparsable, WellFormed
  <2>4. WellFormed(Loaded')
    BY <2>2 DEF Loaded, HeldInv
  <2>5. unsaved' \in BOOLEAN
    BY <1>4, Zenon DEF Write
  <2>6. /\ tree' = tree /\ snap' = snap /\ held' = held /\ overlapped' = overlapped
        /\ faults' = faults /\ crashes' = crashes
        /\ pc' \in [Calls -> {"idle", "modified", "spawned", "opened", "done"}]
    BY <1>4 DEF Write, TypeOK
  <2>7. HeldInv'
    BY <2>2, <2>6 DEF HeldInv, WellFormed
  <2>8. TypeOK'
    BY <2>3, <2>4, <2>5, <2>6, Zenon DEF TypeOK, WellFormed
  <2> QED BY <2>7, <2>8
<1>5. ASSUME NEW c \in Calls, WriteFails(c) PROVE TypeOK' /\ HeldInv'
  <2>1. unsaved' \in BOOLEAN
    BY <1>5, Zenon DEF WriteFails, TypeOK
  <2>2. /\ tree' = tree /\ snap' = snap /\ held' = held /\ overlapped' = overlapped
        /\ faults' \in Nat /\ crashes' = crashes
        /\ pc' \in [Calls -> {"idle", "modified", "spawned", "opened", "done"}]
    BY <1>5 DEF WriteFails, TypeOK
  <2>3. disk' = disk \/ disk' = Unparsable("mixed")
    BY <1>5, Zenon DEF WriteFails
  <2>4. /\ disk' \in [state: {"empty", "ok", "mixed"}, tree: Tree]
        /\ WellFormed(Loaded')
        /\ disk'.state = "ok" => disk'.tree \in held
    BY <2>3 DEF TypeOK, HeldInv, WellFormed, Loaded, Unparsable, File
  <2>5. HeldInv'
    BY <2>2, <2>4 DEF HeldInv, WellFormed
  <2>6. TypeOK'
    BY <2>1, <2>2, <2>4, Zenon DEF TypeOK, WellFormed
  <2> QED BY <2>5, <2>6
<1>6. ASSUME Crash PROVE TypeOK' /\ HeldInv'
  <2>1. unsaved' \in BOOLEAN
    BY <1>6, Zenon DEF Crash
  <2>2. /\ tree' = Loaded /\ snap' = snap /\ disk' = disk /\ held' = held
        /\ overlapped' = overlapped /\ faults' = faults /\ crashes' \in Nat
        /\ pc' \in [Calls -> {"idle", "modified", "spawned", "opened", "done"}]
    BY <1>6 DEF Crash, TypeOK
  <2>3. HeldInv'
    BY <2>2 DEF HeldInv, WellFormed, Loaded
  <2>4. WellFormed(tree') /\ WellFormed(Loaded')
    BY <2>2 DEF TypeOK, WellFormed, Loaded
  <2>5. TypeOK'
    BY <2>1, <2>2, <2>4, Zenon DEF TypeOK
  <2> QED BY <2>3, <2>5
<1>7. CASE UNCHANGED vars
  BY <1>7 DEF vars, TypeOK, HeldInv, WellFormed, Loaded
<1> QED BY <1>1, <1>2, <1>3, <1>4, <1>5, <1>6, <1>7 DEF Next

\* The tree, its clones and the file keep their types (ControlManager).
THEOREM TypeCorrect == Spec => []TypeOK
<1> QED BY InitHeld, NextHeld, PTL DEF Spec

\* A call that moves on leaves the others where they are.
LEMMA InFlightMoves ==
    ASSUME TypeOK, NEW c \in Calls, NEW v, pc' = [pc EXCEPT ![c] = v]
    PROVE  InFlight' = IF v \in {"idle", "done"} THEN InFlight \ {c} ELSE InFlight \cup {c}
  BY DEF TypeOK, InFlight

\* While no two setters overlap, one call at most is under way, it finds the
\* file as it has truncated it, and a file that does not parse has a cause.
CutInv ==
    ~overlapped =>
        /\ \A c, d \in InFlight : c = d
        /\ \A c \in Opened : disk.state = "empty"
        /\ disk.state # "ok" => unsaved \/ Opened # {}

\* Every step keeps it.
LEMMA NextCut == TypeOK /\ CutInv /\ [Next]_vars => CutInv'
<1> SUFFICES ASSUME TypeOK, CutInv, [Next]_vars, ~overlapped' PROVE CutInv'
  BY DEF CutInv
<1>0. ~overlapped
  BY Zenon DEF Next, vars, Set, Modify, Spawn, Open, Write, WriteFails, Crash
<1>1. /\ \A c, d \in InFlight : c = d
      /\ \A c \in Opened : disk.state = "empty"
      /\ disk.state # "ok" => unsaved \/ Opened # {}
  BY <1>0, Zenon DEF CutInv
<1>2. ASSUME NEW c \in Calls, Set(c) PROVE CutInv'
  <2>1. PICK g \in Gates \cup {Global}, p \in BOOLEAN : Modify(c, g, p)
    BY <1>2 DEF Set
  <2>2. InFlight = {}
    BY <2>1, Zenon DEF Modify
  <2>3. InFlight' = {c}
    BY <2>1, <2>2, InFlightMoves DEF Modify
  <2>4. Opened' = Opened
    BY <2>1 DEF Modify, Opened, TypeOK
  <2>5. disk' = disk /\ unsaved' = unsaved
    BY <2>1 DEF Modify
  <2> QED BY <1>1, <2>3, <2>4, <2>5, Zenon DEF CutInv
<1>3. ASSUME NEW c \in Calls, Spawn(c) PROVE CutInv'
  <2>1. c \in InFlight /\ InFlight' = InFlight \cup {c}
    BY <1>3, InFlightMoves DEF Spawn, InFlight
  <2>2. Opened' = Opened
    BY <1>3 DEF Spawn, Opened, TypeOK
  <2>3. disk' = disk /\ unsaved' = unsaved
    BY <1>3 DEF Spawn
  <2>4. InFlight' = InFlight
    BY <2>1
  <2> QED BY <1>1, <2>2, <2>3, <2>4, Zenon DEF CutInv
<1>4. ASSUME NEW c \in Calls, Open(c) PROVE CutInv'
  <2>1. c \in InFlight /\ InFlight' = InFlight \cup {c}
    BY <1>4, InFlightMoves DEF Open, InFlight
  <2>2. c \in Opened'
    BY <1>4 DEF Open, Opened, TypeOK
  <2>3. disk'.state = "empty"
    BY <1>4 DEF Open, Unparsable, File
  <2>4. InFlight' = InFlight
    BY <2>1
  <2> QED BY <1>1, <2>2, <2>3, <2>4, Zenon DEF CutInv
<1>5. ASSUME NEW c \in Calls, Write(c) PROVE CutInv'
  <2>1. c \in InFlight /\ c \in Opened /\ InFlight' = InFlight \ {c}
    BY <1>5, InFlightMoves DEF Write, InFlight, Opened
  <2>2. InFlight' = {}
    BY <1>1, <2>1
  <2>3. disk'.state = "ok"
    BY <1>1, <1>5, <2>1 DEF Write, Written, File
  <2>4. Opened' = {}
    BY <2>2 DEF Opened, InFlight
  <2> QED BY <2>2, <2>3, <2>4, Zenon DEF CutInv
<1>6. ASSUME NEW c \in Calls, WriteFails(c) PROVE CutInv'
  <2>1. c \in InFlight /\ InFlight' = InFlight \ {c}
    BY <1>6, InFlightMoves DEF WriteFails, InFlight
  <2>2. InFlight' = {}
    BY <1>1, <2>1
  <2>3. Opened' = {}
    BY <2>2 DEF Opened, InFlight
  <2>4. CASE pc[c] = "spawned"
    <3>1. Opened = {}
      BY <1>1, <2>1, <2>4 DEF Opened, InFlight
    <3>2. disk' = disk /\ unsaved' = unsaved
      BY <1>6, <2>4 DEF WriteFails
    <3> QED BY <1>1, <2>2, <2>3, <3>1, <3>2, Zenon DEF CutInv
  <2>5. CASE pc[c] = "opened"
    <3>1. unsaved' = TRUE
      BY <1>6, <2>5 DEF WriteFails
    <3> QED BY <2>2, <2>3, <3>1, Zenon DEF CutInv
  <2> QED BY <1>6, <2>4, <2>5 DEF WriteFails
<1>7. ASSUME Crash PROVE CutInv'
  <2>1. InFlight' = {}
    BY <1>7 DEF Crash, InFlight, TypeOK
  <2>2. Opened' = {}
    BY <2>1 DEF Opened, InFlight
  <2>3. disk' = disk /\ unsaved' = (unsaved \/ Opened # {})
    BY <1>7, Zenon DEF Crash
  <2> QED BY <1>1, <2>1, <2>2, <2>3, Zenon DEF CutInv
<1>8. CASE UNCHANGED vars
  <2>1. /\ InFlight' = InFlight /\ Opened' = Opened
        /\ disk' = disk /\ unsaved' = unsaved
    BY <1>8 DEF vars, InFlight, Opened
  <2> QED BY <1>1, <2>1, Zenon DEF CutInv
<1> QED BY <1>2, <1>3, <1>4, <1>5, <1>6, <1>7, <1>8 DEF Next

\* However setters, writes, failures and crashes interleave, a restart loads a
\* tree the daemon has really had; it falls back to the default, losing every
\* pause, only when no write has ended well since the first or since one that
\* was cut short, or when setters overlapped (mutate, load_from_disk).
THEOREM RestoresHeld == Spec => []RestoresAHeldTree
<1>1. HeldInv /\ CutInv => RestoresAHeldTree
  BY Zenon DEF HeldInv, CutInv, RestoresAHeldTree
<1>2. Init => CutInv
  <2>1. Init => InFlight = {} /\ Opened = {}
    BY DEF Init, InFlight, Opened
  <2>2. Init => unsaved
    BY Zenon DEF Init
  <2> QED BY <2>1, <2>2, Zenon DEF CutInv
<1> QED BY <1>1, <1>2, InitHeld, NextHeld, NextCut, PTL DEF Spec

-----------------------------------------------------------------------------
(* The pause checks.                                                        *)

\* is_effectively_paused reads the switches of the dependencies themselves and
\* the global one; the gates others ask add the global one to each.
LEMMA CascadeFacts == TypeOK => CascadeAgrees
<1> SUFFICES ASSUME TypeOK, NEW w \in Workers, tree[w] = "absent"
             PROVE  IsEffectivelyPaused(tree, w)
                      <=> IsPaused(tree, w) \/ \E d \in Deps[w] : IsPaused(tree, d)
  BY DEF CascadeAgrees
<1>1. IsPaused(tree, w) <=> tree[Global] = "pause"
  <2>1. w \notin Projects
    BY ControlTreeAssumption
  <2> QED BY <2>1 DEF IsPaused
<1>2. ASSUME NEW d \in Deps[w]
      PROVE  /\ tree[d] = "pause" => IsPaused(tree, d)
             /\ IsPaused(tree, d) => tree[d] = "pause" \/ tree[Global] = "pause"
  <2>1. d \notin Workers
    BY ControlTreeAssumption
  <2> QED BY <2>1 DEF IsPaused
<1> QED BY <1>1, <1>2 DEF IsEffectivelyPaused

\* Whatever switches are set, a worker without an entry of its own is stopped
\* exactly when is_worker_paused or the gate of one of its dependencies says so
\* (is_effectively_paused).
THEOREM CascadesAgree == Spec => []CascadeAgrees
<1> QED BY TypeCorrect, CascadeFacts, PTL

-----------------------------------------------------------------------------
(* Persistence.                                                             *)

Undisturbed == faults = 0 /\ crashes = 0 /\ ~overlapped

\* As long as nothing failed and no two setters overlapped, one call at most
\* is under way; its clone is the tree and, once it has opened the file, no one
\* else writes there.
QuietInv ==
    Undisturbed =>
        /\ PersistedWhenQuiet
        /\ \A c, d \in InFlight : c = d
        /\ \A c \in InFlight : pc[c] \in {"spawned", "opened"} => snap[c] = tree
        /\ \A c \in InFlight : pc[c] = "opened" => disk.state = "empty"

\* Every step keeps it.
LEMMA NextQuiet == TypeOK /\ HeldInv /\ QuietInv /\ [Next]_vars => QuietInv'
<1> SUFFICES ASSUME TypeOK, HeldInv, QuietInv, [Next]_vars, Undisturbed' PROVE QuietInv'
  BY DEF QuietInv
<1>0. Undisturbed
  BY DEF Next, vars, Set, Modify, Spawn, Open, Write, WriteFails, Crash, Undisturbed, TypeOK
<1>1. /\ InFlight = {} => Loaded = tree
      /\ \A c, d \in InFlight : c = d
      /\ \A c \in InFlight : pc[c] \in {"spawned", "opened"} => snap[c] = tree
      /\ \A c \in InFlight : pc[c] = "opened" => disk.state = "empty"
  BY <1>0 DEF QuietInv, Undisturbed, PersistedWhenQuiet
<1>2. ASSUME NEW c \in Calls, Set(c) PROVE QuietInv'
  <2>1. PICK g \in Gates \cup {Global}, p \in BOOLEAN : Modify(c, g, p)
    BY <1>2 DEF Set
  <2>2. InFlight = {}
    BY <2>1 DEF Modify, Undisturbed
  <2>3. InFlight' = {c} /\ pc'[c] = "modified"
    BY <2>1, <2>2, InFlightMoves DEF Modify, TypeOK
  <2> QED BY <2>3 DEF QuietInv, PersistedWhenQuiet
<1>3. ASSUME NEW c \in Calls, Spawn(c) PROVE QuietInv'
  <2>1. c \in InFlight /\ InFlight' = InFlight \cup {c}
    BY <1>3, InFlightMoves DEF Spawn, InFlight
  <2>2. InFlight' = {c} /\ pc'[c] = "spawned" /\ snap'[c] = tree'
    BY <1>1, <1>3, <2>1 DEF Spawn, TypeOK
  <2> QED BY <2>2 DEF QuietInv, PersistedWhenQuiet
<1>4. ASSUME NEW c \in Calls, Open(c) PROVE QuietInv'
  <2>1. c \in InFlight /\ InFlight' = InFlight \cup {c}
    BY <1>4, InFlightMoves DEF Open, InFlight
  <2>2. InFlight' = {c} /\ snap'[c] = tree' /\ disk'.state = "empty"
    BY <1>1, <1>4, <2>1 DEF Open, Unparsable, File
  <2> QED BY <2>2 DEF QuietInv, PersistedWhenQuiet
<1>5. ASSUME NEW c \in Calls, Write(c) PROVE QuietInv'
  <2>1. c \in InFlight /\ InFlight' = InFlight \ {c}
    BY <1>5, InFlightMoves DEF Write, InFlight
  <2>2. InFlight' = {}
    BY <1>1, <2>1
  <2>3. disk' = File("ok", tree)
    BY <1>1, <1>5, <2>1 DEF Write, Written
  <2>4. Loaded' = tree'
    BY <1>5, <2>3 DEF Loaded, File, Write
  <2> QED BY <2>2, <2>4 DEF QuietInv, PersistedWhenQuiet
<1>6. ASSUME NEW c \in Calls, WriteFails(c) PROVE FALSE
  BY <1>0, <1>6 DEF WriteFails, Undisturbed
<1>7. ASSUME Crash PROVE FALSE
  BY <1>0, <1>7 DEF Crash, Undisturbed
<1>8. CASE UNCHANGED vars
  BY <1>1, <1>8 DEF vars, QuietInv, PersistedWhenQuiet, InFlight, Loaded
<1> QED BY <1>2, <1>3, <1>4, <1>5, <1>6, <1>7, <1>8 DEF Next

\* "atomically updates the tree and persists": when no write is under way, none
\* failed and no two setters overlapped, a restart would load the tree the
\* daemon has (mutate).
THEOREM QuietIsPersisted == Spec => []PersistedWhenQuiet
<1>1. Init => QuietInv
  BY DEF Init, QuietInv, PersistedWhenQuiet, InFlight, Loaded, Unparsable, File
<1>2. QuietInv => PersistedWhenQuiet
  BY DEF QuietInv, PersistedWhenQuiet, Undisturbed
<1> QED BY <1>1, <1>2, InitHeld, NextHeld, NextQuiet, PTL DEF Spec
=============================================================================
