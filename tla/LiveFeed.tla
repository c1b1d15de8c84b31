------------------------------ MODULE LiveFeed ------------------------------
(***************************************************************************)
(* What a subscription sees of the dispatcher: a feed of stored rows in    *)
(* strictly ascending seq order, each at most once per life of the daemon. *)
(* Rows may be left out; the order may not be broken.  A daemon that is    *)
(* started again begins at 0 and feeds everything a second time, although  *)
(* dispatcher.rs:9 says that it goes on where it was.                      *)
(***************************************************************************)
EXTENDS Naturals, Sequences

VARIABLES
    stored,     \* seqs of the committed rows of event_log
    cursor,     \* Dispatcher.last_dispatched_seq
    feed        \* seqs published to the topics since the daemon started

feedVars == <<stored, cursor, feed>>

FeedInit ==
    /\ stored = {}
    /\ cursor = 0
    /\ feed = <<>>

Store ==
    /\ stored \subseteq stored'
    /\ UNCHANGED <<cursor, feed>>

\* The cursor passes row s, which is published or dropped.
Advance(s) ==
    /\ s > cursor
    /\ cursor' = s
    /\ feed' \in {feed, Append(feed, s)}
    /\ UNCHANGED stored

\* The daemon starts again with fresh topics and a cursor that was not saved.
StartOver ==
    /\ cursor' = 0
    /\ feed' = <<>>
    /\ UNCHANGED stored

FeedNext == Store \/ (\E s \in stored : Advance(s)) \/ StartOver

FeedSpec == FeedInit /\ [][FeedNext]_feedVars
=============================================================================
