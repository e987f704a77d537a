-------------------------------- MODULE Relay --------------------------------
(***************************************************************************)
(* The store-and-forward relay (relay_server.py) and what a node's         *)
(* NetworkManager can see of it, as operators on the relay's store.        *)
(*                                                                         *)
(* The store maps a round id to the list of messages posted for it.  A     *)
(* list is kept as [count, last]: how many messages were posted, and the   *)
(* data last posted by each sender.  The answer to a poll is a function    *)
(* of these two, because the relay compares the length of the list with    *)
(* the expected count and builds a dict in which later messages of a       *)
(* sender replace earlier ones.                                            *)
(***************************************************************************)
EXTENDS Naturals

LOCAL RPut(m, k, v) == [x \in DOMAIN m \cup {k} |-> IF x = k THEN v ELSE m[x]]

EmptyStore == [round \in {} |-> 0]
EmptyRound == [count |-> 0, last |-> EmptyStore]

RoundOf(store, round) ==
    IF round \in DOMAIN store THEN store[round] ELSE EmptyRound

\* /broadcast: append, whoever the sender is and whatever it posted before.
Post(store, round, sender, data) ==
    LET r == RoundOf(store, round)
    IN  RPut(store, round, [count |-> r.count + 1,
                            last  |-> RPut(r.last, sender, data)])

\* /poll: ready once enough messages, not senders, have been posted.
Ready(store, round, expected) == RoundOf(store, round).count >= expected

\* /poll: the map sender -> data returned when ready.
Answer(store, round) == RoundOf(store, round).last

\* A reset that forgets nothing.
ResetNothing(store) == store

\* /reset: every round is forgotten; a restart of the relay does the same.
Reset(store) == EmptyStore
=============================================================================
