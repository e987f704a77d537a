------------------------------ MODULE DemoKeygen ------------------------------
(***************************************************************************)
(* KeygenOrchestrator::run on every node, over the relay.                  *)
(*                                                                         *)
(* The secret share of a node is named by the node and by the life of the  *)
(* process that drew it; its public share X and its commitment are named   *)
(* the same way.  Everything a node keeps is in memory: a node that stops  *)
(* and starts again draws a new share, while the relay still holds what    *)
(* the earlier life posted under the same two fixed round ids.             *)
(*                                                                         *)
(* Tidy says how the operator restarts.  TRUE follows the README: once a   *)
(* process has stopped all of them are stopped, the relay is reset, and    *)
(* only then are they started.  FALSE: any node, any time, no reset.       *)
(*                                                                         *)
(* AwaitOneLess and AwaitOneMore are wrong variants of the definition      *)
(* after them, there to show that a property notices.                      *)
(***************************************************************************)
EXTENDS Relay, FiniteSets

CONSTANTS
    Nodes,      \* {1, 2, 3} in the demo: TOTAL_PLAYERS of them
    Tidy,
    MaxStops,   \* bound: how often a process is stopped from outside
    MaxLives    \* bound: how often a process is started

ASSUME KeygenAssumption ==
    /\ IsFiniteSet(Nodes) /\ Nodes # {}
    /\ Tidy \in BOOLEAN /\ MaxStops \in Nat /\ MaxLives \in Nat

VARIABLES
    relay,      \* the relay's store
    pc,         \* what each node does next
    life,       \* how many times each node has been started
    ack,        \* the commitments hashed into each node's decommitment
    key,        \* the players' public shares in the stored key metadata
    clean,      \* no process has stopped since the relay was reset
    stops       \* how many processes have been stopped

vars == <<relay, pc, life, ack, key, clean, stops>>

NoMap == EmptyStore
Share(n) == <<n, life[n]>>

\* The commitment posted, and the decommitment, of the current life of a node.
Commitment(n) == Share(n)
Decommitment(n) == [ack |-> ack[n], X |-> Share(n)]

Init ==
    /\ relay = EmptyStore
    /\ pc = [n \in Nodes |-> "generate"]
    /\ life = [n \in Nodes |-> 1]
    /\ ack = [n \in Nodes |-> NoMap]
    /\ key = [n \in Nodes |-> NoMap]
    /\ clean = TRUE
    /\ stops = 0

-----------------------------------------------------------------------------

Goto(n, label) == pc' = [pc EXCEPT ![n] = label]
\* Polls that expect one message too few, and one too many.
AwaitOneLess(round) == Ready(relay, round, Cardinality(Nodes) - 1)
AwaitOneMore(round) == Ready(relay, round, Cardinality(Nodes) + 1)

Await(round) == Ready(relay, round, Cardinality(Nodes))

\* generate_setup_commitments stores the share; then the commitment is posted.
Commit(n) ==
    /\ pc[n] = "generate"
    /\ relay' = Post(relay, "keygen_commit_phase", n, Commitment(n))
    /\ Goto(n, "commit")
    /\ UNCHANGED <<life, ack, key, clean, stops>>

\* store_setup_commitments needs every player's commitment and re-checks its
\* own.  An exception is caught by nobody: the process ends.
ReadCommitments(n) ==
    LET all == Answer(relay, "keygen_commit_phase")
    IN  /\ pc[n] = "commit"
        /\ Await("keygen_commit_phase")
        /\ IF DOMAIN all = Nodes /\ all[n] = Commitment(n)
           THEN /\ ack' = [ack EXCEPT ![n] = all]
                /\ Goto(n, "reveal")
                /\ UNCHANGED clean
           ELSE /\ Goto(n, "down")
                /\ clean' = FALSE
                /\ UNCHANGED ack
        /\ UNCHANGED <<relay, life, key, stops>>

Reveal(n) ==
    /\ pc[n] = "reveal"
    /\ relay' = Post(relay, "keygen_reveal_phase", n, Decommitment(n))
    /\ Goto(n, "reading")
    /\ UNCHANGED <<life, ack, key, clean, stops>>

\* The public shares are taken from the decommitments as they are (they are
\* not opened against the commitments), summed, and stored as metadata.
ReadDecommitments(n) ==
    LET all == Answer(relay, "keygen_reveal_phase")
    IN  /\ pc[n] = "reading"
        /\ Await("keygen_reveal_phase")
        /\ key' = [key EXCEPT ![n] = [p \in DOMAIN all |-> all[p].X]]
        /\ Goto(n, "menu")
        /\ UNCHANGED <<relay, life, ack, clean, stops>>

-----------------------------------------------------------------------------
\* Stops, restarts and the relay's operator.

Up(n) == pc[n] # "down"

\* What a node holds is in memory only.
StopNode(n) ==
    /\ Goto(n, "down")
    /\ ack' = [ack EXCEPT ![n] = NoMap]
    /\ key' = [key EXCEPT ![n] = NoMap]
    /\ clean' = FALSE
    /\ UNCHANGED <<relay, life>>

Stop(n) ==
    /\ Up(n) /\ stops < MaxStops
    /\ StopNode(n)
    /\ stops' = stops + 1

\* The tidy operator stops the others too.
StopToo(n) ==
    /\ Tidy /\ ~clean /\ Up(n)
    /\ StopNode(n)
    /\ UNCHANGED stops

ResetRelay ==
    /\ Tidy /\ ~clean /\ \A n \in Nodes : ~Up(n)
    /\ relay' = Reset(relay)
    /\ clean' = TRUE
    /\ UNCHANGED <<pc, life, ack, key, stops>>

Start(n) ==
    /\ ~Up(n) /\ (Tidy => clean)
    /\ life[n] < MaxLives
    /\ life' = [life EXCEPT ![n] = @ + 1]
    /\ Goto(n, "generate")
    /\ UNCHANGED <<relay, ack, key, clean, stops>>

NodeStep(n) ==
    \/ Commit(n)
    \/ ReadCommitments(n)
    \/ Reveal(n)
    \/ ReadDecommitments(n)

OperatorStep(n) == StopToo(n) \/ ResetRelay \/ Start(n)

Next == \E n \in Nodes : NodeStep(n) \/ Stop(n) \/ OperatorStep(n)

Spec == Init /\ [][Next]_vars

\* Running nodes keep polling; the operator finishes what it began.
FairSpec == Spec /\ \A n \in Nodes : WF_vars(NodeStep(n)) /\ WF_vars(OperatorStep(n))

-----------------------------------------------------------------------------

\* Nodes at the menu hold one and the same key: a share of every player, and
\* for each player that is still up the share that player itself holds.  (The
\* orchestrator sums whatever the decommitment round returned.)
KeysAgree ==
    \A n \in Nodes : pc[n] = "menu" =>
        /\ DOMAIN key[n] = Nodes
        /\ \A p \in Nodes : Up(p) => key[n][p] = Share(p)
        /\ \A p \in Nodes : pc[p] = "menu" => key[p] = key[n]

\* A share in a stored key was committed to before any share of that key was
\* revealed: it is the one whose commitment every acknowledged set contains.
\* (The orchestrator never opens the commitments, so only the order of its
\* rounds can make this true.)
KeySharesWereCommitted ==
    \A n \in Nodes : pc[n] = "menu" => key[n] = ack[n]

\* A node that leaves the wait of a round by itself has found a message of
\* every player (README: nodes poll until every expected participant posted).
AwaitMeansEveryone ==
    [][\A n \in Nodes :
        /\ pc[n] = "commit" /\ ReadCommitments(n)
           => DOMAIN Answer(relay, "keygen_commit_phase") = Nodes
        /\ pc[n] = "reading" /\ ReadDecommitments(n)
           => DOMAIN Answer(relay, "keygen_reveal_phase") = Nodes]_vars

\* Despite stops, all nodes end at the menu for good, with a key.
KeygenCompletes == <>[](\A n \in Nodes : pc[n] = "menu")
=============================================================================
