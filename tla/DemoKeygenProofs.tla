--------------------------- MODULE DemoKeygenProofs ---------------------------
(***************************************************************************)
(* Theorems about DemoKeygen with tidy restarts, for any number of nodes,  *)
(* stops and lives: the nodes at the menu hold one key, made of shares     *)
(* whose commitments all of them had acknowledged, and a poll that counts  *)
(* messages is then as good as one that counts senders.                    *)
(***************************************************************************)
EXTENDS DemoKeygen, FiniteSetTheorems, TLAPS

-----------------------------------------------------------------------------
\* The inductive invariant.

CommitRound == "keygen_commit_phase"
RevealRound == "keygen_reveal_phase"
Labels == {"generate", "commit", "reveal", "reading", "menu", "down"}

\* The shapes of the variables the argument reads.
Shapes ==
    /\ pc \in [Nodes -> Labels]
    /\ life \in [Nodes -> Nat]
    /\ DOMAIN ack = Nodes /\ DOMAIN key = Nodes
    /\ clean \in BOOLEAN

\* A sender is in a round at most once: the count the relay compares is the
\* number of senders.
CountsSenders(round) ==
    LET r == RoundOf(relay, round)
    IN  /\ DOMAIN r.last \subseteq Nodes
        /\ r.last = [p \in DOMAIN r.last |-> r.last[p]]
        /\ r.count = Cardinality(DOMAIN r.last)

\* What a round holds was posted by the present life of its sender, which has
\* moved on since, and is not down unless a reset of the relay is due.
PostedByPresentLives ==
    /\ \A p \in DOMAIN Answer(relay, CommitRound) :
        /\ Answer(relay, CommitRound)[p] = Share(p)
        /\ pc[p] # "generate"
        /\ clean => Up(p)
    /\ \A p \in DOMAIN Answer(relay, RevealRound) :
        /\ Answer(relay, RevealRound)[p].X = Share(p)
        /\ pc[p] \in {"reading", "menu", "down"}
        /\ clean => Up(p)

\* A node past the first round has acknowledged the share of every node; one
\* at the menu has made its key of the same.
EverybodyAcknowledged ==
    \A n \in Nodes :
        /\ pc[n] \in {"reveal", "reading", "menu"} =>
            /\ DOMAIN Answer(relay, CommitRound) = Nodes
            /\ ack[n] = [p \in Nodes |-> Share(p)]
        /\ pc[n] = "menu" => key[n] = [p \in Nodes |-> Share(p)]

IInv ==
    /\ Shapes
    /\ CountsSenders(CommitRound) /\ CountsSenders(RevealRound)
    /\ PostedByPresentLives
    /\ EverybodyAcknowledged

-----------------------------------------------------------------------------
\* The relay.

\* A post adds its sender to the answer of its round, with what it posted.
LEMMA PostToRound ==
    ASSUME NEW round, NEW sender, NEW data, relay' = Post(relay, round, sender, data)
    PROVE  /\ DOMAIN Answer(relay, round)' = DOMAIN Answer(relay, round) \cup {sender}
           /\ Answer(relay, round)'[sender] = data
           /\ \A p \in DOMAIN Answer(relay, round) :
                p # sender => Answer(relay, round)'[p] = Answer(relay, round)[p]
  BY DEF Post, RoundOf, Answer

\* It counts one message more.
LEMMA PostCounts ==
    ASSUME NEW round, NEW sender, NEW data, relay' = Post(relay, round, sender, data)
    PROVE  /\ RoundOf(relay, round)'.count = RoundOf(relay, round).count + 1
           /\ Answer(relay, round)'
                = [p \in DOMAIN Answer(relay, round)' |-> Answer(relay, round)'[p]]
  BY DEF Post, RoundOf, Answer

\* It leaves the other rounds alone.
LEMMA PostElsewhere ==
    ASSUME NEW round, NEW other, other # round,
           NEW sender, NEW data, relay' = Post(relay, round, sender, data)
    PROVE  RoundOf(relay, other)' = RoundOf(relay, other)
  BY DEF Post, RoundOf

LEMMA AnswerElsewhere ==
    ASSUME NEW round, NEW other, other # round,
           NEW sender, NEW data, relay' = Post(relay, round, sender, data)
    PROVE  Answer(relay, other)' = Answer(relay, other)
  BY DEF Post, RoundOf, Answer

\* A count of senders can reach the number of nodes only when all have posted.
LEMMA AwaitFindsEveryone ==
    ASSUME NEW round, CountsSenders(round), Await(round)
    PROVE  DOMAIN Answer(relay, round) = Nodes
<1> DEFINE senders == DOMAIN Answer(relay, round)
<1>1. senders \subseteq Nodes /\ Cardinality(senders) >= Cardinality(Nodes)
  BY DEF CountsSenders, Await, Ready, Answer
<1>2. /\ Cardinality(senders) <= Cardinality(Nodes)
      /\ Cardinality(senders) = Cardinality(Nodes) => senders = Nodes
  BY <1>1, KeygenAssumption, FS_Subset
<1>3. Cardinality(senders) \in Nat /\ Cardinality(Nodes) \in Nat
  BY <1>1, KeygenAssumption, FS_Subset, FS_CardinalityType
<1> QED BY <1>1, <1>2, <1>3

\* A sender that posts to a round for the first time keeps the count right.
LEMMA FirstPostCounts ==
    ASSUME NEW round, NEW posted, NEW n \in Nodes, NEW data,
           CountsSenders(posted), CountsSenders(round),
           n \notin DOMAIN Answer(relay, posted),
           relay' = Post(relay, posted, n, data)
    PROVE  CountsSenders(round)'
<1> DEFINE before == DOMAIN Answer(relay, posted)
           after  == DOMAIN Answer(relay, posted)'
<1>1. CASE round = posted
  <2>1. after = before \cup {n} /\ RoundOf(relay, posted).count' = RoundOf(relay, posted).count + 1
    BY PostToRound, PostCounts
  <2>2. IsFiniteSet(before)
    BY KeygenAssumption, FS_Subset DEF CountsSenders, Answer
  <2>3. Cardinality(after) = Cardinality(before) + 1
    BY <2>1, <2>2, FS_AddElement
  <2>4. RoundOf(relay, posted).count' = Cardinality(after)
    BY <2>1, <2>3 DEF CountsSenders, Answer
  <2>5. Answer(relay, posted)' = [p \in after |-> Answer(relay, posted)'[p]]
    BY PostCounts
  <2>6. after \subseteq Nodes
    BY <2>1 DEF CountsSenders, Answer
  <2> QED BY <1>1, <2>4, <2>5, <2>6 DEF CountsSenders, Answer
<1>2. CASE round # posted
  BY <1>2, PostElsewhere DEF CountsSenders
<1> QED BY <1>1, <1>2

-----------------------------------------------------------------------------
\* The invariant holds initially, and every action preserves it.

LEMMA KeygenInit == Init => IInv
<1> SUFFICES ASSUME Init PROVE IInv
  OBVIOUS
<1>1. \A round : RoundOf(relay, round) = EmptyRound
  BY DEF Init, EmptyStore, RoundOf
<1>2. \A round : CountsSenders(round)
  BY <1>1, FS_EmptySet DEF CountsSenders, EmptyRound, EmptyStore
<1>3. PostedByPresentLives
  BY <1>1 DEF PostedByPresentLives, Answer, EmptyRound, EmptyStore
<1> QED BY <1>2, <1>3 DEF IInv, Init, Shapes, Labels, EverybodyAcknowledged

LEMMA CommitStep ==
    ASSUME IInv, NEW n \in Nodes, Commit(n)
    PROVE  IInv'
<1> USE DEF Goto, CommitRound, RevealRound
<1>1. relay' = Post(relay, CommitRound, n, Share(n)) /\ pc[n] = "generate"
  BY DEF Commit, Commitment
<1>2. n \notin DOMAIN Answer(relay, CommitRound)
  BY <1>1 DEF IInv, PostedByPresentLives
<1>3. CountsSenders(CommitRound)' /\ CountsSenders(RevealRound)'
  BY <1>1, <1>2, FirstPostCounts DEF IInv
<1>4. /\ DOMAIN Answer(relay, CommitRound)' = DOMAIN Answer(relay, CommitRound) \cup {n}
      /\ Answer(relay, CommitRound)'[n] = Share(n)
      /\ \A p \in DOMAIN Answer(relay, CommitRound) :
            p # n => Answer(relay, CommitRound)'[p] = Answer(relay, CommitRound)[p]
  BY <1>1, PostToRound
<1>5. Answer(relay, RevealRound)' = Answer(relay, RevealRound)
  BY <1>1, AnswerElsewhere
<1>6. Shapes'
  BY DEF IInv, Shapes, Labels, Commit
<1>7. PostedByPresentLives'
  BY <1>1, <1>4, <1>5 DEF IInv, Shapes, PostedByPresentLives, Commit, Share, Up
<1>8. EverybodyAcknowledged'
  BY <1>1, <1>2, <1>4 DEF IInv, Shapes, EverybodyAcknowledged, Commit, Share
<1> QED BY <1>3, <1>6, <1>7, <1>8 DEF IInv

LEMMA ReadCommitmentsStep ==
    ASSUME IInv, NEW n \in Nodes, ReadCommitments(n)
    PROVE  IInv'
<1> USE DEF Goto, CommitRound, RevealRound
<1> DEFINE all == Answer(relay, CommitRound)
<1>1. DOMAIN all = Nodes
  BY AwaitFindsEveryone DEF IInv, ReadCommitments
<1>2. all = [p \in Nodes |-> Share(p)]
  BY <1>1 DEF IInv, CountsSenders, PostedByPresentLives, Answer
<1>3. /\ ack' = [ack EXCEPT ![n] = all] /\ pc' = [pc EXCEPT ![n] = "reveal"]
      /\ UNCHANGED <<relay, life, key, clean>> /\ pc[n] = "commit"
  BY <1>1, <1>2 DEF ReadCommitments, Commitment
<1>4. Shapes'
  BY <1>3 DEF IInv, Shapes, Labels
<1>5. CountsSenders(CommitRound)' /\ CountsSenders(RevealRound)'
  BY <1>3 DEF IInv, CountsSenders
<1>6. PostedByPresentLives'
  BY <1>3 DEF IInv, Shapes, PostedByPresentLives, Share, Up
<1>7. EverybodyAcknowledged'
  BY <1>1, <1>2, <1>3 DEF IInv, Shapes, EverybodyAcknowledged, Share
<1> QED BY <1>4, <1>5, <1>6, <1>7 DEF IInv

LEMMA RevealStep ==
    ASSUME IInv, NEW n \in Nodes, Reveal(n)
    PROVE  IInv'
<1> USE DEF Goto, CommitRound, RevealRound
<1>1. /\ relay' = Post(relay, RevealRound, n, Decommitment(n))
      /\ pc[n] = "reveal" /\ pc' = [pc EXCEPT ![n] = "reading"]
      /\ UNCHANGED <<life, ack, key, clean>>
  BY DEF Reveal
<1>2. n \notin DOMAIN Answer(relay, RevealRound)
  BY <1>1 DEF IInv, PostedByPresentLives
<1>3. CountsSenders(CommitRound)' /\ CountsSenders(RevealRound)'
  BY <1>1, <1>2, FirstPostCounts DEF IInv
<1>4. /\ DOMAIN Answer(relay, RevealRound)' = DOMAIN Answer(relay, RevealRound) \cup {n}
      /\ Answer(relay, RevealRound)'[n] = Decommitment(n)
      /\ \A p \in DOMAIN Answer(relay, RevealRound) :
            p # n => Answer(relay, RevealRound)'[p] = Answer(relay, RevealRound)[p]
  BY <1>1, PostToRound
<1>5. Answer(relay, CommitRound)' = Answer(relay, CommitRound)
  BY <1>1, AnswerElsewhere
<1>6. Shapes'
  BY <1>1 DEF IInv, Shapes, Labels
<1>7. PostedByPresentLives'
  BY <1>1, <1>4, <1>5
  DEF IInv, Shapes, PostedByPresentLives, Share, Up, Decommitment
<1>8. EverybodyAcknowledged'
  BY <1>1, <1>5 DEF IInv, Shapes, EverybodyAcknowledged, Share
<1> QED BY <1>3, <1>6, <1>7, <1>8 DEF IInv

LEMMA ReadDecommitmentsStep ==
    ASSUME IInv, NEW n \in Nodes, ReadDecommitments(n)
    PROVE  IInv'
<1> USE DEF Goto, CommitRound, RevealRound
<1> DEFINE all == Answer(relay, RevealRound)
<1>1. DOMAIN all = Nodes
  BY AwaitFindsEveryone DEF IInv, ReadDecommitments
<1>2. [p \in DOMAIN all |-> all[p].X] = [p \in Nodes |-> Share(p)]
  BY <1>1 DEF IInv, PostedByPresentLives
<1>3. /\ key' = [key EXCEPT ![n] = [p \in Nodes |-> Share(p)]]
      /\ pc[n] = "reading" /\ pc' = [pc EXCEPT ![n] = "menu"]
      /\ UNCHANGED <<relay, life, ack, clean>>
  BY <1>2 DEF ReadDecommitments
<1>4. Shapes'
  BY <1>3 DEF IInv, Shapes, Labels
<1>5. CountsSenders(CommitRound)' /\ CountsSenders(RevealRound)'
  BY <1>3 DEF IInv, CountsSenders
<1>6. PostedByPresentLives'
  BY <1>3 DEF IInv, Shapes, PostedByPresentLives, Share, Up
<1>7. EverybodyAcknowledged'
  BY <1>3 DEF IInv, Shapes, EverybodyAcknowledged, Share
<1> QED BY <1>4, <1>5, <1>6, <1>7 DEF IInv

LEMMA StopStep ==
    ASSUME IInv, NEW n \in Nodes, StopNode(n)
    PROVE  IInv'
<1>1. /\ pc' = [pc EXCEPT ![n] = "down"]
      /\ ack' = [ack EXCEPT ![n] = NoMap] /\ key' = [key EXCEPT ![n] = NoMap]
      /\ clean' = FALSE
      /\ UNCHANGED <<relay, life>>
  BY DEF StopNode, Goto
<1>2. Shapes'
  BY <1>1 DEF IInv, Shapes, Labels
<1>3. CountsSenders(CommitRound)' /\ CountsSenders(RevealRound)'
  BY <1>1 DEF IInv, CountsSenders
<1>4. PostedByPresentLives'
  BY <1>1 DEF IInv, Shapes, PostedByPresentLives, Share, Up
<1>5. EverybodyAcknowledged'
  BY <1>1 DEF IInv, Shapes, EverybodyAcknowledged, Share
<1> QED BY <1>2, <1>3, <1>4, <1>5 DEF IInv

LEMMA ResetRelayStep ==
    ASSUME IInv, ResetRelay
    PROVE  IInv'
<1>1. /\ \A n \in Nodes : pc[n] = "down"
      /\ relay' = EmptyStore /\ clean' = TRUE
      /\ UNCHANGED <<pc, life, ack, key>>
  BY DEF ResetRelay, Reset, Up
<1>2. /\ RoundOf(relay, CommitRound)' = EmptyRound
      /\ RoundOf(relay, RevealRound)' = EmptyRound
  BY <1>1 DEF EmptyStore, RoundOf
<1>3. CountsSenders(CommitRound)' /\ CountsSenders(RevealRound)'
  BY <1>2, FS_EmptySet DEF CountsSenders, EmptyRound, EmptyStore
<1>4. PostedByPresentLives'
  BY <1>2 DEF PostedByPresentLives, Answer, EmptyRound, EmptyStore
<1>5. EverybodyAcknowledged'
  BY <1>1 DEF EverybodyAcknowledged
<1>6. Shapes'
  BY <1>1 DEF IInv, Shapes
<1> QED BY <1>3, <1>4, <1>5, <1>6 DEF IInv

\* The new life begins on a relay that holds nothing of the old one, so nobody
\* has acknowledged, let alone stored, the share it replaces.
LEMMA StartStep ==
    ASSUME Tidy, IInv, NEW n \in Nodes, Start(n)
    PROVE  IInv'
<1> USE DEF CommitRound, RevealRound
<1>1. /\ clean /\ pc[n] = "down"
      /\ life' = [life EXCEPT ![n] = @ + 1] /\ pc' = [pc EXCEPT ![n] = "generate"]
      /\ UNCHANGED <<relay, ack, key, clean>>
  BY DEF Start, Up, Goto
<1>2. n \notin DOMAIN Answer(relay, CommitRound) /\ n \notin DOMAIN Answer(relay, RevealRound)
  BY <1>1 DEF IInv, PostedByPresentLives, Up
<1>3. Shapes'
  BY <1>1 DEF IInv, Shapes, Labels
<1>4. CountsSenders(CommitRound)' /\ CountsSenders(RevealRound)'
  BY <1>1 DEF IInv, CountsSenders
<1>5. \A p \in Nodes : p # n => Share(p)' = Share(p) /\ pc'[p] = pc[p]
  BY <1>1 DEF IInv, Shapes, Share
<1>6. PostedByPresentLives'
  BY <1>1, <1>2, <1>5 DEF IInv, CountsSenders, Answer, PostedByPresentLives, Up
<1>7. \A p \in Nodes : pc'[p] \notin {"reveal", "reading", "menu"}
  BY <1>1, <1>2, <1>5 DEF IInv, Shapes, EverybodyAcknowledged
<1>8. EverybodyAcknowledged'
  BY <1>7 DEF EverybodyAcknowledged
<1> QED BY <1>3, <1>4, <1>6, <1>8 DEF IInv

LEMMA KeygenNext ==
    ASSUME Tidy, IInv, [Next]_vars
    PROVE  IInv'
<1>1. ASSUME NEW n \in Nodes, Commit(n) PROVE IInv'
  BY <1>1, CommitStep
<1>2. ASSUME NEW n \in Nodes, ReadCommitments(n) PROVE IInv'
  BY <1>2, ReadCommitmentsStep
<1>3. ASSUME NEW n \in Nodes, Reveal(n) PROVE IInv'
  BY <1>3, RevealStep
<1>4. ASSUME NEW n \in Nodes, ReadDecommitments(n) PROVE IInv'
  BY <1>4, ReadDecommitmentsStep
<1>5. ASSUME NEW n \in Nodes, Stop(n) \/ StopToo(n) PROVE IInv'
  BY <1>5, StopStep DEF Stop, StopToo
<1>6. CASE ResetRelay
  BY <1>6, ResetRelayStep
<1>7. ASSUME NEW n \in Nodes, Start(n) PROVE IInv'
  BY <1>7, StartStep
<1>8. CASE UNCHANGED vars
  BY <1>8 DEF vars, IInv, Shapes, CountsSenders, PostedByPresentLives,
              EverybodyAcknowledged, Answer, RoundOf, Share, Up
<1> QED
  BY <1>1, <1>2, <1>3, <1>4, <1>5, <1>6, <1>7, <1>8 DEF Next, NodeStep, OperatorStep

LEMMA KeygenInvariant == ASSUME Tidy PROVE Spec => []IInv
<1>1. Init => IInv
  BY KeygenInit
<1>2. IInv /\ [Next]_vars => IInv'
  BY KeygenNext
<1> QED BY <1>1, <1>2, PTL DEF Spec

-----------------------------------------------------------------------------

\* When the operator restarts all nodes together on a reset relay, the nodes at
\* the menu hold one and the same key, with the present share of every node
\* (run of keygen_orchestrator.cpp over relay_server.py).
THEOREM TidyKeysAgree == ASSUME Tidy PROVE Spec => []KeysAgree
<1>1. IInv => KeysAgree
  BY DEF IInv, EverybodyAcknowledged, KeysAgree
<1> QED BY <1>1, KeygenInvariant, PTL

\* Under the same restarts no share enters a key that was not committed to
\* before shares were revealed, although run never opens a commitment.
THEOREM TidySharesWereCommitted == ASSUME Tidy PROVE Spec => []KeySharesWereCommitted
<1>1. IInv => KeySharesWereCommitted
  BY DEF IInv, EverybodyAcknowledged, KeySharesWereCommitted
<1> QED BY <1>1, KeygenInvariant, PTL

\* And counting messages is enough: what the README says of a completed poll,
\* and a restart without reset refutes, is true of tidy ones.
THEOREM TidyAwaitMeansEveryone == ASSUME Tidy PROVE Spec => AwaitMeansEveryone
<1> DEFINE FoundEveryone ==
        \A n \in Nodes :
            /\ pc[n] = "commit" /\ ReadCommitments(n)
               => DOMAIN Answer(relay, "keygen_commit_phase") = Nodes
            /\ pc[n] = "reading" /\ ReadDecommitments(n)
               => DOMAIN Answer(relay, "keygen_reveal_phase") = Nodes
<1>1. IInv => FoundEveryone
  BY AwaitFindsEveryone
  DEF IInv, ReadCommitments, ReadDecommitments, CommitRound, RevealRound
<1> QED BY <1>1, KeygenInvariant, PTL DEF AwaitMeansEveryone
=============================================================================
