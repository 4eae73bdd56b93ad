--------------------------- MODULE MCRaftCluster ---------------------------
(* RaftCluster on small instances *)
EXTENDS RaftCluster, TLC

Start(established, stranded, left) ==
    [established |-> established, stranded |-> stranded,
     spent |-> [e \in Events |-> Bound[e] - (IF e \in DOMAIN left THEN left[e] ELSE 0)]]

\* A new cluster with three campaigns, or with two and with crashes
NewCluster ==
    {Start(FALSE, 0, [campaign |-> 3]), Start(FALSE, 0, [campaign |-> 2, crash |-> 2])}

\* A running cluster: two campaigns and a command, two commands, or a
\* leader with two stranded commands, heartbeats and a campaign
RunningCluster ==
    {Start(TRUE, 0, [campaign |-> 2, command |-> 1]), Start(TRUE, 0, [command |-> 2]),
     Start(TRUE, 2, [campaign |-> 1, heartbeat |-> 1])}

\* A new cluster with one campaign, and heartbeats, a campaign by a Candidate
\* of the past, or restarts of each sort
EveryOption ==
    {Start(FALSE, 0, [campaign |-> 1, heartbeat |-> 1]),
     Start(FALSE, 0, [campaign |-> 1, stale |-> 1]),
     Start(FALSE, 0, [campaign |-> 1, crash |-> 1, torn |-> 1, stop |-> 1])}

\* A new cluster in which every event happens as often as its bound allows
AllBounds == {Start(FALSE, 0, Bound)}

\* The nodes are interchangeable: no action or property names one of them
NodeSymmetry == Permutations(Node) \cup Permutations(Command)

\* Messages whose handling changes nothing, now or later, without pre-vote or slow sends:
\* the receiver has left the term or the role the response was meant for
Dead(m) ==
    \/ /\ m.type = "VoteResponse"
       /\ ~m.vote \/ m.term < term[m.to] \/ role[m.to] # "CANDIDATE"
    \/ /\ m.type = "AppendResponse"
       /\ m.term <= term[m.to]
       /\ m.request.term < term[m.to] \/ role[m.to] # "LEADER"

\* States that differ in dead messages only have the same futures
LiveView ==
    <<term, votedFor, log, commit, applied, ran, role, cand, lead, task, deaf,
      {m \in msgs : ~Dead(m)}, grants, chosen, spent>>
=============================================================================
