------------------------ MODULE RaftElectionProofs -------------------------
(***************************************************************************)
(* Election safety of RaftCluster, for every cluster size, with pre-vote   *)
(* off and campaigns sent before the first answer is handled.  Two leaders *)
(* of one term need a vote given for a term the voter had already left, or *)
(* a vote given twice; and a vote is given once in each stay in a term     *)
(* unless voted_for is cleared by a graceful stop, by a crash inside       *)
(* leader_lost or by the timer of a Leader that resigned.                  *)
(***************************************************************************)
EXTENDS RaftClusterProofs

\* No campaign is under way, and no timer is that of a former Candidate
TimersPlain ==
    \A i \in Node : task[i].kind = "role" \/ (UseCheckQuorum /\ task[i].kind = "resigned")

\* A node that has given a vote in its current term has been a follower since
GrantsPast ==
    \A g \in grants :
        /\ g.local <= term[g.voter]
        /\ g.local = term[g.voter] => role[g.voter] = "FOLLOWER"

\* ... and the vote is still recorded in voted_for
VotesKept ==
    \A g \in grants : g.local = term[g.voter] => votedFor[g.voter] = g.cand

\* j has voted for i in term t
Voted(j, i, t) == \E g \in grants : g.voter = j /\ g.cand = i /\ g.term = t

\* Every yes on its way, counted by a candidate or behind a leader was given
VotesBacked ==
    \A m \in msgs : m.type = "VoteResponse" /\ m.vote => Voted(m.from, m.to, m.term)

CandidatesBacked ==
    \A i \in Node : role[i] = "CANDIDATE" =>
        /\ cand[i].voters = Node
        /\ \A j \in cand[i].yes : j = i \/ Voted(j, i, term[i])

LeadersBacked ==
    \A i \in Node : role[i] = "LEADER" =>
        \E Q \in SUBSET Node : Wins(Q, Node) /\ \A j \in Q : j = i \/ Voted(j, i, term[i])

\* What a leader rests on, whatever becomes of voted_for
BackedInv == GrantsPast /\ VotesBacked /\ CandidatesBacked /\ LeadersBacked

\* What makes a vote unique
StayInv == OneGrantPerStay /\ VotesKept

\* Nothing new is a yes vote
NoNewVote == \A x \in msgs' : x \in msgs \/ ~(x.type = "VoteResponse" /\ x.vote)

\* A step in which node i is in term t afterwards, a follower with v in voted_for
Falls(i, t, v) ==
    /\ LoseRole(i)
    /\ term' = [term EXCEPT ![i] = t]
    /\ votedFor' = [votedFor EXCEPT ![i] = v]
    /\ UNCHANGED grants
    /\ NoNewVote

\* ... and has not forgotten a vote given in this term
Remembers(i, t, v) == t > term[i] \/ (t = term[i] /\ (role[i] # "FOLLOWER" \/ v = votedFor[i]))

\* A majority of the candidates' kind meets any quorum of the kind that
\* commits (tally > n / 2 against math.ceil(n / 2)).
THEOREM ElectionMeetsCommit ==
    ASSUME NEW yes \in SUBSET Node, NEW ayes \in SUBSET Node,
           Wins(yes, Node), Cardinality(ayes) >= CommitQuorum
    PROVE  yes \cap ayes # {}
<1>1. IsFiniteSet(Node) /\ Cardinality(Node) \in Nat
  BY NodeAssumption, FS_CardinalityType, Zenon
<1>2. Cardinality(yes) \in Nat /\ Cardinality(ayes) \in Nat
  BY <1>1, FS_Subset, FS_CardinalityType, Zenon
<1>3. Cardinality(yes) + Cardinality(ayes) > Cardinality(Node)
  BY <1>1, <1>2 DEF Wins, CommitQuorum
<1> QED BY <1>1, <1>3, FS_MajoritiesIntersect, Zenon

\* Two election majorities meet.
LEMMA ElectionsMeet ==
    ASSUME NEW Q \in SUBSET Node, NEW R \in SUBSET Node, Wins(Q, Node), Wins(R, Node)
    PROVE  Q \cap R # {}
<1>1. IsFiniteSet(Node) /\ Cardinality(Node) \in Nat
  BY NodeAssumption, FS_CardinalityType, Zenon
<1>2. Cardinality(Q) \in Nat /\ Cardinality(R) \in Nat
  BY <1>1, FS_Subset, FS_CardinalityType, Zenon
<1>3. Cardinality(Q) + Cardinality(R) > Cardinality(Node)
  BY <1>1, <1>2 DEF Wins
<1> QED BY <1>1, <1>3, FS_MajoritiesIntersect, Zenon

\* The initial states.
LEMMA InitElection == Init => TimersPlain /\ BackedInv /\ StayInv
<1> SUFFICES ASSUME Init PROVE TimersPlain /\ BackedInv /\ StayInv
  OBVIOUS
<1>1. TypeOK /\ NodeAssumption /\ msgs = {}
  BY InitInd, NodeAssumption, Zenon DEF IndInv, Init
<1>2. VotesBacked
  BY <1>1, Zenon DEF VotesBacked
<1>t. TimersPlain
  BY DEF Init, TimersPlain, RoleTask
<1>3. CASE Created
  <2>1. grants = {} /\ role = [i \in Node |-> "FOLLOWER"]
    BY <1>3, Zenon DEF Created
  <2> QED BY <1>2, <1>t, <2>1, Zenon
      DEF BackedInv, StayInv, OneGrantPerStay, GrantsPast, VotesKept, CandidatesBacked,
          LeadersBacked
<1>4. CASE \E s \in Starts : Running(s.stranded)
  <2>1. PICK first \in Node :
            /\ term = [i \in Node |-> 1]
            /\ votedFor = [i \in Node |-> IF i = first THEN None ELSE first]
            /\ role = [i \in Node |-> IF i = first THEN "LEADER" ELSE "FOLLOWER"]
            /\ grants = {[voter |-> i, local |-> 1, cand |-> first, term |-> 1] :
                            i \in Others(first)}
    BY <1>4, Zenon DEF Running
  <2>2. OneGrantPerStay /\ GrantsPast /\ VotesKept
    <3>1. \A g \in grants : /\ g.voter \in Node /\ g.voter # first
                            /\ g = [voter |-> g.voter, local |-> 1, cand |-> first, term |-> 1]
      BY <2>1 DEF Others
    <3>2. OneGrantPerStay
      BY <3>1, Zenon DEF OneGrantPerStay
    <3>3. ASSUME NEW g \in grants
          PROVE  /\ g.local <= term[g.voter] /\ role[g.voter] = "FOLLOWER"
                 /\ votedFor[g.voter] = g.cand
      <4>1. g.local = 1 /\ g.cand = first /\ g.voter \in Node /\ g.voter # first
        BY <3>1
      <4> QED BY <2>1, <4>1
    <3> QED BY <3>2, <3>3, Zenon DEF GrantsPast, VotesKept
  <2>3. CandidatesBacked
    BY <2>1, Zenon DEF CandidatesBacked
  <2>4. Wins(Node, Node)
    <3>1. IsFiniteSet(Node) /\ Cardinality(Node) \in Nat /\ Cardinality(Node) # 0
      BY NodeAssumption, FS_CardinalityType, FS_EmptySet, Zenon
    <3> QED BY <3>1 DEF Wins
  <2>5. \A j \in Node : j = first \/ Voted(j, first, 1)
    <3> SUFFICES ASSUME NEW j \in Node, j # first PROVE Voted(j, first, 1)
      OBVIOUS
    <3>1. [voter |-> j, local |-> 1, cand |-> first, term |-> 1] \in grants
      BY <2>1, Zenon DEF Others
    <3> QED BY <3>1, Zenon DEF Voted
  <2>6. LeadersBacked
    BY <2>1, <2>4, <2>5, Zenon DEF LeadersBacked
  <2> QED BY <1>2, <1>t, <2>2, <2>3, <2>6, Zenon DEF BackedInv, StayInv
<1> QED BY <1>3, <1>4, Zenon DEF Init

\* Steps that leave the election state alone, voted_for apart.
LEMMA QuietBacked ==
    ASSUME BackedInv, UNCHANGED <<term, role, cand, grants>>, NoNewVote
    PROVE  BackedInv'
BY DEF BackedInv, GrantsPast, VotesBacked, CandidatesBacked, LeadersBacked, Voted, NoNewVote

\* Steps that leave voted_for alone as well.
LEMMA QuietStay ==
    ASSUME StayInv, UNCHANGED <<term, votedFor, grants>>
    PROVE  StayInv'
BY DEF StayInv, OneGrantPerStay, VotesKept

\* A node stops its role, in its term or for a later one.
LEMMA FallBacked ==
    ASSUME TypeOK, BackedInv, NEW i \in Node, NEW t \in Nat, NEW v, Falls(i, t, v), t >= term[i]
    PROVE  BackedInv'
<1>1. /\ \A j \in Node : j # i => /\ term'[j] = term[j] /\ role'[j] = role[j]
                                  /\ cand'[j] = cand[j]
      /\ term'[i] = t /\ role'[i] = "FOLLOWER" /\ term[i] \in Nat
      /\ UNCHANGED grants /\ NoNewVote
  BY Zenon DEF Falls, LoseRole, TypeOK
<1>2. \A g \in grants : g.voter \in Node /\ g.local \in Nat
  BY Zenon DEF TypeOK
<1>3. GrantsPast'
  <2> SUFFICES ASSUME NEW g \in grants
               PROVE  /\ g.local <= term'[g.voter]
                      /\ g.local = term'[g.voter] => role'[g.voter] = "FOLLOWER"
    BY <1>1, Zenon DEF GrantsPast
  <2>1. /\ g.local <= term[g.voter]
        /\ g.local = term[g.voter] => role[g.voter] = "FOLLOWER"
    BY Zenon DEF BackedInv, GrantsPast
  <2>2. CASE g.voter # i
    BY <1>1, <1>2, <2>1, <2>2, Zenon
  <2>3. CASE g.voter = i
    BY <1>1, <1>2, <2>1, <2>3
  <2> QED BY <2>2, <2>3, Zenon
<1>4. VotesBacked'
  BY <1>1, Zenon DEF BackedInv, VotesBacked, Voted, NoNewVote
<1>5. CandidatesBacked'
  BY <1>1 DEF BackedInv, CandidatesBacked, Voted
<1>6. LeadersBacked'
  BY <1>1 DEF BackedInv, LeadersBacked, Voted
<1> QED BY <1>3, <1>4, <1>5, <1>6, Zenon DEF BackedInv

\* It leaves the term, or was not a follower in it, or keeps voted_for.
LEMMA FallStay ==
    ASSUME TypeOK, BackedInv, StayInv, NEW i \in Node, NEW t \in Nat, NEW v,
           Falls(i, t, v), Remembers(i, t, v)
    PROVE  StayInv'
<1>1. /\ \A j \in Node : j # i => term'[j] = term[j] /\ votedFor'[j] = votedFor[j]
      /\ term'[i] = t /\ votedFor'[i] = v /\ term[i] \in Nat
      /\ UNCHANGED grants
  BY Zenon DEF Falls, TypeOK
<1>2. \A g \in grants : g.voter \in Node /\ g.local \in Nat
  BY Zenon DEF TypeOK
<1>3. OneGrantPerStay'
  BY <1>1, Zenon DEF StayInv, OneGrantPerStay
<1>4. VotesKept'
  <2> SUFFICES ASSUME NEW g \in grants, g.local = term'[g.voter]
               PROVE  votedFor'[g.voter] = g.cand
    BY <1>1, Zenon DEF VotesKept
  <2>1. /\ g.local <= term[g.voter]
        /\ g.local = term[g.voter] => role[g.voter] = "FOLLOWER" /\ votedFor[g.voter] = g.cand
    BY Zenon DEF BackedInv, GrantsPast, StayInv, VotesKept
  <2>2. CASE g.voter # i
    BY <1>1, <1>2, <2>1, <2>2, Zenon
  <2>3. CASE g.voter = i
    BY <1>1, <1>2, <2>1, <2>3 DEF Remembers
  <2> QED BY <2>2, <2>3, Zenon
<1> QED BY <1>3, <1>4, Zenon DEF StayInv

\* start_campaign_base: a new term, with one's own vote only.
LEMMA CampaignStep ==
    ASSUME TypeOK, BackedInv, NEW i \in Node, NEW votes \in VoteCounts, NEW kept,
           CampaignBase(i, votes, kept), UNCHANGED grants, NoNewVote,
           role' = [role EXCEPT ![i] = "CANDIDATE"],
           \A j \in Node : j # i => votedFor'[j] = votedFor[j]
    PROVE  BackedInv' /\ (StayInv => StayInv')
<1>1. /\ term' = [term EXCEPT ![i] = term[i] + 1]
      /\ cand' = [cand EXCEPT ![i] = [votes EXCEPT !.voters = Node, !.yes = {i}]]
  BY Zenon DEF CampaignBase
<1>2. /\ [votes EXCEPT !.voters = Node, !.yes = {i}].voters = Node
      /\ [votes EXCEPT !.voters = Node, !.yes = {i}].yes = {i}
  BY DEF VoteCounts
<1>3. /\ \A j \in Node : j # i => /\ term'[j] = term[j] /\ role'[j] = role[j]
                                  /\ cand'[j] = cand[j]
      /\ term'[i] = term[i] + 1 /\ term[i] \in Nat /\ role'[i] = "CANDIDATE"
      /\ cand'[i].voters = Node /\ cand'[i].yes = {i}
  BY <1>1, <1>2, Zenon DEF TypeOK
<1>4. \A g \in grants : g.voter \in Node /\ g.local \in Nat
  BY Zenon DEF TypeOK
<1>5. ASSUME NEW g \in grants
      PROVE  /\ g.local <= term'[g.voter]
             /\ g.local = term'[g.voter] => g.voter # i /\ role'[g.voter] = "FOLLOWER"
  <2>1. /\ g.local <= term[g.voter]
        /\ g.local = term[g.voter] => role[g.voter] = "FOLLOWER"
    BY Zenon DEF BackedInv, GrantsPast
  <2>2. CASE g.voter # i
    BY <1>3, <1>4, <2>1, <2>2, Zenon
  <2>3. CASE g.voter = i
    BY <1>3, <1>4, <2>1, <2>3
  <2> QED BY <2>2, <2>3, Zenon
<1>6. GrantsPast'
  BY <1>5, Zenon DEF GrantsPast
<1>7. VotesBacked'
  BY Zenon DEF BackedInv, VotesBacked, Voted, NoNewVote
<1>8. CandidatesBacked'
  BY <1>3 DEF BackedInv, CandidatesBacked, Voted
<1>9. LeadersBacked'
  BY <1>3 DEF BackedInv, LeadersBacked, Voted
<1>10. StayInv => StayInv'
  BY <1>3, <1>4, <1>5, Zenon DEF StayInv, OneGrantPerStay, VotesKept
<1> QED BY <1>6, <1>7, <1>8, <1>9, <1>10, Zenon DEF BackedInv

\* Follower.on_vote_request: a yes goes to a node that had not voted in the
\* term it is in.
LEMMA AnswerStep ==
    ASSUME TypeOK, BackedInv, NEW m \in msgs, AnswerVoteRequest(m)
    PROVE  BackedInv' /\ (StayInv => StayInv')
<1> DEFINE i == m.to
           t == Greater(term[i], m.term)
           yes == VoteStanding(i, m) = None /\ LogAcceptable(i, m)
           new == [voter |-> i, local |-> t, cand |-> m.from, term |-> m.term]
<1>1. m \in Message /\ m.type = "RequestVote"
  BY Zenon DEF TypeOK, AnswerVoteRequest
<1>2. i \in Node /\ m.from \in Node /\ m.term \in Nat /\ term[i] \in Nat
  BY <1>1, RequestFields, Zenon DEF TypeOK
<1>3. /\ role[i] = "FOLLOWER" \/ m.term > term[i]
      /\ LoseRole(i)
      /\ term' = [term EXCEPT ![i] = t]
      /\ votedFor' = [votedFor EXCEPT ![i] = IF yes THEN m.from ELSE VoteStanding(i, m)]
      /\ grants' = IF yes THEN grants \cup {new} ELSE grants
      /\ msgs' = (msgs \ {m}) \cup {VoteReply(m, yes)}
  BY Zenon DEF AnswerVoteRequest, BecomeFollower
<1>4. t \in Nat /\ (t > term[i] \/ (t = term[i] /\ m.term <= term[i]))
  BY <1>2 DEF Greater
<1>5. /\ VoteReply(m, yes).type = "VoteResponse" /\ VoteReply(m, yes).vote = yes
      /\ VoteReply(m, yes).from = i /\ VoteReply(m, yes).to = m.from
      /\ VoteReply(m, yes).term = m.term
  BY Zenon DEF VoteReply
<1>6. t = term[i] => VoteStanding(i, m) = votedFor[i] /\ role[i] = "FOLLOWER"
  BY <1>2, <1>3, <1>4 DEF VoteStanding, Greater
<1>7. t > term[i] => VoteStanding(i, m) = None
  BY <1>2, <1>4 DEF VoteStanding, Greater
<1>8. CASE ~yes
  <2>1. NoNewVote
    BY <1>3, <1>5, <1>8, Zenon DEF NoNewVote
  <2> HIDE DEF t
  <2>2. Falls(i, t, VoteStanding(i, m))
    <3> HIDE DEF yes
    <3> QED BY <1>3, <1>8, <2>1, Zenon DEF Falls
  <2>3. t >= term[i] /\ Remembers(i, t, VoteStanding(i, m))
    BY <1>2, <1>4, <1>6 DEF Remembers
  <2> QED BY <1>2, <1>4, <2>2, <2>3, FallBacked, FallStay, Zenon
<1>9. CASE yes
  <2>1. /\ votedFor' = [votedFor EXCEPT ![i] = m.from]
        /\ grants' = grants \cup {new}
        /\ VoteStanding(i, m) = None
    BY <1>3, <1>9, Zenon
  <2> HIDE DEF t, yes
  <2>2. /\ \A j \in Node : j # i => /\ term'[j] = term[j] /\ role'[j] = role[j]
                                    /\ votedFor'[j] = votedFor[j] /\ cand'[j] = cand[j]
        /\ term'[i] = t /\ role'[i] = "FOLLOWER" /\ votedFor'[i] = m.from
    BY <1>2, <1>3, <2>1, Zenon DEF LoseRole, TypeOK
  <2>3. \A g \in grants : g.voter \in Node /\ g.local \in Nat /\ g.cand \in Node
    BY Zenon DEF TypeOK
  <2>4. new.voter = i /\ new.local = t /\ new.cand = m.from /\ new.term = m.term
    OBVIOUS
  <2> HIDE DEF new
  <2>5. GrantsPast'
    <3> SUFFICES ASSUME NEW g \in grants'
                 PROVE  /\ g.local <= term'[g.voter]
                        /\ g.local = term'[g.voter] => role'[g.voter] = "FOLLOWER"
      BY Zenon DEF GrantsPast
    <3>1. CASE g = new
      BY <1>4, <2>2, <2>4, <3>1
    <3>2. CASE g \in grants /\ g.voter = i
      <4>1. g.local <= term[i]
        BY <3>2, Zenon DEF BackedInv, GrantsPast
      <4> QED BY <1>2, <1>4, <2>2, <2>3, <3>2, <4>1
    <3>3. CASE g \in grants /\ g.voter # i
      BY <2>2, <2>3, <3>3, Zenon DEF BackedInv, GrantsPast
    <3> QED BY <2>1, <3>1, <3>2, <3>3, Zenon
  <2>6. ASSUME StayInv PROVE StayInv'
    <3>1. ASSUME NEW g \in grants, g.voter = i PROVE g.local < t
      <4>1. /\ g.local <= term[i]
            /\ g.local = term[i] => votedFor[i] = g.cand
        BY <2>6, <3>1, Zenon DEF BackedInv, GrantsPast, StayInv, VotesKept
      <4>2. CASE t > term[i]
        BY <1>2, <1>4, <2>3, <4>1, <4>2
      <4>3. CASE t = term[i]
        <5>1. votedFor[i] = None
          BY <1>6, <2>1, <4>3, Zenon
        <5>2. g.local # term[i]
          BY <2>3, <4>1, <5>1, NodeAssumption, Zenon
        <5> QED BY <1>2, <2>3, <4>1, <4>3, <5>2
      <4> QED BY <1>4, <4>2, <4>3, Zenon
    <3>2. OneGrantPerStay'
      <4> SUFFICES ASSUME NEW g \in grants', NEW h \in grants',
                          g.voter = h.voter, g.local = h.local
                   PROVE  g = h
        BY Zenon DEF OneGrantPerStay
      <4>1. CASE g \in grants /\ h \in grants
        BY <2>6, <4>1, Zenon DEF StayInv, OneGrantPerStay
      <4>2. CASE g = new /\ h \in grants
        BY <1>4, <2>3, <2>4, <3>1, <4>2
      <4>3. CASE h = new /\ g \in grants
        BY <1>4, <2>3, <2>4, <3>1, <4>3
      <4> QED BY <2>1, <4>1, <4>2, <4>3, Zenon
    <3>3. VotesKept'
      <4> SUFFICES ASSUME NEW g \in grants', g.local = term'[g.voter]
                   PROVE  votedFor'[g.voter] = g.cand
        BY Zenon DEF VotesKept
      <4>1. CASE g = new
        BY <2>2, <2>4, <4>1, Zenon
      <4>2. CASE g \in grants /\ g.voter = i
        BY <1>4, <2>2, <2>3, <3>1, <4>2
      <4>3. CASE g \in grants /\ g.voter # i
        BY <2>2, <2>3, <2>6, <4>3, Zenon DEF StayInv, VotesKept
      <4> QED BY <2>1, <4>1, <4>2, <4>3, Zenon
    <3> QED BY <3>2, <3>3, Zenon DEF StayInv
  <2>7. \A j, k, s : Voted(j, k, s) => Voted(j, k, s)'
    BY <2>1, Zenon DEF Voted
  <2>8. VotesBacked'
    <3> SUFFICES ASSUME NEW x \in msgs', x.type = "VoteResponse", x.vote
                 PROVE  Voted(x.from, x.to, x.term)'
      BY Zenon DEF VotesBacked
    <3>1. CASE x \in msgs
      BY <2>7, <3>1, Zenon DEF BackedInv, VotesBacked
    <3>2. CASE x = VoteReply(m, yes)
      BY <1>5, <2>1, <2>4, <3>2, Zenon DEF Voted
    <3> QED BY <1>3, <3>1, <3>2, Zenon
  <2>9. CandidatesBacked'
    BY <2>2, <2>7 DEF BackedInv, CandidatesBacked
  <2>10. LeadersBacked'
    <3> SUFFICES ASSUME NEW k \in Node, role'[k] = "LEADER"
                 PROVE  \E Q \in SUBSET Node :
                            Wins(Q, Node) /\ \A j \in Q : j = k \/ Voted(j, k, term[k])'
      BY Zenon DEF LeadersBacked
    <3>1. role[k] = "LEADER" /\ term'[k] = term[k]
      BY <2>2, Zenon
    <3>2. PICK Q \in SUBSET Node : Wins(Q, Node) /\ \A j \in Q : j = k \/ Voted(j, k, term[k])
      BY <3>1, Zenon DEF BackedInv, LeadersBacked
    <3> QED BY <2>7, <3>1, <3>2, Zenon
  <2> QED BY <2>5, <2>6, <2>8, <2>9, <2>10, Zenon DEF BackedInv
<1> QED BY <1>8, <1>9, Zenon

\* Candidate.on_vote_response: what is counted was given, and a majority of
\* it makes the leader.
LEMMA CountStep ==
    ASSUME TypeOK, BackedInv, NEW m \in msgs, CountVote(m) \/ WinVote(m)
    PROVE  BackedInv' /\ (StayInv => StayInv')
<1> DEFINE i == m.to
           after == VotesAfter(i, m)
<1>1. m \in Message /\ m.type = "VoteResponse"
  BY Zenon DEF TypeOK, CountVote, WinVote
<1>2. i \in Node /\ m.from \in Node /\ m.term \in Nat /\ m.vote \in BOOLEAN
  BY <1>1, VoteResponseFields, Zenon
<1>3. role[i] = "CANDIDATE" /\ m.term = term[i] /\ UNCHANGED <<term, grants>>
  BY Zenon DEF CountVote, WinVote
<1>4. cand[i] \in VoteCounts
  BY <1>2, Zenon DEF TypeOK
<1>5. /\ after.voters = cand[i].voters \cup {m.from}
      /\ after.yes = IF m.vote THEN cand[i].yes \cup {m.from} ELSE cand[i].yes \ {m.from}
      /\ after.voters \subseteq Node /\ after.yes \subseteq Node
  BY <1>2, <1>4 DEF VotesAfter, VoteCounts
<1>6. /\ cand[i].voters = Node
      /\ \A j \in cand[i].yes : j = i \/ Voted(j, i, term[i])
  BY <1>2, <1>3, Zenon DEF BackedInv, CandidatesBacked
<1>7. m.vote => Voted(m.from, i, term[i])
  BY <1>1, <1>3, Zenon DEF BackedInv, VotesBacked
<1> HIDE DEF after
<1>8. after.voters = Node /\ \A j \in after.yes : j = i \/ Voted(j, i, term[i])
  BY <1>2, <1>5, <1>6, <1>7, Zenon
<1>9. \A j, k, s : Voted(j, k, s) <=> Voted(j, k, s)'
  BY <1>3, Zenon DEF Voted
<1>10. OneGrantPerStay => OneGrantPerStay'
  BY <1>3, Zenon DEF OneGrantPerStay
<1>11. \A g \in grants : g.voter \in Node
  BY Zenon DEF TypeOK
<1>12. CASE CountVote(m)
  <2>1. /\ cand' = [cand EXCEPT ![i] = after]
        /\ msgs' = msgs \ {m}
        /\ UNCHANGED <<votedFor, role>>
    BY <1>12, Zenon DEF CountVote, after
  <2>2. GrantsPast' /\ VotesBacked' /\ LeadersBacked' /\ (StayInv => StayInv')
    BY <1>3, <2>1 DEF BackedInv, GrantsPast, VotesBacked, LeadersBacked, Voted, StayInv,
                      OneGrantPerStay, VotesKept
  <2>3. CandidatesBacked'
    <3>1. \A j \in Node : cand'[j] = IF j = i THEN after ELSE cand[j]
      BY <1>2, <2>1, Zenon DEF TypeOK
    <3> QED BY <1>3, <1>8, <1>9, <2>1, <3>1 DEF BackedInv, CandidatesBacked
  <2> QED BY <2>2, <2>3, Zenon DEF BackedInv
<1>13. CASE WinVote(m)
  <2> DEFINE L == Append(log[i], [term |-> term[i], command |-> TermStart])
             sent == BroadcastMessages(i, term[i], L, Len(L), commit[i])
  <2>1. /\ Wins(after.yes, after.voters)
        /\ role' = [role EXCEPT ![i] = "LEADER"]
        /\ votedFor' = [votedFor EXCEPT ![i] = None]
        /\ cand' = [cand EXCEPT ![i] = NoCampaign]
        /\ msgs' = (msgs \ {m}) \cup sent
    BY <1>13, Zenon DEF WinVote, after
  <2>2. \A j \in Node : /\ role'[j] = IF j = i THEN "LEADER" ELSE role[j]
                        /\ j # i => votedFor'[j] = votedFor[j] /\ cand'[j] = cand[j]
    BY <1>2, <2>1, Zenon DEF TypeOK
  <2>3. ASSUME NEW g \in grants
        PROVE  /\ g.local <= term'[g.voter]
               /\ g.local = term'[g.voter] =>
                     role'[g.voter] = "FOLLOWER" /\ votedFor'[g.voter] = votedFor[g.voter]
    <3>1. /\ g.local <= term[g.voter]
          /\ g.local = term[g.voter] => role[g.voter] = "FOLLOWER"
      BY Zenon DEF BackedInv, GrantsPast
    <3> QED BY <1>3, <1>11, <2>2, <3>1, Zenon
  <2>4. GrantsPast'
    BY <1>3, <2>3, Zenon DEF GrantsPast
  <2>5. StayInv => StayInv'
    BY <1>3, <1>10, <2>3, Zenon DEF StayInv, VotesKept
  <2>6. VotesBacked'
    <3>1. \A x \in sent : x.type = "AppendEntries"
      BY DEF BroadcastMessages
    <3> HIDE DEF sent
    <3> QED BY <1>9, <2>1, <3>1, Zenon DEF BackedInv, VotesBacked
  <2>7. CandidatesBacked'
    BY <1>3, <1>9, <2>2, Zenon DEF BackedInv, CandidatesBacked
  <2>8. LeadersBacked'
    <3> SUFFICES ASSUME NEW k \in Node, role'[k] = "LEADER"
                 PROVE  \E Q \in SUBSET Node :
                            Wins(Q, Node) /\ \A j \in Q : j = k \/ Voted(j, k, term[k])
      BY <1>3, <1>9, Zenon DEF LeadersBacked
    <3>1. CASE k = i
      BY <1>5, <1>8, <2>1, <3>1, Zenon
    <3>2. CASE k # i
      BY <2>2, <3>2, Zenon DEF BackedInv, LeadersBacked
    <3> QED BY <3>1, <3>2, Zenon
  <2> QED BY <2>4, <2>5, <2>6, <2>7, <2>8, Zenon DEF BackedInv
<1> QED BY <1>12, <1>13, Zenon

\* A pre-vote tally does not touch the votes; a won one starts the campaign.
LEMMA CountPreVoteStep ==
    ASSUME TypeOK, BackedInv, NEW m \in msgs, CountPreVote(m)
    PROVE  BackedInv' /\ (StayInv => StayInv')
<1> DEFINE i == m.to
           votes == PreVotesAfter(i, m)
<1>1. m \in Message /\ m.type = "PreVoteResponse"
  BY Zenon DEF TypeOK, CountPreVote
<1>2. /\ i \in Node /\ m.from \in Node /\ role[i] = "CANDIDATE"
      /\ UNCHANGED <<votedFor, role, grants>>
  BY <1>1, VoteResponseFields, Zenon DEF CountPreVote
<1>3. cand[i] \in VoteCounts
  BY <1>2, Zenon DEF TypeOK
<1>4. votes \in VoteCounts /\ votes.voters = cand[i].voters /\ votes.yes = cand[i].yes
  BY <1>2, <1>3, Zenon DEF PreVotesAfter, VoteCounts
<1> HIDE DEF votes
<1>5. CASE CampaignBase(i, votes, msgs \ {m})
  <2>1. NoNewVote
    BY <1>5 DEF NoNewVote, VoteMessages, CampaignBase
  <2>2. role' = [role EXCEPT ![i] = "CANDIDATE"]
    BY <1>2, Zenon DEF TypeOK
  <2> QED BY <1>2, <1>4, <1>5, <2>1, <2>2, CampaignStep, Zenon
<1>6. CASE cand' = [cand EXCEPT ![i] = votes] /\ msgs' = msgs \ {m} /\ UNCHANGED term
  <2>1. \A j \in Node : cand'[j].voters = cand[j].voters /\ cand'[j].yes = cand[j].yes
    BY <1>2, <1>4, <1>6, Zenon DEF TypeOK
  <2>2. GrantsPast' /\ VotesBacked' /\ LeadersBacked'
    BY <1>2, <1>6 DEF BackedInv, GrantsPast, VotesBacked, LeadersBacked, Voted
  <2>3. CandidatesBacked'
    BY <1>2, <1>6, <2>1 DEF BackedInv, CandidatesBacked, Voted
  <2>4. StayInv => StayInv'
    BY <1>2, <1>6, QuietStay, Zenon
  <2> QED BY <2>2, <2>3, <2>4, Zenon DEF BackedInv
<1> QED BY <1>5, <1>6, Zenon DEF CountPreVote, votes

\* The handlers that neither vote nor count.
LEMMA QuietActions ==
    ASSUME \/ \E i \in Node : SendHeartbeats(i)
           \/ \E i \in Node, c \in Command : RunCommand(i, c)
           \/ \E m \in msgs : \/ RejectVoteRequest(m) \/ IgnoreVote(m) \/ AnswerPreVote(m)
                              \/ RejectAppend(m) \/ IgnoreAppendResponse(m)
                              \/ ResyncResponse(m) \/ BroadcastResponse(m)
    PROVE  UNCHANGED <<term, votedFor, role, cand, grants>> /\ NoNewVote
<1>1. CASE \E i \in Node : SendHeartbeats(i)
  <2>1. NoNewVote
    BY <1>1 DEF SendHeartbeats, NoNewVote, HeartbeatMessages
  <2> QED BY <1>1, <2>1, Zenon DEF SendHeartbeats
<1>2. CASE \E i \in Node, c \in Command : RunCommand(i, c)
  <2>1. NoNewVote
    <3>1. PICK i, t, L, index, c : msgs' = msgs \cup BroadcastMessages(i, t, L, index, c)
      BY <1>2, Zenon DEF RunCommand
    <3>2. \A x \in BroadcastMessages(i, t, L, index, c) : x.type = "AppendEntries"
      BY DEF BroadcastMessages
    <3> QED BY <3>1, <3>2, Zenon DEF NoNewVote
  <2> QED BY <1>2, <2>1, Zenon DEF RunCommand
<1>3. ASSUME NEW m \in msgs, RejectVoteRequest(m) \/ IgnoreVote(m) \/ AnswerPreVote(m)
      PROVE  UNCHANGED <<term, votedFor, role, cand, grants>> /\ NoNewVote
  <2>1. NoNewVote
    <3>1. CASE RejectVoteRequest(m)
      BY <3>1 DEF RejectVoteRequest, NoNewVote, VoteReply
    <3>2. CASE IgnoreVote(m)
      BY <3>2, Zenon DEF IgnoreVote, NoNewVote
    <3>3. CASE AnswerPreVote(m)
      <4>1. PICK yes : msgs' = (msgs \ {m}) \cup {PreVoteReply(m, yes)}
        BY <3>3, Zenon DEF AnswerPreVote
      <4> QED BY <4>1 DEF NoNewVote, PreVoteReply
    <3> QED BY <1>3, <3>1, <3>2, <3>3, Zenon
  <2> QED BY <1>3, <2>1, Zenon DEF RejectVoteRequest, IgnoreVote, AnswerPreVote
<1>4. ASSUME NEW m \in msgs, RejectAppend(m) \/ IgnoreAppendResponse(m)
      PROVE  UNCHANGED <<term, votedFor, role, cand, grants>> /\ NoNewVote
  <2>1. NoNewVote
    BY <1>4 DEF RejectAppend, IgnoreAppendResponse, NoNewVote, AppendReply
  <2> QED BY <1>4, <2>1, Zenon DEF RejectAppend, IgnoreAppendResponse
<1>5. ASSUME NEW m \in msgs, ResyncResponse(m) \/ BroadcastResponse(m)
      PROVE  UNCHANGED <<term, votedFor, role, cand, grants>> /\ NoNewVote
  <2>1. \A i, c : \A x \in CatchUp(i, m, c) \cup BackDown(i, m) : x.type = "AppendEntries"
    BY DEF CatchUp, BackDown, Fill
  <2>2. PICK more, c : /\ more \subseteq CatchUp(m.to, m, c) \cup BackDown(m.to, m)
                       /\ Answered(m.to, m, more)
    <3>1. CASE ResyncResponse(m)
      <4> DEFINE more == IF ~m.success THEN BackDown(m.to, m)
                         ELSE IF m.request.kind = "fill" THEN CatchUp(m.to, m, commit[m.to])
                         ELSE {}
      <4>1. Answered(m.to, m, more)
        BY <3>1, Zenon DEF ResyncResponse
      <4>2. more \subseteq CatchUp(m.to, m, commit[m.to]) \cup BackDown(m.to, m)
        OBVIOUS
      <4> QED BY <4>1, <4>2, Zenon
    <3>2. CASE BroadcastResponse(m)
      <4>1. PICK more : /\ more = {} \/ more = CatchUp(m.to, m, commit'[m.to])
                        /\ Answered(m.to, m, more)
        BY <3>2, Zenon DEF BroadcastResponse
      <4> QED BY <4>1, Zenon
    <3> QED BY <1>5, <3>1, <3>2, Zenon
  <2>3. NoNewVote
    BY <2>1, <2>2, Zenon DEF NoNewVote, Answered
  <2> QED BY <2>2, <2>3, Zenon DEF Answered
<1> QED BY <1>1, <1>2, <1>3, <1>4, <1>5, Zenon

\* The handlers that end a role and keep the vote as long as it counts.
LEMMA FallBackActions ==
    ASSUME TypeOK,
           \/ \E i \in Node : Resign(i) \/ Crash(i)
           \/ \E m \in msgs : \/ RefuseAppend(m) \/ DropConflict(m) \/ FailAppend(m)
                              \/ AcceptAppend(m) \/ StepDown(m) \/ YieldUnheard(m)
                              \/ CrashInTermExpired(m)
    PROVE  \E i \in Node, t \in Nat : \E v : Falls(i, t, v) /\ t >= term[i] /\ Remembers(i, t, v)
<1>1. ASSUME NEW i \in Node, Resign(i) \/ Crash(i)
      PROVE  \E v : Falls(i, term[i], v) /\ Remembers(i, term[i], v)
  <2>1. /\ LoseRole(i) /\ UNCHANGED <<grants, term>> /\ NoNewVote
        /\ term' = [term EXCEPT ![i] = term[i]]
    BY <1>1, Zenon DEF Resign, Crash, Restart, NoNewVote, TypeOK
  <2>2. CASE Resign(i)
    <3>1. votedFor' = [votedFor EXCEPT ![i] = None] /\ role[i] # "FOLLOWER"
      BY <2>2, Zenon DEF Resign
    <3> QED BY <2>1, <3>1, Zenon DEF Falls, Remembers
  <2>3. CASE Crash(i)
    <3>1. votedFor' = [votedFor EXCEPT ![i] = votedFor[i]]
      BY <2>3, Zenon DEF Crash, TypeOK
    <3> QED BY <2>1, <3>1, Zenon DEF Falls, Remembers
  <2> QED BY <1>1, <2>2, <2>3, Zenon
<1>2. \A i \in Node : term[i] \in Nat /\ term[i] >= term[i]
  BY DEF TypeOK
<1>3. ASSUME NEW m \in msgs, StepDown(m) \/ YieldUnheard(m) \/ CrashInTermExpired(m)
      PROVE  /\ m.to \in Node /\ m.term \in Nat /\ m.term >= term[m.to]
             /\ \E v : Falls(m.to, m.term, v) /\ Remembers(m.to, m.term, v)
  <2>1. m.to \in Node /\ m.term \in Nat
    BY Zenon DEF TypeOK, Message, AppendEntriesMessage, RequestMessage, VoteResponseMessage,
                 AppendResponseMessage
  <2>2. /\ LoseRole(m.to) /\ UNCHANGED grants /\ NoNewVote
        /\ m.term > term[m.to] \/ (m.term = term[m.to] /\ role[m.to] # "FOLLOWER")
        /\ term' = [term EXCEPT ![m.to] = m.term]
    BY <1>3, Zenon DEF StepDown, YieldUnheard, CrashInTermExpired, Restart, BecomeFollower, NoNewVote
  <2>3. PICK v : votedFor' = [votedFor EXCEPT ![m.to] = v]
    BY <1>3, Zenon DEF StepDown, YieldUnheard, CrashInTermExpired
  <2>4. m.term >= term[m.to]
    BY <1>2, <2>1, <2>2
  <2> QED BY <2>1, <2>2, <2>3, <2>4, Zenon DEF Falls, Remembers
<1>4. ASSUME NEW m \in msgs,
             RefuseAppend(m) \/ DropConflict(m) \/ FailAppend(m) \/ AcceptAppend(m)
      PROVE  \E i \in Node, t \in Nat : \E v :
                 Falls(i, t, v) /\ t >= term[i] /\ Remembers(i, t, v)
  <2> DEFINE i == m.to
             t == Greater(term[i], m.term)
             v == IF m.term > term[i] \/ role[i] # "FOLLOWER" THEN None ELSE votedFor[i]
  <2>1. AtFollower(m)
    BY <1>4, Zenon DEF RefuseAppend, DropConflict, FailAppend, AcceptAppend
  <2>2. NoNewVote
    BY <1>4 DEF NoNewVote, AppendReply, RefuseAppend, DropConflict, FailAppend, AcceptAppend,
                StoreAndAnswer
  <2>3. i \in Node /\ m.term \in Nat /\ term[i] \in Nat
    BY <2>1, AppendEntriesFields, Zenon DEF AtFollower, TypeOK
  <2>4. /\ LoseRole(i) /\ UNCHANGED grants
        /\ term' = [term EXCEPT ![i] = t]
        /\ votedFor' = [votedFor EXCEPT ![i] = v]
    BY <2>1, <2>3, Zenon DEF AtFollower, BecomeFollower, TypeOK
  <2>5. t \in Nat /\ t >= term[i] /\ (t > term[i] \/ (t = term[i] /\ m.term <= term[i]))
    BY <2>3 DEF Greater
  <2>6. m.term <= term[i] => role[i] # "FOLLOWER" \/ v = votedFor[i]
    BY <2>3
  <2> HIDE DEF t, v
  <2> QED BY <2>2, <2>3, <2>4, <2>5, <2>6, Zenon DEF Falls, Remembers
<1> QED BY <1>1, <1>2, <1>3, <1>4, Zenon

\* With sends that end at once no campaign stays under way.
LEMMA NextPlain ==
    ASSUME ~SlowSend, TypeOK, TimersPlain, [Next]_vars
    PROVE  TimersPlain'
<1>1. task \in [Node -> Tasks]
  BY Zenon DEF TypeOK, TimingOK
<1>2. ASSUME NEW i, NEW x, task' = [task EXCEPT ![i] = x],
             i \in Node => x.kind = "role" \/ (UseCheckQuorum /\ x.kind = "resigned")
      PROVE  TimersPlain'
  BY <1>1, <1>2, Zenon DEF TimersPlain
<1>3. RoleTask.kind = "role" /\ ResignedTask.kind = "resigned"
  BY DEF RoleTask, ResignedTask
<1>4. \A i \in Node : ~IsAsking(i) /\ task[i].kind # "stale"
  BY DEF TimersPlain, IsAsking
<1>5. CASE UNCHANGED task
  BY <1>5, Zenon DEF TimersPlain
<1>6. ASSUME NEW i \in Node, Campaign(i, NoCampaign) \/ Campaign(i, cand[i])
      PROVE  UNCHANGED task
  BY <1>6, Zenon DEF Campaign, CampaignAtOnce
<1>7. ASSUME NEW i \in Node, LeaderLost(i) \/ CampaignAgain(i) PROVE UNCHANGED task
  BY <1>6, <1>7, Zenon DEF LeaderLost, CampaignAgain
<1>8. ASSUME NEW i \in Node, (\E j \in Node : Ask(i, j)) \/ EndCampaign(i) \/ StaleCampaign(i)
      PROVE  FALSE
  BY <1>4, <1>8, Zenon DEF Ask, EndCampaign, StaleCampaign
<1>9. ASSUME NEW i \in Node,
             SendHeartbeats(i) \/ ResignAgain(i) \/ \E c \in Command : RunCommand(i, c)
      PROVE  UNCHANGED task
  BY <1>9, Zenon DEF SendHeartbeats, ResignAgain, RunCommand, timing
<1>10. ASSUME NEW i \in Node, Resign(i) PROVE TimersPlain'
  <2>1. UseCheckQuorum /\ task' = [task EXCEPT ![i] = ResignedTask]
    BY <1>10, Zenon DEF Resign
  <2> QED BY <1>2, <1>3, <2>1, Zenon
<1>11. ASSUME NEW i, Restart(i) PROVE TimersPlain'
  BY <1>2, <1>3, <1>11, Zenon DEF Restart
<1>12. ASSUME NEW i \in Node, BecomeFollower(i) PROVE TimersPlain'
  <2>1. PICK x \in {task[i], RoleTask} : task' = [task EXCEPT ![i] = x]
    BY <1>12, Zenon DEF BecomeFollower, TaskOfNewRole
  <2> QED BY <1>2, <1>3, <2>1, Zenon DEF TimersPlain
<1>13. ASSUME NEW m \in msgs
       PROVE  m.to \in Node
  BY Zenon DEF TypeOK, Message, AppendEntriesMessage, RequestMessage, VoteResponseMessage,
               AppendResponseMessage
<1>14. ASSUME NEW m \in msgs,
              \/ RejectVoteRequest(m) \/ CountVote(m) \/ IgnoreVote(m) \/ AnswerPreVote(m)
              \/ RejectAppend(m) \/ IgnoreAppendResponse(m)
       PROVE  UNCHANGED task
  BY <1>14, Zenon DEF RejectVoteRequest, CountVote, IgnoreVote, AnswerPreVote, RejectAppend,
                      IgnoreAppendResponse, timing
<1>15. ASSUME NEW m \in msgs, ResyncResponse(m) \/ BroadcastResponse(m) PROVE UNCHANGED task
  <2>1. \E more : Answered(m.to, m, more)
    BY <1>15, Zenon DEF ResyncResponse, BroadcastResponse
  <2> QED BY <2>1, Zenon DEF Answered, timing
<1>16. ASSUME NEW m \in msgs, WinVote(m) PROVE TimersPlain'
  <2>1. task' = [task EXCEPT ![m.to] = TaskOfNewRole(m.to)]
    BY <1>16, Zenon DEF WinVote
  <2>2. TaskOfNewRole(m.to) = RoleTask
    BY <1>4, <1>13, Zenon DEF TaskOfNewRole
  <2> QED BY <1>2, <1>3, <2>1, <2>2, Zenon
<1>17. ASSUME NEW m \in msgs, CountPreVote(m) PROVE TimersPlain'
  <2>1. CASE UNCHANGED task
    BY <1>5, <2>1, Zenon
  <2>2. CASE \E t : task' = [task EXCEPT ![m.to].term = t]
    <3>1. PICK t : task' = [task EXCEPT ![m.to] = [task[m.to] EXCEPT !.term = t]]
      BY <2>2, Zenon
    <3>2. [task[m.to] EXCEPT !.term = t].kind = task[m.to].kind
      BY <1>1, <1>13 DEF Tasks
    <3> QED BY <1>2, <1>13, <3>1, <3>2, Zenon DEF TimersPlain
  <2> QED BY <1>17, <2>1, <2>2, Zenon DEF CountPreVote
<1>18. ASSUME NEW m \in msgs,
              \/ AnswerVoteRequest(m) \/ RefuseAppend(m) \/ DropConflict(m) \/ FailAppend(m)
              \/ AcceptAppend(m) \/ StepDown(m) \/ YieldUnheard(m)
       PROVE  TimersPlain'
  <2>1. BecomeFollower(m.to)
    BY <1>18, Zenon DEF AnswerVoteRequest, RefuseAppend, DropConflict, FailAppend, AcceptAppend,
                        AtFollower, StepDown, YieldUnheard
  <2> QED BY <1>12, <1>13, <2>1, Zenon
<1>19. ASSUME \/ \E i \in Node : Crash(i) \/ CrashInLeaderLost(i) \/ StopAndRestart(i)
              \/ \E m \in msgs : CrashInTermExpired(m)
       PROVE  TimersPlain'
  BY <1>11, <1>19, Zenon DEF Crash, CrashInLeaderLost, StopAndRestart, CrashInTermExpired
<1>20. CASE Next
  BY <1>5, <1>7, <1>8, <1>9, <1>10, <1>14, <1>15, <1>16, <1>17, <1>18, <1>19, <1>20, Zenon
     DEF Next, Deliverable
<1>21. CASE UNCHANGED vars
  BY <1>5, <1>21, Zenon DEF vars
<1> QED BY <1>20, <1>21, Zenon

\* The steps that keep both invariants under every setting: all but the three
\* that clear voted_for of a follower in its term.
LEMMA CommonSteps ==
    ASSUME ~UsePreVote, ~SlowSend, TypeOK, TimersPlain, BackedInv, [Next]_vars,
           ~\E i \in Node : ResignAgain(i) \/ CrashInLeaderLost(i) \/ StopAndRestart(i)
    PROVE  BackedInv' /\ (StayInv => StayInv')
<1>1. ASSUME NEW i \in Node, LeaderLost(i) \/ CampaignAgain(i)
      PROVE  BackedInv' /\ (StayInv => StayInv')
  <2>1. NoCampaign \in VoteCounts /\ cand[i] \in VoteCounts
    BY Zenon DEF NoCampaign, VoteCounts, TypeOK
  <2>2. PICK votes \in VoteCounts : CampaignBase(i, votes, msgs)
    BY <1>1, <2>1, Zenon DEF LeaderLost, CampaignAgain, Campaign, CampaignAtOnce
  <2>3. NoNewVote
    BY <2>2 DEF NoNewVote, VoteMessages, CampaignBase
  <2>4. /\ role' = [role EXCEPT ![i] = "CANDIDATE"]
        /\ UNCHANGED grants
        /\ \A j \in Node : j # i => votedFor'[j] = votedFor[j]
    BY <1>1, Zenon DEF LeaderLost, CampaignAgain, TypeOK
  <2> QED BY <2>2, <2>3, <2>4, CampaignStep, Zenon
<1>2. ASSUME NEW i \in Node, (\E j \in Node : Ask(i, j)) \/ EndCampaign(i) \/ StaleCampaign(i)
      PROVE  FALSE
  BY <1>2, Zenon DEF Ask, EndCampaign, StaleCampaign, IsAsking, TimersPlain
<1>3. CASE UNCHANGED <<term, votedFor, role, cand, grants>> /\ NoNewVote
  BY <1>3, QuietBacked, QuietStay, Zenon
<1>4. CASE \E i \in Node, t \in Nat : \E v : Falls(i, t, v) /\ t >= term[i] /\ Remembers(i, t, v)
  BY <1>4, FallBacked, FallStay, Zenon
<1>5. CASE Next
  BY <1>1, <1>2, <1>3, <1>4, <1>5, QuietActions, FallBackActions, AnswerStep, CountStep,
     CountPreVoteStep, Zenon DEF Next, Deliverable
<1>6. CASE UNCHANGED vars
  BY <1>3, <1>6, Zenon DEF vars, NoNewVote
<1> QED BY <1>5, <1>6, Zenon

\* With pre-vote off and sends at once every step keeps what leaders rest on.
LEMMA NextBacked ==
    ASSUME ~UsePreVote, ~SlowSend, TypeOK, TimersPlain, BackedInv, [Next]_vars
    PROVE  BackedInv'
<1>1. ASSUME NEW i \in Node, ResignAgain(i) PROVE BackedInv'
  <2>1. UNCHANGED <<term, role, cand, grants>> /\ NoNewVote
    BY <1>1, Zenon DEF ResignAgain, NoNewVote
  <2> QED BY <2>1, QuietBacked, Zenon
<1>2. ASSUME NEW i \in Node, CrashInLeaderLost(i) \/ StopAndRestart(i) PROVE BackedInv'
  <2>1. term[i] \in Nat /\ term[i] >= term[i]
    BY DEF TypeOK
  <2>2. Falls(i, term[i], None)
    BY <1>2, Zenon DEF CrashInLeaderLost, StopAndRestart, Restart, Falls, NoNewVote, TypeOK
  <2> QED BY <2>1, <2>2, FallBacked, Zenon
<1> QED BY <1>1, <1>2, CommonSteps, Zenon

\* With the three clearing steps ruled out a vote stays unique.
LEMMA NextStay ==
    ASSUME ~UsePreVote, ~UseCheckQuorum, ~SlowSend, MaxStop = 0, MaxTorn = 0,
           TypeOK, TimersPlain, BackedInv, StayInv, [Next]_vars
    PROVE  StayInv'
<1>1. ASSUME NEW i \in Node, ResignAgain(i) PROVE FALSE
  BY <1>1 DEF ResignAgain, TimersPlain
<1>2. ASSUME NEW i \in Node, CrashInLeaderLost(i) PROVE FALSE
  BY <1>2 DEF CrashInLeaderLost, Spend, Bound, TypeOK, Events
<1>3. ASSUME NEW i \in Node, StopAndRestart(i) PROVE FALSE
  BY <1>3 DEF StopAndRestart, Spend, Bound, TypeOK, Events
<1> QED BY <1>1, <1>2, <1>3, CommonSteps, Zenon

\* The invariant is enough: leaders of one term share a voter, who voted for
\* both in the same stay, or is one of them and never was a follower in it.
LEMMA LeadersAgree ==
    ASSUME BackedInv
    PROVE  OneLeaderUnlessVoteMisused
<1> SUFFICES ASSUME NoStaleGrant, OneGrantPerStay, NEW i \in Node, NEW j \in Node,
                    role[i] = "LEADER", role[j] = "LEADER", term[i] = term[j]
             PROVE  i = j
  BY Zenon DEF OneLeaderUnlessVoteMisused, OneLeaderPerTerm
<1>1. PICK Q \in SUBSET Node : Wins(Q, Node) /\ \A k \in Q : k = i \/ Voted(k, i, term[i])
  BY Zenon DEF BackedInv, LeadersBacked
<1>2. PICK R \in SUBSET Node : Wins(R, Node) /\ \A k \in R : k = j \/ Voted(k, j, term[j])
  BY Zenon DEF BackedInv, LeadersBacked
<1>3. PICK k \in Q : k \in R
  BY <1>1, <1>2, ElectionsMeet, Zenon
<1>4. \A a \in Node : \A b : role[a] = "LEADER" => ~Voted(a, b, term[a])
  BY Zenon DEF Voted, NoStaleGrant, BackedInv, GrantsPast
<1>5. CASE k = i \/ k = j
  BY <1>1, <1>2, <1>3, <1>4, <1>5, Zenon
<1>6. CASE k # i /\ k # j
  <2>1. PICK g \in grants : g.voter = k /\ g.cand = i /\ g.term = term[i]
    BY <1>1, <1>3, <1>6, Zenon DEF Voted
  <2>2. PICK h \in grants : h.voter = k /\ h.cand = j /\ h.term = term[j]
    BY <1>2, <1>3, <1>6, Zenon DEF Voted
  <2>3. g = h
    BY <2>1, <2>2, Zenon DEF NoStaleGrant, OneGrantPerStay
  <2> QED BY <2>1, <2>2, <2>3, Zenon
<1> QED BY <1>5, <1>6, Zenon

\* With pre-vote and check-quorum off, no graceful Deck.stop, no crash inside
\* leader_lost and campaigns sent at once, a node grants one vote in each stay
\* in a term: no other place that clears voted_for does so while the vote still
\* counts, whatever other crashes there are (Follower.on_vote_request).
THEOREM VoteOncePerStay ==
    ASSUME ~UsePreVote, ~UseCheckQuorum, ~SlowSend, MaxStop = 0, MaxTorn = 0
    PROVE  Spec => []OneGrantPerStay
<1>1. Init => IndInv /\ TimersPlain /\ BackedInv /\ StayInv
  BY InitInd, InitElection, Zenon
<1>2. IndInv /\ TimersPlain /\ BackedInv /\ StayInv /\ [Next]_vars =>
          IndInv' /\ TimersPlain' /\ BackedInv' /\ StayInv'
  BY NextInd, NextPlain, NextBacked, NextStay, Zenon DEF IndInv
<1>3. StayInv => OneGrantPerStay
  BY Zenon DEF StayInv
<1> QED BY <1>1, <1>2, <1>3, PTL DEF Spec

\* With pre-vote off and campaigns sent at once, whatever crashes, stops and
\* quorum checks do to voted_for, two leaders of one term need a vote granted
\* for a term its voter had left (Follower.on_vote_request compares no terms)
\* or a vote given twice in one stay.
THEOREM ElectionSafety ==
    ASSUME ~UsePreVote, ~SlowSend
    PROVE  Spec => []OneLeaderUnlessVoteMisused
<1>1. Init => IndInv /\ TimersPlain /\ BackedInv
  BY InitInd, InitElection, Zenon
<1>2. IndInv /\ TimersPlain /\ BackedInv /\ [Next]_vars => IndInv' /\ TimersPlain' /\ BackedInv'
  BY NextInd, NextPlain, NextBacked, Zenon DEF IndInv
<1>3. BackedInv => OneLeaderUnlessVoteMisused
  BY LeadersAgree, Zenon
<1> QED BY <1>1, <1>2, <1>3, PTL DEF Spec
=============================================================================
