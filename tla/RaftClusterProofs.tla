------------------------- MODULE RaftClusterProofs -------------------------
(***************************************************************************)
(* Theorems about RaftCluster, for every cluster size, every setting and   *)
(* every bound.                                                            *)
(***************************************************************************)
EXTENDS RaftCluster, FiniteSetTheorems, TLAPS

(***************************************************************************)
(* Types of the operators the actions are built from                       *)
(***************************************************************************)

\* The fields of the four message shapes: what a handler of
\* BaseRole.on_message may rely on once it has looked at the code.
LEMMA AppendEntriesFields ==
    ASSUME NEW m \in Message, m.type = "AppendEntries"
    PROVE  /\ m \in AppendEntriesMessage
           /\ m.from \in Node /\ m.to \in Node /\ m.term \in Nat /\ m.prevIndex \in Nat
           /\ m.prevTerm \in Nat /\ m.entries \in Seq(Record) /\ m.commit \in Nat
           /\ m.kind \in Kinds
BY Zenon DEF Message, AppendEntriesMessage, RequestMessage, VoteResponseMessage, AppendResponseMessage

\* See AppendEntriesFields.
LEMMA RequestFields ==
    ASSUME NEW m \in Message, m.type \in {"RequestVote", "PreVote"}
    PROVE  /\ m.from \in Node /\ m.to \in Node /\ m.term \in Nat /\ m.prevIndex \in Nat
           /\ m.prevTerm \in Nat
BY Zenon DEF Message, AppendEntriesMessage, RequestMessage, VoteResponseMessage, AppendResponseMessage

\* See AppendEntriesFields.
LEMMA VoteResponseFields ==
    ASSUME NEW m \in Message, m.type \in {"VoteResponse", "PreVoteResponse"}
    PROVE  m.from \in Node /\ m.to \in Node /\ m.term \in Nat /\ m.vote \in BOOLEAN
BY Zenon DEF Message, AppendEntriesMessage, RequestMessage, VoteResponseMessage, AppendResponseMessage

\* See AppendEntriesFields.
LEMMA AppendResponseFields ==
    ASSUME NEW m \in Message, m.type = "AppendResponse"
    PROVE  /\ m.from \in Node /\ m.to \in Node /\ m.term \in Nat /\ m.success \in BOOLEAN
           /\ m.maxIndex \in Nat /\ m.request \in AppendEntriesMessage
           /\ m.request.from \in Node /\ m.request.to \in Node /\ m.request.term \in Nat
           /\ m.request.prevIndex \in Nat /\ m.request.entries \in Seq(Record)
           /\ m.request.kind \in Kinds
BY Zenon DEF Message, AppendEntriesMessage, RequestMessage, VoteResponseMessage, AppendResponseMessage

\* Replies are messages.
LEMMA ReplyTypes ==
    /\ \A m \in Message, yes \in BOOLEAN : m.type \in {"RequestVote", "PreVote"} =>
          VoteReply(m, yes) \in Message /\ PreVoteReply(m, yes) \in Message
    /\ \A m \in Message, t, last \in Nat, ok \in BOOLEAN : m.type = "AppendEntries" =>
          AppendReply(m, t, ok, last) \in Message
<1>1. ASSUME NEW m \in Message, NEW yes \in BOOLEAN, m.type \in {"RequestVote", "PreVote"}
      PROVE  VoteReply(m, yes) \in Message /\ PreVoteReply(m, yes) \in Message
  BY <1>1, RequestFields, Zenon DEF VoteReply, PreVoteReply, Message, VoteResponseMessage
<1>2. ASSUME NEW m \in Message, NEW t \in Nat, NEW last \in Nat, NEW ok \in BOOLEAN,
             m.type = "AppendEntries"
      PROVE  AppendReply(m, t, ok, last) \in Message
  BY <1>2, AppendEntriesFields, Zenon DEF AppendReply, Message, AppendResponseMessage
<1> QED BY <1>1, <1>2, Zenon

\* Every record of a log has a term and a content; the term before an index
\* (get_prev_record_id) is a number.
LEMMA LogFacts ==
    ASSUME NEW L \in Seq(Record)
    PROVE  /\ Len(L) \in Nat
           /\ LastTerm(L) \in Nat
           /\ \A k \in 1..Len(L) : L[k] \in Record
           /\ \A p \in 0..Len(L) : TermAt(L, p) \in Nat
           /\ \A n \in 0..Len(L) : SubSeq(L, 1, n) \in Seq(Record) /\ Len(SubSeq(L, 1, n)) = n
<1>1. Len(L) \in Nat /\ \A k \in 1..Len(L) : L[k] \in Record
  OBVIOUS
<1>2. \A k \in 1..Len(L) : L[k].term \in Nat
  BY <1>1, Zenon DEF Record
<1>3. LastTerm(L) \in Nat
  <2>1. L # <<>> => Len(L) \in 1..Len(L)
    OBVIOUS
  <2> QED BY <1>2, <2>1, Zenon DEF LastTerm
<1>4. \A p \in 0..Len(L) : TermAt(L, p) \in Nat
  BY <1>1, <1>2 DEF TermAt
<1>5. \A n \in 0..Len(L) : SubSeq(L, 1, n) \in Seq(Record) /\ Len(SubSeq(L, 1, n)) = n
  OBVIOUS
<1> QED BY <1>1, <1>3, <1>4, <1>5, Zenon

\* broadcast_log_record builds AppendEntries messages.
LEMMA BroadcastType ==
    ASSUME NEW i \in Node, NEW t \in Nat, NEW L \in Seq(Record), NEW index \in 1..Len(L),
           NEW c \in Nat
    PROVE  BroadcastMessages(i, t, L, index, c) \subseteq AppendEntriesMessage
<1>1. index - 1 \in 0..Len(L) /\ index - 1 \in Nat
  OBVIOUS
<1>2. TermAt(L, index - 1) \in Nat /\ L[index] \in Record
  BY <1>1, LogFacts, Zenon
<1>3. <<L[index]>> \in Seq(Record)
  BY <1>2
<1>4. ASSUME NEW j \in Node
      PROVE  [type |-> "AppendEntries", from |-> i, to |-> j, term |-> t,
              prevIndex |-> index - 1, prevTerm |-> TermAt(L, index - 1),
              entries |-> <<L[index]>>, commit |-> c, kind |-> "broadcast"]
                 \in AppendEntriesMessage
  BY <1>1, <1>2, <1>3, Zenon DEF AppendEntriesMessage, Kinds
<1> QED BY <1>4, Zenon DEF BroadcastMessages, Others

\* Appending a record (log.append in Leader.start and run_command).
LEMMA AppendType ==
    ASSUME NEW L \in Seq(Record), NEW r \in Record
    PROVE  /\ Append(L, r) \in Seq(Record)
           /\ Len(Append(L, r)) = Len(L) + 1
           /\ Len(Append(L, r)) \in 1..Len(Append(L, r))
OBVIOUS

\* Storing the entries of a message that starts inside or right after the
\* log gives a log.
LEMMA StoredType ==
    ASSUME NEW L \in Seq(Record), NEW p \in 0..Len(L), NEW entries \in Seq(Record)
    PROVE  /\ Stored(L, p, entries) \in Seq(Record)
           /\ Len(Stored(L, p, entries)) = Greater(Len(L), p + Len(entries))
<1> DEFINE n == Greater(Len(L), p + Len(entries))
<1>1. n \in Nat
  BY DEF Greater
<1>2. ASSUME NEW k \in 1..n
      PROVE  (IF k \in (p + 1)..(p + Len(entries)) THEN entries[k - p] ELSE L[k]) \in Record
  <2>1. CASE k \in (p + 1)..(p + Len(entries))
    <3>1. k - p \in 1..Len(entries)
      BY <2>1
    <3> QED BY <2>1, <3>1
  <2>2. CASE k \notin (p + 1)..(p + Len(entries))
    <3>1. k \in 1..Len(L)
      BY <2>2 DEF Greater
    <3> QED BY <2>2, <3>1
  <2> QED BY <2>1, <2>2, Zenon
<1>3. Stored(L, p, entries) \in [1..n -> Record]
  BY <1>2, Zenon DEF Stored
<1> QED BY <1>1, <1>3

\* The commands handed to process_command are commands with their indexes.
LEMMA CommandsInType ==
    ASSUME NEW L \in Seq(Record), NEW a \in Nat, NEW b \in Nat, b <= Len(L)
    PROVE  CommandsIn(L, a, b) \subseteq [index : Nat, command : Command]
<1>1. ASSUME NEW k \in (a + 1)..b, L[k].command # TermStart
      PROVE  [index |-> k, command |-> L[k].command] \in [index : Nat, command : Command]
  <2>1. k \in 1..Len(L)
    OBVIOUS
  <2>2. L[k] \in Record
    BY <2>1
  <2> QED BY <1>1, <2>1, <2>2 DEF Record
<1> QED BY <1>1, Zenon DEF CommandsIn

(***************************************************************************)
(* The inductive invariant behind TypeOK and IndexesOrdered.  A leader     *)
(* reads its own log at the index of the request that is answered: the     *)
(* reads are within the log because a tracked request never reaches past   *)
(* it, and the log of a node does not shrink while it leads.               *)
(***************************************************************************)
ActiveInLog ==
    \A i \in Node : \A x \in lead[i].active :
        /\ x.prevIndex <= Len(log[i])
        /\ x.kind = "broadcast" => x.prevIndex < Len(log[i])

IndInv == TypeOK /\ IndexesOrdered /\ ActiveInLog

\* The requests a Leader object starts out with, or adds for a new record,
\* are within its log.
LEMMA BroadcastInLog ==
    ASSUME NEW i \in Node, NEW t \in Nat, NEW L \in Seq(Record), NEW index \in 1..Len(L),
           NEW c \in Nat
    PROVE  \A x \in BroadcastMessages(i, t, L, index, c) : x.prevIndex < Len(L)
BY DEF BroadcastMessages

\* The two kinds of initial state.
LEMMA InitInd == Init => IndInv
<1> SUFFICES ASSUME Init PROVE IndInv
  OBVIOUS
<1> USE NodeAssumption, SettingAssumption
<1>0. PICK s \in Starts :
          /\ spent = s.spent
          /\ (~s.established /\ Created) \/ (s.established /\ Running(s.stranded))
  BY Zenon DEF Init
<1>n. s.stranded \in Nat /\ spent \in [Events -> Nat]
  BY <1>0, StartsAssumption
<1> DEFINE n == s.stranded
<1>1. NoCampaign \in VoteCounts
  BY Zenon DEF NoCampaign, VoteCounts
<1>2. NoLeadership \in [acks : SUBSET (Nat \X Node), active : SUBSET AppendEntriesMessage]
  BY Zenon DEF NoLeadership
<1>t. TimingOK
  <2>1. RoleTask \in Tasks /\ RoleTask.kind # "resigned"
    BY DEF RoleTask, Tasks
  <2> QED BY <2>1 DEF Init, TimingOK
<1>3. CASE Created
  <2>1. TypeOK
    <3>1. <<>> \in Seq(Record)
      OBVIOUS
    <3>2. /\ cand = [i \in Node |-> NoCampaign]
          /\ lead = [i \in Node |-> NoLeadership]
          /\ log = [i \in Node |-> <<>>]
      BY <1>3, Zenon DEF Init, Created
    <3>3. cand \in [Node -> VoteCounts]
      BY <1>1, <3>2, Zenon
    <3>4. lead \in [Node -> [acks : SUBSET (Nat \X Node), active : SUBSET AppendEntriesMessage]]
      BY <1>2, <3>2, Zenon
    <3>5. log \in [Node -> Seq(Record)]
      BY <3>1, <3>2, Zenon
    <3> QED BY <1>n, <1>t, <1>3, <3>2, <3>3, <3>4, <3>5 DEF Init, Created, TypeOK
  <2>2. IndexesOrdered
    BY <1>3 DEF Init, Created, IndexesOrdered
  <2>3. ActiveInLog
    BY <1>3 DEF Init, Created, ActiveInLog, NoLeadership
  <2> QED BY <2>1, <2>2, <2>3, Zenon DEF IndInv
<1>4. CASE Running(n)
  <2>1. PICK first \in Node, c \in Command :
            /\ votedFor = [i \in Node |-> IF i = first THEN None ELSE first]
            /\ log = [i \in Node |-> IF i = first THEN FirstLog(c, n) ELSE <<FirstRecord>>]
            /\ applied = [i \in Node |-> IF i = first THEN 0 ELSE 1]
            /\ role = [i \in Node |-> IF i = first THEN "LEADER" ELSE "FOLLOWER"]
            /\ lead = [i \in Node |-> IF i = first THEN FirstLeadership(first, c, n)
                                                   ELSE NoLeadership]
            /\ grants = {[voter |-> i, local |-> 1, cand |-> first, term |-> 1] :
                            i \in Others(first)}
    BY <1>4, Zenon DEF Running
  <2>2. FirstRecord \in Record
    BY Zenon DEF FirstRecord, Record
  <2>3. FirstLog(c, n) \in Seq(Record) /\ Len(FirstLog(c, n)) = 1 + n
    <3>1. FirstLog(c, n) \in [1..(1 + n) -> Record]
      BY <2>2, Zenon DEF FirstLog, Record
    <3> QED BY <1>n, <3>1
  <2>4. \A k \in 2..(1 + n) :
            /\ BroadcastMessages(first, 1, FirstLog(c, n), k, 1) \subseteq AppendEntriesMessage
            /\ \A x \in BroadcastMessages(first, 1, FirstLog(c, n), k, 1) :
                  x.prevIndex < Len(FirstLog(c, n))
    BY <2>3, BroadcastType, BroadcastInLog
  <2>5. FirstLeadership(first, c, n).active \subseteq AppendEntriesMessage
    BY <2>4, Zenon DEF FirstLeadership
  <2>6. FirstLeadership(first, c, n).acks \subseteq Nat \X Node
    BY DEF FirstLeadership
  <2>7. FirstLeadership(first, c, n)
           \in [acks : SUBSET (Nat \X Node), active : SUBSET AppendEntriesMessage]
    BY <2>5, <2>6, Zenon DEF FirstLeadership
  <2>8. <<FirstRecord>> \in Seq(Record) /\ Len(<<FirstRecord>>) = 1
    BY <2>2
  <2>9. /\ log \in [Node -> Seq(Record)]
        /\ lead \in [Node -> [acks : SUBSET (Nat \X Node), active : SUBSET AppendEntriesMessage]]
        /\ grants \subseteq [voter : Node, local : Nat, cand : Node, term : Nat]
        /\ chosen \subseteq [index : Nat, record : Record, term : Nat]
    BY <1>2, <1>4, <2>1, <2>2, <2>3, <2>7, <2>8 DEF Running, Others
  <2>10. TypeOK
    BY <1>1, <1>n, <1>t, <1>4, <2>1, <2>9 DEF Init, Running, TypeOK
  <2>11. IndexesOrdered
    BY <1>n, <1>4, <2>1, <2>3, <2>8 DEF Running, IndexesOrdered
  <2>12. \A x \in FirstLeadership(first, c, n).active : x.prevIndex < Len(FirstLog(c, n))
    BY <2>4, Zenon DEF FirstLeadership
  <2>13. ActiveInLog
    <3> SUFFICES ASSUME NEW i \in Node, NEW x \in lead[i].active
                 PROVE  x.prevIndex <= Len(log[i]) /\ x.prevIndex < Len(log[i])
      BY Zenon DEF ActiveInLog
    <3>1. i = first
      BY <2>1, Zenon DEF NoLeadership
    <3>2. x \in FirstLeadership(first, c, n).active /\ log[i] = FirstLog(c, n)
      BY <2>1, <3>1, Zenon
    <3>3. x.prevIndex \in Nat
      BY <2>5, <3>2, Zenon DEF AppendEntriesMessage
    <3> QED BY <2>3, <2>12, <3>2, <3>3
  <2> QED BY <2>10, <2>11, <2>13, Zenon DEF IndInv
<1> QED BY <1>0, <1>3, <1>4, Zenon

\* A node that stops its role has no votes and no tracked requests.
LEMMA FollowerAgain ==
    ASSUME TypeOK, NEW i \in Node, LoseRole(i)
    PROVE  /\ role' \in [Node -> {"FOLLOWER", "CANDIDATE", "LEADER"}]
           /\ cand' \in [Node -> VoteCounts]
           /\ lead' \in [Node -> [acks : SUBSET (Nat \X Node), active : SUBSET AppendEntriesMessage]]
           /\ \A j \in Node : role'[j] # "CANDIDATE" => cand'[j] = NoCampaign
           /\ \A j \in Node : role'[j] # "LEADER" => lead'[j] = NoLeadership
           /\ lead'[i].active = {}
           /\ \A j \in Node : lead'[j].active \subseteq lead[j].active
<1>1. NoCampaign \in VoteCounts
  BY Zenon DEF NoCampaign, VoteCounts
<1>2. NoLeadership \in [acks : SUBSET (Nat \X Node), active : SUBSET AppendEntriesMessage]
  BY Zenon DEF NoLeadership
<1>3. NoLeadership.active = {}
  BY Zenon DEF NoLeadership
<1>4. /\ role' = [role EXCEPT ![i] = "FOLLOWER"]
      /\ cand' = [cand EXCEPT ![i] = NoCampaign]
      /\ lead' = [lead EXCEPT ![i] = NoLeadership]
  BY Zenon DEF LoseRole
<1> QED BY <1>1, <1>2, <1>3, <1>4, Zenon DEF TypeOK

\* The tasks a node can be given.
LEMMA TaskTypes ==
    /\ RoleTask \in Tasks /\ ResignedTask \in Tasks
    /\ \A t \in Nat : StaleTask(t) \in Tasks
    /\ \A t \in Nat, left \in SUBSET Node, kind \in {"base", "pre"} : Asking(kind, t, left) \in Tasks
    /\ RoleTask.kind # "resigned"
    /\ \A t : StaleTask(t).kind # "resigned"
    /\ \A t, left : \A kind \in {"base", "pre"} : Asking(kind, t, left).kind # "resigned"
BY DEF RoleTask, ResignedTask, StaleTask, Asking, Tasks

\* A node's task is replaced by one that suits its role.
LEMMA NewTask ==
    ASSUME TypeOK, NEW i \in Node, NEW x \in Tasks, task' = [task EXCEPT ![i] = x],
           \A j \in Node : j # i => role'[j] = role[j],
           x.kind = "resigned" => role'[i] = "FOLLOWER", deaf' \subseteq Node
    PROVE  TimingOK'
<1>1. task' \in [Node -> Tasks]
  BY Zenon DEF TypeOK, TimingOK
<1>2. \A j \in Node : task'[j] = IF j = i THEN x ELSE task[j]
  BY Zenon DEF TypeOK, TimingOK
<1> QED BY <1>1, <1>2, Zenon DEF TypeOK, TimingOK

\* demote_and_handle, and a new process.
LEMMA FollowerTiming ==
    ASSUME TypeOK, NEW i \in Node, BecomeFollower(i) \/ Restart(i) \/ task' = [task EXCEPT ![i] = ResignedTask],
           LoseRole(i), deaf' \subseteq Node
    PROVE  TimingOK'
<1>1. PICK x \in Tasks : task' = [task EXCEPT ![i] = x]
  BY TaskTypes, Zenon DEF TypeOK, TimingOK, BecomeFollower, Restart, TaskOfNewRole
<1>2. role'[i] = "FOLLOWER" /\ \A j \in Node : j # i => role'[j] = role[j]
  BY Zenon DEF TypeOK, LoseRole
<1> QED BY <1>1, <1>2, NewTask, Zenon

\* The budget of an event.
LEMMA SpendType ==
    ASSUME TypeOK, NEW e \in Events, Spend(e)
    PROVE  spent' \in [Events -> Nat]
BY DEF TypeOK, Spend

\* Steps that leave the log store alone and track no new request.
LEMMA StoreSame ==
    ASSUME IndInv, UNCHANGED store, \A j \in Node : lead'[j].active \subseteq lead[j].active
    PROVE  IndexesOrdered' /\ ActiveInLog'
BY Zenon DEF IndInv, store, IndexesOrdered, ActiveInLog

\* start_campaign_base and start_campaign_pre.
LEMMA RequestTypes ==
    ASSUME TypeOK, NEW i \in Node
    PROVE  \A t \in Nat, to \in SUBSET Node :
               VoteMessages(i, t, to) \subseteq Message /\ PreVoteMessages(i, t, to) \subseteq Message
<1>1. /\ Len(log[i]) \in Nat /\ LastTerm(log[i]) \in Nat
      /\ term[i] \in Nat /\ term[i] + 1 \in Nat
  BY LogFacts DEF TypeOK
<1>2. ASSUME NEW t \in Nat, NEW p \in Nat, NEW q \in Nat, NEW j \in Node,
             NEW type \in {"RequestVote", "PreVote"}
      PROVE  [type |-> type, from |-> i, to |-> j, term |-> t,
              prevIndex |-> p, prevTerm |-> q] \in Message
  BY <1>2, Zenon DEF Message, RequestMessage
<1>3. ASSUME NEW t \in Nat, NEW to \in SUBSET Node
      PROVE  VoteMessages(i, t, to) \subseteq Message /\ PreVoteMessages(i, t, to) \subseteq Message
  <2>1. \A j \in to : [type |-> "RequestVote", from |-> i, to |-> j, term |-> t,
                       prevIndex |-> Len(log[i]), prevTerm |-> LastTerm(log[i])] \in Message
    BY <1>1, <1>2, Zenon
  <2>2. t + 1 \in Nat
    OBVIOUS
  <2>3. \A j \in to : [type |-> "PreVote", from |-> i, to |-> j, term |-> t + 1,
                       prevIndex |-> Len(log[i]), prevTerm |-> term[i]] \in Message
    BY <1>1, <1>2, <2>2, Zenon
  <2> QED BY <2>1, <2>3, Zenon DEF VoteMessages, PreVoteMessages
<1> QED BY <1>3, Zenon

\* start_campaign with slow sends keeps the types; the roles are not concerned.
LEMMA SlowType ==
    ASSUME TypeOK, NEW i \in Node, NEW t \in Nat, NEW votes \in VoteCounts,
           CampaignSlowly(i, t, votes)
    PROVE  /\ term' \in [Node -> Nat]
           /\ msgs' \subseteq Message
           /\ cand' \in [Node -> VoteCounts]
           /\ \A j \in Node : j # i => cand'[j] = cand[j]
           /\ \E x \in Tasks : task' = [task EXCEPT ![i] = x] /\ x.kind # "resigned"
<1> DEFINE kind == IF UsePreVote THEN "pre" ELSE "base"
           next == IF UsePreVote THEN t ELSE t + 1
<1>1. next \in Nat /\ kind \in {"base", "pre"} /\ term[i] \in Nat
  BY DEF TypeOK
<1>2. /\ term' = [term EXCEPT ![i] = IF UsePreVote THEN @ ELSE next]
      /\ cand' = [cand EXCEPT ![i] = votes]
      /\ task' = [task EXCEPT ![i] = Asking(kind, next, Node)]
      /\ UNCHANGED msgs
  BY Zenon DEF CampaignSlowly
<1> HIDE DEF kind, next
<1>3. Asking(kind, next, Node) \in Tasks /\ Asking(kind, next, Node).kind # "resigned"
  BY <1>1, TaskTypes, Zenon
<1> QED BY <1>1, <1>2, <1>3, Zenon DEF TypeOK

\* Candidate.start_campaign keeps the types; the roles are not concerned.
LEMMA CampaignType ==
    ASSUME TypeOK, NEW i \in Node, Campaign(i, NoCampaign) \/ Campaign(i, cand[i])
    PROVE  /\ term' \in [Node -> Nat]
           /\ msgs' \subseteq Message
           /\ cand' \in [Node -> VoteCounts]
           /\ \A j \in Node : j # i => cand'[j] = cand[j]
           /\ \/ UNCHANGED task
              \/ \E x \in Tasks : task' = [task EXCEPT ![i] = x] /\ x.kind # "resigned"
<1>1. PICK votes \in VoteCounts : Campaign(i, votes)
  <2>1. NoCampaign \in VoteCounts
    BY Zenon DEF NoCampaign, VoteCounts
  <2> QED BY <2>1, Zenon DEF TypeOK
<1>2. term[i] \in Nat /\ term[i] + 1 \in Nat /\ Others(i) \in SUBSET Node
  BY DEF TypeOK, Others
<1>3. CASE SlowSend /\ CampaignSlowly(i, term[i], votes)
  BY <1>2, <1>3, SlowType, Zenon
<1>4. CASE CampaignBase(i, votes, msgs) /\ UNCHANGED task
  <2>1. /\ term' = [term EXCEPT ![i] = @ + 1]
        /\ cand' = [cand EXCEPT ![i] = [votes EXCEPT !.voters = Node, !.yes = {i}]]
        /\ msgs' = msgs \cup VoteMessages(i, term[i] + 1, Others(i))
    BY <1>4, Zenon DEF CampaignBase
  <2>2. [votes EXCEPT !.voters = Node, !.yes = {i}] \in VoteCounts
    BY Zenon DEF VoteCounts
  <2>3. msgs' \subseteq Message
    BY <1>2, <2>1, RequestTypes, Zenon DEF TypeOK
  <2> QED BY <1>2, <1>4, <2>1, <2>2, <2>3, Zenon DEF TypeOK
<1>5. CASE CampaignPre(i, votes) /\ UNCHANGED task
  <2>1. /\ term' = term
        /\ cand' = [cand EXCEPT ![i] = [votes EXCEPT !.preVoters = Node, !.preYes = {i}]]
        /\ msgs' = msgs \cup PreVoteMessages(i, term[i], Others(i))
    BY <1>5, Zenon DEF CampaignPre
  <2>2. [votes EXCEPT !.preVoters = Node, !.preYes = {i}] \in VoteCounts
    BY Zenon DEF VoteCounts
  <2>3. msgs' \subseteq Message
    BY <1>2, <2>1, RequestTypes, Zenon DEF TypeOK
  <2> QED BY <1>5, <2>1, <2>2, <2>3, Zenon DEF TypeOK
<1> QED BY <1>1, <1>3, <1>4, <1>5, Zenon DEF Campaign, CampaignAtOnce

\* LeaderLost, CampaignAgain and StaleCampaign.
LEMMA CampaignsInd ==
    ASSUME IndInv, NEW i \in Node, LeaderLost(i) \/ CampaignAgain(i) \/ StaleCampaign(i)
    PROVE  IndInv'
<1>1. TypeOK
  BY Zenon DEF IndInv
<1>2. spent' \in [Events -> Nat]
  BY <1>1, SpendType, Zenon DEF LeaderLost, CampaignAgain, StaleCampaign, Events
<1>3. /\ term' \in [Node -> Nat]
      /\ msgs' \subseteq Message
      /\ cand' \in [Node -> VoteCounts]
      /\ \A j \in Node : j # i => cand'[j] = cand[j]
      /\ \/ UNCHANGED task
         \/ \E x \in Tasks : task' = [task EXCEPT ![i] = x] /\ x.kind # "resigned"
  <2>1. CASE LeaderLost(i) \/ CampaignAgain(i)
    BY <1>1, <2>1, CampaignType, Zenon DEF LeaderLost, CampaignAgain
  <2>2. CASE StaleCampaign(i)
    <3>1. task[i].term \in Nat /\ cand[i] \in VoteCounts
      BY <1>1, Zenon DEF TypeOK, TimingOK, Tasks
    <3> QED BY <1>1, <2>2, <3>1, SlowType, Zenon DEF StaleCampaign
  <2> QED BY <2>1, <2>2, Zenon
<1>4. /\ role' \in [Node -> {"FOLLOWER", "CANDIDATE", "LEADER"}]
      /\ role'[i] = "CANDIDATE" \/ (role'[i] = role[i] /\ cand'[i] = cand[i])
      /\ role'[i] = "CANDIDATE" => role[i] # "LEADER" /\ task[i].kind # "resigned"
      /\ role'[i] # "CANDIDATE" => role'[i] = role[i]
      /\ \A j \in Node : j # i => role'[j] = role[j]
      /\ votedFor' \in [Node -> Node \cup {None}]
      /\ UNCHANGED <<lead, deaf, grants, store>>
  <2>1. CASE LeaderLost(i)
    BY <1>1, <2>1 DEF LeaderLost, TypeOK
  <2>2. CASE CampaignAgain(i)
    BY <1>1, <2>2 DEF CampaignAgain, TypeOK
  <2>3. CASE StaleCampaign(i)
    <3>1. /\ task[i].kind = "stale"
          /\ cand' = [cand EXCEPT ![i] = cand[i]]
          /\ UNCHANGED <<store, votedFor, role, lead, deaf, grants>>
      BY <2>3, Zenon DEF StaleCampaign, CampaignSlowly
    <3> QED BY <1>1, <3>1 DEF TypeOK
  <2> QED BY <2>1, <2>2, <2>3, Zenon
<1>5. TimingOK'
  <2>1. CASE UNCHANGED task
    BY <1>1, <1>4, <2>1 DEF TypeOK, TimingOK
  <2>2. CASE \E x \in Tasks : task' = [task EXCEPT ![i] = x] /\ x.kind # "resigned"
    <3>1. deaf' \subseteq Node
      BY <1>1, <1>4, Zenon DEF TypeOK, TimingOK
    <3> QED BY <1>1, <1>4, <2>2, <3>1, NewTask, Zenon
  <2> QED BY <1>3, <2>1, <2>2, Zenon
<1>6. TypeOK'
  BY <1>1, <1>2, <1>3, <1>4, <1>5, Zenon DEF TypeOK, store
<1> QED BY <1>4, <1>6, StoreSame, Zenon DEF IndInv

\* A turn of the campaign's loop, and its end.
LEMMA LoopInd ==
    ASSUME IndInv, NEW i \in Node, (\E j \in Node : Ask(i, j)) \/ EndCampaign(i)
    PROVE  IndInv'
<1>1. TypeOK
  BY Zenon DEF IndInv
<1>2. /\ task[i] \in Tasks /\ cand[i] \in VoteCounts
      /\ task[i].term \in Nat /\ task[i].left \subseteq Node
  BY <1>1, Zenon DEF TypeOK, TimingOK, Tasks
<1>3. CASE EndCampaign(i)
  <2>1. UNCHANGED <<store, term, votedFor, role, cand, lead, deaf, msgs, grants, spent>>
    BY <1>3, Zenon DEF EndCampaign
  <2>2. PICK x \in Tasks : task' = [task EXCEPT ![i] = x] /\ x.kind # "resigned"
    BY <1>2, <1>3, TaskTypes, Zenon DEF EndCampaign
  <2>3. deaf' \subseteq Node
    BY <1>1, <2>1, Zenon DEF TypeOK, TimingOK
  <2>4. TimingOK'
    BY <1>1, <2>1, <2>2, <2>3, NewTask, Zenon
  <2>5. TypeOK'
    BY <1>1, <2>1, <2>4, Zenon DEF TypeOK, store
  <2> QED BY <2>1, <2>5, StoreSame, Zenon DEF IndInv
<1>4. ASSUME NEW j \in Node, Ask(i, j) PROVE IndInv'
  <2> DEFINE to == {j} \ {i}
             x == [task[i] EXCEPT !.left = @ \ {j}]
  <2>1. /\ UNCHANGED <<store, term, votedFor, role, lead, deaf, grants, spent>>
        /\ IsAsking(i)
        /\ task' = [task EXCEPT ![i] = x]
        /\ cand' = [cand EXCEPT ![i] = VotesOnceAsked(i, j)]
        /\ msgs' = msgs \cup (IF task[i].kind = "pre" THEN PreVoteMessages(i, task[i].term, to)
                                                    ELSE VoteMessages(i, task[i].term, to))
    BY <1>4, Zenon DEF Ask
  <2>2. x \in Tasks /\ x.kind # "resigned"
    BY <1>2, <2>1 DEF Tasks, IsAsking
  <2>3. deaf' \subseteq Node
    BY <1>1, <2>1, Zenon DEF TypeOK, TimingOK
  <2>4. TimingOK'
    <3> HIDE DEF x
    <3> QED BY <1>1, <2>1, <2>2, <2>3, NewTask, Zenon
  <2>5. to \in SUBSET Node
    OBVIOUS
  <2>6. msgs' \subseteq Message
    <3> HIDE DEF to, x
    <3> QED BY <1>1, <1>2, <2>1, <2>5, RequestTypes, Zenon DEF TypeOK
  <2>7. VotesOnceAsked(i, j) \in VoteCounts /\ (role[i] # "CANDIDATE" => VotesOnceAsked(i, j) = cand[i])
    BY <1>2, <2>1, Zenon DEF VotesOnceAsked, VoteCounts, IsAsking
  <2>8. /\ cand' \in [Node -> VoteCounts]
        /\ \A k \in Node : cand'[k] = IF k = i THEN VotesOnceAsked(i, j) ELSE cand[k]
    BY <1>1, <2>1, <2>7, Zenon DEF TypeOK
  <2>9. TypeOK'
    BY <1>1, <2>1, <2>4, <2>6, <2>7, <2>8, Zenon DEF TypeOK, store
  <2> QED BY <2>1, <2>9, StoreSame, Zenon DEF IndInv
<1> QED BY <1>3, <1>4, Zenon

\* The vote handlers leave the store alone; a candidate's counts stay within
\* the nodes.
LEMMA VotesInd ==
    ASSUME IndInv, NEW m \in msgs,
           \/ RejectVoteRequest(m) \/ AnswerVoteRequest(m) \/ CountVote(m) \/ IgnoreVote(m)
           \/ AnswerPreVote(m) \/ CountPreVote(m)
    PROVE  IndInv'
<1>1. TypeOK /\ m \in Message
  BY Zenon DEF IndInv, TypeOK
<1>2. CASE RejectVoteRequest(m)
  <2>1. VoteReply(m, FALSE) \in Message
    BY <1>1, <1>2, ReplyTypes, Zenon DEF RejectVoteRequest
  <2>2. TypeOK'
    BY <1>1, <1>2, <2>1, Zenon DEF RejectVoteRequest, TypeOK, TimingOK, store, timing
  <2> QED BY <1>2, <2>2, StoreSame, Zenon DEF RejectVoteRequest, IndInv
<1>3. CASE AnswerVoteRequest(m)
  <2> DEFINE i == m.to
             yes == VoteStanding(i, m) = None /\ LogAcceptable(i, m)
  <2>1. i \in Node /\ m.from \in Node /\ m.term \in Nat
    BY <1>1, <1>3, RequestFields, Zenon DEF AnswerVoteRequest
  <2>2. Greater(term[i], m.term) \in Nat /\ VoteStanding(i, m) \in Node \cup {None}
    BY <1>1, <2>1, Zenon DEF Greater, VoteStanding, TypeOK
  <2>3. VoteReply(m, yes) \in Message
    <3>1. yes \in BOOLEAN
      OBVIOUS
    <3> HIDE DEF yes
    <3> QED BY <1>1, <1>3, <3>1, ReplyTypes, Zenon DEF AnswerVoteRequest
  <2>4. /\ term' \in [Node -> Nat]
        /\ votedFor' \in [Node -> Node \cup {None}]
        /\ msgs' \subseteq Message
    BY <1>1, <1>3, <2>1, <2>2, <2>3, Zenon DEF AnswerVoteRequest, TypeOK
  <2>5. grants' \subseteq [voter : Node, local : Nat, cand : Node, term : Nat]
    BY <1>1, <1>3, <2>1, <2>2 DEF AnswerVoteRequest, TypeOK
  <2>6. BecomeFollower(i) /\ LoseRole(i) /\ UNCHANGED <<store, deaf, spent>>
    BY <1>3, Zenon DEF AnswerVoteRequest, BecomeFollower
  <2>7. TimingOK'
    BY <1>1, <2>1, <2>6, FollowerTiming, Zenon DEF TypeOK, TimingOK
  <2>8. TypeOK'
    BY <1>1, <2>1, <2>4, <2>5, <2>6, <2>7, FollowerAgain, Zenon DEF TypeOK, store
  <2> QED BY <1>1, <2>1, <2>6, <2>8, FollowerAgain, StoreSame, Zenon DEF IndInv
<1>4. CASE CountVote(m)
  <2> DEFINE i == m.to
  <2>1. i \in Node /\ m.from \in Node /\ role[i] = "CANDIDATE"
    BY <1>1, <1>4, VoteResponseFields, Zenon DEF CountVote
  <2>2. VotesAfter(i, m) \in VoteCounts
    <3>1. cand[i] \in VoteCounts
      BY <1>1, <2>1, Zenon DEF TypeOK
    <3> QED BY <2>1, <3>1, Zenon DEF VotesAfter, VoteCounts
  <2>3. /\ cand' = [cand EXCEPT ![i] = VotesAfter(i, m)]
        /\ msgs' = msgs \ {m}
        /\ UNCHANGED <<store, term, votedFor, role, lead, timing, grants, spent>>
    BY <1>4, Zenon DEF CountVote
  <2>4. TypeOK'
    BY <1>1, <2>1, <2>2, <2>3, Zenon DEF TypeOK, TimingOK, store, timing
  <2> QED BY <2>3, <2>4, StoreSame, Zenon DEF IndInv
<1>5. CASE IgnoreVote(m)
  <2>1. TypeOK'
    BY <1>1, <1>5, Zenon DEF IgnoreVote, TypeOK, TimingOK, store, timing
  <2> QED BY <1>5, <2>1, StoreSame, Zenon DEF IgnoreVote, IndInv
<1>6. CASE AnswerPreVote(m)
  <2>1. PICK inContact \in BOOLEAN :
            msgs' = (msgs \ {m}) \cup
                {PreVoteReply(m, /\ role[m.to] # "LEADER"
                                 /\ ~inContact
                                 /\ PreVoteAcceptable(m.to, m))}
    BY <1>6, Zenon DEF AnswerPreVote
  <2> DEFINE yes == role[m.to] # "LEADER" /\ ~inContact /\ PreVoteAcceptable(m.to, m)
  <2>2. PreVoteReply(m, yes) \in Message
    <3>1. yes \in BOOLEAN
      OBVIOUS
    <3> HIDE DEF yes
    <3> QED BY <1>1, <1>6, <3>1, ReplyTypes, Zenon DEF AnswerPreVote
  <2>3. TypeOK'
    BY <1>1, <1>6, <2>1, <2>2, Zenon DEF AnswerPreVote, TypeOK, TimingOK, store, timing
  <2> QED BY <1>6, <2>3, StoreSame, Zenon DEF AnswerPreVote, IndInv
<1>7. CASE CountPreVote(m)
  <2> DEFINE i == m.to
             votes == PreVotesAfter(i, m)
             x == [task[i] EXCEPT !.term = IF IsAsking(i) THEN term[i] + 1 ELSE @]
  <2>1. i \in Node /\ m.from \in Node /\ role[i] = "CANDIDATE"
    BY <1>1, <1>7, VoteResponseFields, Zenon DEF CountPreVote
  <2>2. cand[i] \in VoteCounts /\ term[i] \in Nat /\ term[i] + 1 \in Nat /\ task[i] \in Tasks
    BY <1>1, <2>1 DEF TypeOK, TimingOK
  <2>3. votes \in VoteCounts
    BY <2>1, <2>2, Zenon DEF PreVotesAfter, VoteCounts
  <2>4. VoteMessages(i, term[i] + 1, Others(i)) \subseteq Message
    <3>1. Others(i) \in SUBSET Node
      BY DEF Others
    <3> QED BY <1>1, <2>1, <2>2, <3>1, RequestTypes, Zenon
  <2>5. UNCHANGED <<store, votedFor, role, lead, deaf, grants, spent>>
    BY <1>7, Zenon DEF CountPreVote
  <2>6. x \in Tasks /\ (x.kind = "resigned" => role[i] = "FOLLOWER")
    <3>1. x.kind = task[i].kind /\ x \in Tasks
      BY <2>2 DEF Tasks
    <3> HIDE DEF x
    <3> QED BY <1>1, <2>1, <3>1, Zenon DEF TypeOK, TimingOK
  <2>7. /\ term' \in [Node -> Nat]
        /\ msgs' \subseteq Message
        /\ cand' \in [Node -> VoteCounts]
        /\ \A j \in Node : j # i => cand'[j] = cand[j]
        /\ TimingOK'
    <3>1. CASE /\ cand' = [cand EXCEPT ![i] = votes]
               /\ msgs' = msgs \ {m}
               /\ UNCHANGED <<term, task>>
      <4> HIDE DEF votes
      <4> QED BY <1>1, <2>1, <2>3, <2>5, <3>1, Zenon DEF TypeOK, TimingOK
    <3>2. CASE /\ CampaignBase(i, votes, msgs \ {m})
               /\ task' = [task EXCEPT ![i].term = IF IsAsking(i) THEN term[i] + 1 ELSE @]
      <4>1. [votes EXCEPT !.voters = Node, !.yes = {i}] \in VoteCounts
        <5> HIDE DEF votes
        <5> QED BY <2>1, <2>3, Zenon DEF VoteCounts
      <4>2. /\ term' = [term EXCEPT ![i] = term[i] + 1]
            /\ cand' = [cand EXCEPT ![i] = [votes EXCEPT !.voters = Node, !.yes = {i}]]
            /\ msgs' = (msgs \ {m}) \cup VoteMessages(i, term[i] + 1, Others(i))
            /\ task' = [task EXCEPT ![i] = x]
        <5> HIDE DEF votes
        <5> QED BY <3>2, Zenon DEF CampaignBase
      <4>3. deaf' \subseteq Node
        BY <1>1, <2>5, Zenon DEF TypeOK, TimingOK
      <4> HIDE DEF x, votes
      <4>4. TimingOK'
        BY <1>1, <2>1, <2>5, <2>6, <4>2, <4>3, NewTask, Zenon
      <4> QED BY <1>1, <2>1, <2>2, <2>4, <4>1, <4>2, <4>4, Zenon DEF TypeOK
    <3> QED BY <1>7, <3>1, <3>2, Zenon DEF CountPreVote
  <2>8. TypeOK'
    BY <1>1, <2>1, <2>5, <2>7, Zenon DEF TypeOK, store
  <2> QED BY <2>5, <2>8, StoreSame, Zenon DEF IndInv
<1> QED BY <1>2, <1>3, <1>4, <1>5, <1>6, <1>7, Zenon

\* A record of the leader's own term is appended to its log and sent.
LEMMA NewRecordFacts ==
    ASSUME TypeOK, NEW i \in Node, NEW r \in Record
    PROVE  /\ Append(log[i], r) \in Seq(Record)
           /\ Len(Append(log[i], r)) = Len(log[i]) + 1
           /\ Len(log[i]) + 1 \in Nat
           /\ BroadcastMessages(i, term[i], Append(log[i], r), Len(Append(log[i], r)), commit[i])
                 \subseteq AppendEntriesMessage
           /\ \A x \in BroadcastMessages(i, term[i], Append(log[i], r),
                                         Len(Append(log[i], r)), commit[i]) :
                 x.prevIndex = Len(log[i])
<1>1. log[i] \in Seq(Record) /\ term[i] \in Nat /\ commit[i] \in Nat
  BY Zenon DEF TypeOK
<1>2. /\ Append(log[i], r) \in Seq(Record)
      /\ Len(Append(log[i], r)) = Len(log[i]) + 1
      /\ Len(Append(log[i], r)) \in 1..Len(Append(log[i], r))
      /\ Len(log[i]) + 1 \in Nat
  BY <1>1, AppendType
<1>3. BroadcastMessages(i, term[i], Append(log[i], r), Len(Append(log[i], r)), commit[i])
         \subseteq AppendEntriesMessage
  BY <1>1, <1>2, BroadcastType, Zenon
<1>4. Len(Append(log[i], r)) - 1 = Len(log[i])
  BY <1>1, <1>2
<1> QED BY <1>2, <1>3, <1>4 DEF BroadcastMessages

\* Winning an election and taking a command: the log grows at its end, so
\* what was tracked stays within it.
LEMMA NewRecordInd ==
    ASSUME IndInv, NEW i \in Node, NEW r \in Record, NEW old \in SUBSET lead[i].active,
           NEW acks \in SUBSET (Nat \X Node), NEW sent,
           sent = BroadcastMessages(i, term[i], Append(log[i], r),
                                    Len(Append(log[i], r)), commit[i]),
           log' = [log EXCEPT ![i] = Append(log[i], r)],
           lead' = [lead EXCEPT ![i] = [acks |-> acks, active |-> old \cup sent]],
           UNCHANGED <<commit, applied>>
    PROVE  /\ log' \in [Node -> Seq(Record)]
           /\ lead' \in [Node -> [acks : SUBSET (Nat \X Node), active : SUBSET AppendEntriesMessage]]
           /\ sent \subseteq Message
           /\ IndexesOrdered'
           /\ ActiveInLog'
<1>1. TypeOK /\ IndexesOrdered /\ ActiveInLog
  BY Zenon DEF IndInv
<1>2. /\ Append(log[i], r) \in Seq(Record)
      /\ Len(Append(log[i], r)) = Len(log[i]) + 1
      /\ sent \subseteq AppendEntriesMessage
      /\ \A x \in sent : x.prevIndex = Len(log[i])
  BY <1>1, NewRecordFacts, Zenon
<1>3. log[i] \in Seq(Record) /\ Len(log[i]) \in Nat
  BY <1>1 DEF TypeOK
<1>4. log' \in [Node -> Seq(Record)]
  BY <1>1, <1>2, Zenon DEF TypeOK
<1>5. lead[i].active \subseteq AppendEntriesMessage
  BY <1>1, Zenon DEF TypeOK
<1>6. [acks |-> acks, active |-> old \cup sent]
         \in [acks : SUBSET (Nat \X Node), active : SUBSET AppendEntriesMessage]
  BY <1>2, <1>5, Zenon
<1>7. lead' \in [Node -> [acks : SUBSET (Nat \X Node), active : SUBSET AppendEntriesMessage]]
  BY <1>1, <1>6, Zenon DEF TypeOK
<1>8. sent \subseteq Message
  BY <1>2, Zenon DEF Message
<1>9. IndexesOrdered'
  <2> SUFFICES ASSUME NEW j \in Node
               PROVE  applied[j] <= commit[j] /\ commit[j] <= Len(log'[j])
    BY Zenon DEF IndexesOrdered
  <2>1. applied[j] <= commit[j] /\ commit[j] <= Len(log[j]) /\ commit[j] \in Nat
    BY <1>1, Zenon DEF IndexesOrdered, TypeOK
  <2>2. log'[j] = IF j = i THEN Append(log[i], r) ELSE log[j]
    BY <1>1, Zenon DEF TypeOK
  <2> QED BY <1>2, <1>3, <2>1, <2>2
<1>10. ActiveInLog'
  <2> SUFFICES ASSUME NEW j \in Node, NEW x \in lead'[j].active
               PROVE  /\ x.prevIndex <= Len(log'[j])
                      /\ x.kind = "broadcast" => x.prevIndex < Len(log'[j])
    BY Zenon DEF ActiveInLog
  <2>1. CASE j # i
    BY <1>1, <2>1, Zenon DEF TypeOK, ActiveInLog
  <2>2. CASE j = i
    <3>1. Len(log'[j]) = Len(log[i]) + 1
      BY <1>1, <1>2, <2>2, Zenon DEF TypeOK
    <3>2. lead'[j].active = old \cup sent
      BY <1>1, <2>2, Zenon DEF TypeOK
    <3>3. CASE x \in sent
      BY <1>2, <1>3, <3>1, <3>3
    <3>4. CASE x \in old
      <4>1. x.prevIndex <= Len(log[i]) /\ x.prevIndex \in Nat
        BY <1>1, <1>5, <3>4, Zenon DEF ActiveInLog, AppendEntriesMessage
      <4> QED BY <1>3, <3>1, <4>1
    <3> QED BY <3>2, <3>3, <3>4, Zenon
  <2> QED BY <2>1, <2>2, Zenon
<1> QED BY <1>4, <1>7, <1>8, <1>9, <1>10, Zenon

\* Candidate.on_vote_response with a majority.
LEMMA WinVoteInd ==
    ASSUME IndInv, NEW m \in msgs, WinVote(m)
    PROVE  IndInv'
<1> DEFINE i == m.to
           r == [term |-> term[i], command |-> TermStart]
           L == Append(log[i], r)
           sent == BroadcastMessages(i, term[i], L, Len(L), commit[i])
<1>1. TypeOK /\ m \in Message
  BY Zenon DEF IndInv, TypeOK
<1>2. i \in Node
  BY <1>1, VoteResponseFields, Zenon DEF WinVote
<1>3. r \in Record
  BY <1>1, <1>2, Zenon DEF Record, TypeOK
<1>4. /\ role' = [role EXCEPT ![i] = "LEADER"]
      /\ votedFor' = [votedFor EXCEPT ![i] = None]
      /\ cand' = [cand EXCEPT ![i] = NoCampaign]
      /\ log' = [log EXCEPT ![i] = L]
      /\ lead' = [lead EXCEPT ![i] = [acks |-> {<<Len(L), i>>}, active |-> {} \cup sent]]
      /\ msgs' = (msgs \ {m}) \cup sent
      /\ task' = [task EXCEPT ![i] = TaskOfNewRole(i)]
      /\ UNCHANGED <<term, commit, applied, ran, chosen, deaf, grants, spent>>
  BY Zenon DEF WinVote
<1>5. {<<Len(L), i>>} \in SUBSET (Nat \X Node)
  BY <1>1, <1>2, <1>3, NewRecordFacts
<1>6. /\ log' \in [Node -> Seq(Record)]
      /\ lead' \in [Node -> [acks : SUBSET (Nat \X Node), active : SUBSET AppendEntriesMessage]]
      /\ sent \subseteq Message
      /\ IndexesOrdered'
      /\ ActiveInLog'
  <2>1. {} \in SUBSET lead[i].active
    OBVIOUS
  <2> HIDE DEF r
  <2> QED BY <1>2, <1>3, <1>4, <1>5, <2>1, NewRecordInd, Zenon
<1>7. NoCampaign \in VoteCounts
  BY Zenon DEF NoCampaign, VoteCounts
<1>8. TimingOK'
  <2>1. role[i] = "CANDIDATE"
    BY Zenon DEF WinVote
  <2>2. TaskOfNewRole(i) \in Tasks /\ TaskOfNewRole(i).kind # "resigned"
    BY <1>1, <1>2, <2>1, TaskTypes, Zenon DEF TypeOK, TimingOK, TaskOfNewRole
  <2>3. deaf' \subseteq Node /\ \A j \in Node : j # i => role'[j] = role[j]
    BY <1>1, <1>4, Zenon DEF TypeOK, TimingOK
  <2> QED BY <1>1, <1>2, <1>4, <2>2, <2>3, NewTask, Zenon
<1>9. TypeOK'
  <2> HIDE DEF sent, L
  <2> QED BY <1>1, <1>2, <1>4, <1>6, <1>7, <1>8, Zenon DEF TypeOK
<1> QED BY <1>6, <1>9, Zenon DEF IndInv

\* Leader.run_command.
LEMMA RunCommandInd ==
    ASSUME IndInv, NEW i \in Node, NEW c \in Command, RunCommand(i, c)
    PROVE  IndInv'
<1> DEFINE r == [term |-> term[i], command |-> c]
           L == Append(log[i], r)
           sent == BroadcastMessages(i, term[i], L, Len(L), commit[i])
           acks == lead[i].acks \cup {<<Len(L), i>>}
<1>1. TypeOK
  BY Zenon DEF IndInv
<1>2. r \in Record
  BY <1>1, Zenon DEF Record, TypeOK
<1>3. /\ role[i] = "LEADER"
      /\ Spend("command")
      /\ log' = [log EXCEPT ![i] = L]
      /\ lead' = [lead EXCEPT ![i] = [acks |-> @.acks \cup {<<Len(L), i>>},
                                      active |-> @.active \cup sent]]
      /\ msgs' = msgs \cup sent
      /\ UNCHANGED <<term, votedFor, commit, applied, ran, chosen, role, cand, timing, grants>>
  BY Zenon DEF RunCommand
<1>4. lead' = [lead EXCEPT ![i] = [acks |-> acks, active |-> lead[i].active \cup sent]]
  BY <1>1, <1>3, Zenon DEF TypeOK
<1>5. acks \in SUBSET (Nat \X Node)
  <2>1. Len(L) \in Nat
    BY <1>1, <1>2, NewRecordFacts, Zenon
  <2>2. lead[i].acks \subseteq Nat \X Node
    BY <1>1, Zenon DEF TypeOK
  <2> QED BY <2>1, <2>2
<1>6. /\ log' \in [Node -> Seq(Record)]
      /\ lead' \in [Node -> [acks : SUBSET (Nat \X Node), active : SUBSET AppendEntriesMessage]]
      /\ sent \subseteq Message
      /\ IndexesOrdered'
      /\ ActiveInLog'
  <2>1. lead[i].active \in SUBSET lead[i].active
    OBVIOUS
  <2>2. log' = [log EXCEPT ![i] = L] /\ UNCHANGED <<commit, applied>>
    BY <1>3, Zenon
  <2> HIDE DEF r, acks
  <2> QED BY <1>2, <1>4, <1>5, <2>1, <2>2, NewRecordInd, Zenon
<1>7. spent' \in [Events -> Nat]
  BY <1>1, <1>3, SpendType, Zenon DEF Events
<1>8. TypeOK'
  <2> HIDE DEF sent, L, acks
  <2>1. \A j \in Node : role'[j] # "LEADER" => lead'[j] = NoLeadership
    BY <1>1, <1>3, <1>4, Zenon DEF TypeOK
  <2>2. msgs' \subseteq Message
    BY <1>1, <1>3, <1>6, Zenon DEF TypeOK
  <2>3. UNCHANGED <<term, votedFor, commit, applied, ran, chosen, role, cand, timing, grants>>
    BY <1>3, Zenon
  <2> QED BY <1>1, <1>6, <1>7, <2>1, <2>2, <2>3, Zenon DEF TypeOK, TimingOK, timing
<1> QED BY <1>6, <1>8, Zenon DEF IndInv

\* Whatever reaches Follower.on_append_entries: the role is given up, and the
\* request says where it comes from.
LEMMA AtFollowerFacts ==
    ASSUME TypeOK, NEW m \in msgs, AtFollower(m)
    PROVE  /\ m \in Message /\ m.type = "AppendEntries" /\ m.to \in Node
           /\ BecomeFollower(m.to) /\ LoseRole(m.to)
           /\ term' \in [Node -> Nat]
           /\ votedFor' \in [Node -> Node \cup {None}]
           /\ UNCHANGED <<deaf, grants, spent>>
           /\ log[m.to] \in Seq(Record)
           /\ commit[m.to] \in Nat /\ applied[m.to] \in Nat
           /\ m.prevIndex \in Nat /\ m.entries \in Seq(Record) /\ m.commit \in Nat
<1>1. m \in Message /\ m.type = "AppendEntries"
  BY Zenon DEF TypeOK, AtFollower
<1>2. m.to \in Node /\ m.term \in Nat /\ m.prevIndex \in Nat /\ m.entries \in Seq(Record)
      /\ m.commit \in Nat
  BY <1>1, AppendEntriesFields, Zenon
<1>3. term' \in [Node -> Nat] /\ votedFor' \in [Node -> Node \cup {None}]
  BY <1>2, Zenon DEF TypeOK, AtFollower, Greater
<1> QED BY <1>1, <1>2, <1>3, Zenon DEF TypeOK, AtFollower, BecomeFollower

\* The common part of the four outcomes: given the node's new log and
\* indexes, the invariant is kept.
LEMMA AtFollowerInd ==
    ASSUME IndInv, NEW m \in msgs, AtFollower(m),
           NEW L \in Seq(Record), NEW c \in Nat, NEW a \in Nat, a <= c, c <= Len(L),
           log' = [log EXCEPT ![m.to] = L],
           commit' = [commit EXCEPT ![m.to] = c],
           applied' = [applied EXCEPT ![m.to] = a],
           ran' \in [Node -> SUBSET [index : Nat, command : Command]],
           UNCHANGED chosen,
           msgs' \subseteq Message
    PROVE  IndInv'
<1> DEFINE i == m.to
<1>1. TypeOK /\ IndexesOrdered /\ ActiveInLog
  BY Zenon DEF IndInv
<1>2. /\ i \in Node
      /\ BecomeFollower(i) /\ LoseRole(i)
      /\ term' \in [Node -> Nat]
      /\ votedFor' \in [Node -> Node \cup {None}]
      /\ UNCHANGED <<deaf, grants, spent>>
  BY <1>1, AtFollowerFacts, Zenon
<1>3. /\ role' \in [Node -> {"FOLLOWER", "CANDIDATE", "LEADER"}]
      /\ cand' \in [Node -> VoteCounts]
      /\ lead' \in [Node -> [acks : SUBSET (Nat \X Node), active : SUBSET AppendEntriesMessage]]
      /\ \A j \in Node : role'[j] # "CANDIDATE" => cand'[j] = NoCampaign
      /\ \A j \in Node : role'[j] # "LEADER" => lead'[j] = NoLeadership
      /\ lead'[i].active = {}
      /\ \A j \in Node : lead'[j].active \subseteq lead[j].active
  BY <1>1, <1>2, FollowerAgain, Zenon
<1>4. /\ log' \in [Node -> Seq(Record)]
      /\ commit' \in [Node -> Nat]
      /\ applied' \in [Node -> Nat]
  BY <1>1, <1>2, Zenon DEF TypeOK
<1>t. TimingOK'
  BY <1>1, <1>2, FollowerTiming, Zenon DEF TypeOK, TimingOK
<1>5. TypeOK'
  BY <1>1, <1>2, <1>3, <1>4, <1>t, Zenon DEF TypeOK
<1>6. \A j \in Node : /\ log'[j] = IF j = i THEN L ELSE log[j]
                      /\ commit'[j] = IF j = i THEN c ELSE commit[j]
                      /\ applied'[j] = IF j = i THEN a ELSE applied[j]
  BY <1>1, <1>2, Zenon DEF TypeOK
<1>7. IndexesOrdered'
  BY <1>1, <1>6 DEF IndexesOrdered
<1>8. ActiveInLog'
  BY <1>1, <1>3, <1>6, Zenon DEF ActiveInLog
<1> QED BY <1>5, <1>7, <1>8, Zenon DEF IndInv

\* The number of records kept lies within the log, and not before the place
\* where the entries go.
LEMMA KeepsBound ==
    ASSUME NEW i, NEW m, log[i] \in Seq(Record), m.prevIndex \in Nat, m.entries \in Seq(Record),
           NEW n \in 0..Len(log[i]), Keeps(i, m, n), SaysLogIsJunk(i, m) \/ ~PrevMissing(i, m)
    PROVE  m.prevIndex <= n
<1>1. Len(log[i]) \in Nat
  OBVIOUS
<1>2. CASE SaysLogIsJunk(i, m)
  BY <1>1, <1>2 DEF SaysLogIsJunk
<1>3. CASE ~SaysLogIsJunk(i, m) /\ Mismatches(i, m) = {} /\ n = Len(log[i])
  BY <1>1, <1>3 DEF PrevMissing
<1>4. CASE \E k \in Mismatches(i, m) : n = m.prevIndex + k - 1
  BY <1>4 DEF Mismatches
<1> QED BY <1>2, <1>3, <1>4, Zenon DEF Keeps

\* SqliteLog.delete_all_from keeps the indexes in order.
LEMMA TruncateInd ==
    ASSUME IndInv, NEW m \in msgs, AtFollower(m), NEW n \in 0..Len(log[m.to]),
           Truncate(m.to, n), msgs' \subseteq Message
    PROVE  IndInv'
<1> DEFINE i == m.to
<1>1. TypeOK
  BY Zenon DEF IndInv
<1>2. i \in Node /\ log[i] \in Seq(Record) /\ commit[i] \in Nat /\ applied[i] \in Nat
  BY <1>1, AtFollowerFacts, Zenon
<1>3. SubSeq(log[i], 1, n) \in Seq(Record) /\ Len(SubSeq(log[i], 1, n)) = n /\ n \in Nat
  BY <1>2, LogFacts, Zenon
<1>4. applied[i] <= commit[i]
  BY <1>2, Zenon DEF IndInv, IndexesOrdered
<1>5. /\ Lesser(commit[i], n) \in Nat /\ Lesser(applied[i], n) \in Nat
      /\ Lesser(applied[i], n) <= Lesser(commit[i], n) /\ Lesser(commit[i], n) <= n
  BY <1>2, <1>3, <1>4 DEF Lesser
<1>6. /\ log' = [log EXCEPT ![i] = SubSeq(log[i], 1, n)]
      /\ commit' = [commit EXCEPT ![i] = Lesser(commit[i], n)]
      /\ applied' = [applied EXCEPT ![i] = Lesser(applied[i], n)]
      /\ UNCHANGED <<ran, chosen>>
  BY <1>1, <1>2, Zenon DEF Truncate, TypeOK
<1>7. ran' \in [Node -> SUBSET [index : Nat, command : Command]]
  BY <1>1, <1>6, Zenon DEF TypeOK
<1> QED BY <1>3, <1>5, <1>6, <1>7, AtFollowerInd, Zenon

\* The four outcomes of Follower.on_append_entries, and the refusal by a
\* node that is not a follower.
LEMMA AppendInd ==
    ASSUME IndInv, NEW m \in msgs,
           RejectAppend(m) \/ RefuseAppend(m) \/ DropConflict(m) \/ FailAppend(m)
    PROVE  IndInv'
<1> DEFINE i == m.to
<1>1. TypeOK /\ msgs \subseteq Message
  BY Zenon DEF IndInv, TypeOK
<1>2. ASSUME NEW ok \in BOOLEAN, NEW t \in Nat, NEW last \in Nat, m.type = "AppendEntries"
      PROVE  (msgs \ {m}) \cup {AppendReply(m, t, ok, last)} \subseteq Message
  BY <1>1, <1>2, ReplyTypes, Zenon
<1>3. CASE RejectAppend(m)
  <2>1. i \in Node
    BY <1>1, <1>3, AppendEntriesFields, Zenon DEF RejectAppend
  <2>2. term[i] \in Nat /\ Len(log[i]) \in Nat
    BY <1>1, <2>1, LogFacts, Zenon DEF TypeOK
  <2>3. msgs' \subseteq Message
    BY <1>2, <1>3, <2>2, Zenon DEF RejectAppend
  <2>4. UNCHANGED <<store, term, votedFor, role, cand, lead, timing, grants, spent>>
    BY <1>3, Zenon DEF RejectAppend
  <2>5. TypeOK'
    BY <1>1, <2>3, <2>4, Zenon DEF TypeOK, TimingOK, store, timing
  <2> QED BY <2>4, <2>5, StoreSame, Zenon DEF IndInv
<1>4. CASE RefuseAppend(m)
  <2>1. AtFollower(m) /\ UNCHANGED store
    BY <1>4, Zenon DEF RefuseAppend
  <2>2. /\ m.type = "AppendEntries" /\ i \in Node /\ BecomeFollower(i) /\ LoseRole(i)
        /\ term' \in [Node -> Nat] /\ votedFor' \in [Node -> Node \cup {None}]
        /\ UNCHANGED <<deaf, grants, spent>>
        /\ log[i] \in Seq(Record)
    BY <1>1, <2>1, AtFollowerFacts, Zenon
  <2>3. term'[i] \in Nat /\ Len(log[i]) \in Nat
    BY <2>2
  <2>4. msgs' \subseteq Message
    BY <1>2, <1>4, <2>2, <2>3, Zenon DEF RefuseAppend
  <2>5. TimingOK'
    BY <1>1, <2>2, FollowerTiming, Zenon DEF TypeOK, TimingOK
  <2>6. TypeOK'
    BY <1>1, <2>1, <2>2, <2>4, <2>5, FollowerAgain, Zenon DEF TypeOK, store
  <2> QED BY <1>1, <2>1, <2>2, <2>6, FollowerAgain, StoreSame, Zenon DEF IndInv
<1>5. CASE DropConflict(m)
  <2>1. AtFollower(m) /\ Truncate(i, m.prevIndex - 1) /\ PrevConflicts(i, m)
    BY <1>5, Zenon DEF DropConflict
  <2>2. /\ m.type = "AppendEntries" /\ i \in Node /\ term' \in [Node -> Nat]
        /\ log[i] \in Seq(Record) /\ m.prevIndex \in Nat
    BY <1>1, <2>1, AtFollowerFacts, Zenon
  <2>3. m.prevIndex - 1 \in 0..Len(log[i]) /\ m.prevIndex - 1 \in Nat /\ term'[i] \in Nat
    BY <2>1, <2>2 DEF PrevConflicts
  <2>4. msgs' \subseteq Message
    BY <1>2, <1>5, <2>2, <2>3, Zenon DEF DropConflict
  <2> QED BY <2>1, <2>3, <2>4, TruncateInd, Zenon
<1>6. CASE FailAppend(m)
  <2>1. AtFollower(m) /\ msgs' \subseteq Message
    BY <1>1, <1>6, Zenon DEF FailAppend
  <2>2. PICK n \in 0..Len(log[i]) : Truncate(i, n)
    BY <1>6, Zenon DEF FailAppend
  <2> QED BY <2>1, <2>2, TruncateInd, Zenon
<1> QED BY <1>3, <1>4, <1>5, <1>6, Zenon

\* Entries stored and the leader's commit index followed.
LEMMA AcceptAppendInd ==
    ASSUME IndInv, NEW m \in msgs, AcceptAppend(m)
    PROVE  IndInv'
<1> DEFINE i == m.to
<1>1. TypeOK /\ msgs \subseteq Message /\ AtFollower(m)
  BY Zenon DEF IndInv, TypeOK, AcceptAppend
<1>2. /\ m \in Message /\ m.type = "AppendEntries" /\ i \in Node
      /\ term' \in [Node -> Nat]
      /\ log[i] \in Seq(Record)
      /\ commit[i] \in Nat /\ applied[i] \in Nat
      /\ m.prevIndex \in Nat /\ m.entries \in Seq(Record) /\ m.commit \in Nat
  BY <1>1, AtFollowerFacts, Zenon
<1>3. PICK n \in 0..Len(log[i]) :
          /\ Keeps(i, m, n)
          /\ StoreAndAnswer(m, n, Stored(SubSeq(log[i], 1, n), m.prevIndex, m.entries))
  BY Zenon DEF AcceptAppend
<1>4. m.prevIndex <= n /\ n \in Nat
  BY <1>2, <1>3, KeepsBound DEF AcceptAppend
<1>5. SubSeq(log[i], 1, n) \in Seq(Record) /\ Len(SubSeq(log[i], 1, n)) = n
  BY <1>2, LogFacts, Zenon
<1> DEFINE L == Stored(SubSeq(log[i], 1, n), m.prevIndex, m.entries)
           c == Lesser(commit[i], n)
           a == Lesser(applied[i], n)
           top == Lesser(m.commit, Len(L))
<1>6. L \in Seq(Record) /\ Len(L) = Greater(n, m.prevIndex + Len(m.entries))
  <2> DEFINE kept == SubSeq(log[i], 1, n)
  <2>1. m.prevIndex \in 0..Len(kept) /\ kept \in Seq(Record) /\ Len(kept) = n
    BY <1>2, <1>4, <1>5
  <2>2. L = Stored(kept, m.prevIndex, m.entries)
    OBVIOUS
  <2> HIDE DEF kept, L
  <2>3. /\ Stored(kept, m.prevIndex, m.entries) \in Seq(Record)
        /\ Len(Stored(kept, m.prevIndex, m.entries))
              = Greater(Len(kept), m.prevIndex + Len(m.entries))
    BY <1>2, <2>1, StoredType, Zenon
  <2> QED BY <2>1, <2>2, <2>3, Zenon
<1>7. Len(L) \in Nat /\ n <= Len(L)
  BY <1>2, <1>4, <1>6 DEF Greater
<1> HIDE DEF L
<1>8. /\ log' = [log EXCEPT ![i] = L]
      /\ CommitAndApply(i, L, c, a, m.commit)
      /\ msgs' = (msgs \ {m}) \cup {AppendReply(m, term'[i], TRUE, Len(L))}
  BY <1>3, Zenon DEF StoreAndAnswer, L
<1>9. /\ commit' = [commit EXCEPT ![i] = Greater(c, top)]
      /\ applied' = [applied EXCEPT ![i] = Greater(a, top)]
      /\ ran' = [ran EXCEPT ![i] = @ \cup CommandsIn(L, a, top)]
      /\ UNCHANGED chosen
  BY <1>8, Zenon DEF CommitAndApply
<1>10. applied[i] <= commit[i]
  BY <1>2, Zenon DEF IndInv, IndexesOrdered
<1>11. a \in Nat /\ c \in Nat /\ top \in Nat /\ a <= c /\ c <= n /\ top <= Len(L)
  BY <1>2, <1>4, <1>7, <1>10 DEF Lesser
<1> HIDE DEF a, c, top
<1>12. /\ Greater(c, top) \in Nat /\ Greater(a, top) \in Nat
       /\ Greater(a, top) <= Greater(c, top) /\ Greater(c, top) <= Len(L)
  BY <1>4, <1>7, <1>11 DEF Greater
<1>13. ran' \in [Node -> SUBSET [index : Nat, command : Command]]
  <2>1. CommandsIn(L, a, top) \subseteq [index : Nat, command : Command]
    BY <1>6, <1>11, CommandsInType, Zenon
  <2> QED BY <1>1, <1>2, <1>9, <2>1, Zenon DEF TypeOK
<1>14. msgs' \subseteq Message
  <2>1. term'[i] \in Nat
    BY <1>2, Zenon
  <2>2. AppendReply(m, term'[i], TRUE, Len(L)) \in Message
    BY <1>2, <1>7, <2>1, ReplyTypes, Zenon
  <2> QED BY <1>1, <1>8, <2>2, Zenon
<1> QED BY <1>1, <1>6, <1>8, <1>9, <1>12, <1>13, <1>14, AtFollowerInd, Zenon

\* Changes of the tracked requests alone: send_heartbeats and the replies to
\* heartbeats and fills.
LEMMA TrackInd ==
    ASSUME IndInv, NEW i \in Node, role[i] = "LEADER",
           NEW acks \in SUBSET (Nat \X Node), NEW more \in SUBSET AppendEntriesMessage,
           \A x \in more : x.prevIndex <= Len(log[i]) /\ x.kind # "broadcast",
           NEW gone,
           lead' = [lead EXCEPT ![i] = [acks |-> acks, active |-> (lead[i].active \ gone) \cup more]],
           UNCHANGED <<log, role>>
    PROVE  /\ lead' \in [Node -> [acks : SUBSET (Nat \X Node), active : SUBSET AppendEntriesMessage]]
           /\ \A j \in Node : role'[j] # "LEADER" => lead'[j] = NoLeadership
           /\ ActiveInLog'
<1>1. TypeOK /\ ActiveInLog
  BY Zenon DEF IndInv
<1>2. lead[i].active \subseteq AppendEntriesMessage
  BY <1>1, Zenon DEF TypeOK
<1>3. [acks |-> acks, active |-> (lead[i].active \ gone) \cup more]
         \in [acks : SUBSET (Nat \X Node), active : SUBSET AppendEntriesMessage]
  BY <1>2, Zenon
<1>4. lead' \in [Node -> [acks : SUBSET (Nat \X Node), active : SUBSET AppendEntriesMessage]]
  BY <1>1, <1>3, Zenon DEF TypeOK
<1>5. \A j \in Node : role'[j] # "LEADER" => lead'[j] = NoLeadership
  BY <1>1, Zenon DEF TypeOK
<1>6. /\ lead'[i].active = (lead[i].active \ gone) \cup more
      /\ \A j \in Node : j # i => lead'[j] = lead[j]
  BY <1>1, Zenon DEF TypeOK
<1>7. ActiveInLog'
  BY <1>1, <1>6, Zenon DEF ActiveInLog
<1> QED BY <1>4, <1>5, <1>7, Zenon

\* One backdown or catchup message.
LEMMA FillType ==
    ASSUME TypeOK, NEW i \in Node, NEW j \in Node, NEW first \in 1..Len(log[i]),
           NEW last \in 0..Len(log[i]), NEW c \in Nat
    PROVE  /\ Fill(i, j, first, last, c) \in AppendEntriesMessage
           /\ Fill(i, j, first, last, c).prevIndex = first - 1
           /\ Fill(i, j, first, last, c).kind = "fill"
<1>1. log[i] \in Seq(Record) /\ Len(log[i]) \in Nat /\ term[i] \in Nat
  BY DEF TypeOK
<1>2. first - 1 \in 0..Len(log[i]) /\ first - 1 \in Nat
  BY <1>1
<1>3. TermAt(log[i], first - 1) \in Nat
  BY <1>1, <1>2, LogFacts, Zenon
<1>4. SubSeq(log[i], first, last) \in Seq(Record)
  BY <1>1
<1> QED BY <1>1, <1>2, <1>3, <1>4, Zenon DEF Fill, AppendEntriesMessage, Kinds

\* send_catchup and send_backdown stay within the leader's log.
LEMMA ResendFacts ==
    ASSUME IndInv, NEW i \in Node, NEW m \in Message, m.type = "AppendResponse",
           m.request \in lead[i].active, NEW c \in Nat
    PROVE  /\ CatchUp(i, m, c) \subseteq AppendEntriesMessage
           /\ BackDown(i, m) \subseteq AppendEntriesMessage
           /\ \A x \in CatchUp(i, m, c) \cup BackDown(i, m) :
                 x.prevIndex <= Len(log[i]) /\ x.kind # "broadcast"
<1>1. /\ TypeOK
      /\ log[i] \in Seq(Record) /\ Len(log[i]) \in Nat /\ commit[i] \in Nat
      /\ MaxEntries \in Nat
  <2>1. TypeOK
    BY Zenon DEF IndInv
  <2>2. log[i] \in Seq(Record) /\ Len(log[i]) \in Nat /\ commit[i] \in Nat
    BY <2>1 DEF TypeOK
  <2>3. MaxEntries \in Nat
    BY SettingAssumption, Zenon
  <2> QED BY <2>1, <2>2, <2>3, Zenon
<1>2. /\ m.from \in Node /\ m.maxIndex \in Nat /\ m.request.prevIndex \in Nat
      /\ m.request.prevIndex <= Len(log[i])
  <2>1. m.from \in Node /\ m.maxIndex \in Nat /\ m.request.prevIndex \in Nat
    BY AppendResponseFields, Zenon
  <2>2. ActiveInLog
    BY Zenon DEF IndInv
  <2> QED BY <2>1, <2>2, Zenon DEF ActiveInLog
<1>3. /\ CatchUp(i, m, c) \subseteq AppendEntriesMessage
      /\ \A x \in CatchUp(i, m, c) : x.prevIndex <= Len(log[i]) /\ x.kind # "broadcast"
  <2>1. CASE m.maxIndex >= Len(log[i])
    BY <2>1, Zenon DEF CatchUp
  <2>2. CASE m.maxIndex < Len(log[i])
    <3> DEFINE last == Lesser(Len(log[i]), m.maxIndex + 1 + MaxEntries)
    <3>1. m.maxIndex + 1 \in 1..Len(log[i]) /\ last \in 0..Len(log[i])
      BY <1>1, <1>2, <2>2 DEF Lesser
    <3>2. CatchUp(i, m, c) = {Fill(i, m.from, m.maxIndex + 1, last, c)}
      BY <1>1, <1>2, <2>2 DEF CatchUp
    <3> HIDE DEF last
    <3> DEFINE first == m.maxIndex + 1
    <3>3. first - 1 = m.maxIndex
      BY <1>2
    <3>4. first \in 1..Len(log[i])
      BY <3>1, Zenon
    <3> HIDE DEF first
    <3>5. /\ Fill(i, m.from, first, last, c) \in AppendEntriesMessage
          /\ Fill(i, m.from, first, last, c).prevIndex = m.maxIndex
          /\ Fill(i, m.from, first, last, c).kind = "fill"
      BY <1>1, <1>2, <3>1, <3>3, <3>4, FillType
    <3> QED BY <1>1, <1>2, <2>2, <3>2, <3>5 DEF first
  <2> QED BY <1>1, <1>2, <2>1, <2>2
<1>4. /\ BackDown(i, m) \subseteq AppendEntriesMessage
      /\ \A x \in BackDown(i, m) : x.prevIndex <= Len(log[i]) /\ x.kind # "broadcast"
  <2> DEFINE index == IF m.maxIndex < m.request.prevIndex THEN m.maxIndex + 1
                                                          ELSE m.request.prevIndex
  <2>1. index \in 0..Len(log[i])
    BY <1>1, <1>2
  <2>2. BackDown(i, m) = IF index = 0 THEN {} ELSE {Fill(i, m.from, index, index, commit[i])}
    BY Zenon DEF BackDown
  <2> HIDE DEF index
  <2>3. CASE index = 0
    BY <2>2, <2>3, Zenon
  <2>4. CASE index # 0
    <3>1. index \in 1..Len(log[i])
      BY <1>1, <2>1, <2>4
    <3>2. /\ Fill(i, m.from, index, index, commit[i]) \in AppendEntriesMessage
          /\ Fill(i, m.from, index, index, commit[i]).prevIndex = index - 1
          /\ Fill(i, m.from, index, index, commit[i]).kind = "fill"
      BY <1>1, <1>2, <2>1, <3>1, FillType
    <3> QED BY <1>1, <2>2, <2>4, <3>1, <3>2
  <2> QED BY <2>3, <2>4, Zenon
<1> QED BY <1>3, <1>4, Zenon

\* Assigning active_messages leaves log_vote_trackers alone.
LEMMA TrackedAs ==
    ASSUME TypeOK, NEW i \in Node, NEW X
    PROVE  [lead EXCEPT ![i].active = X]
              = [lead EXCEPT ![i] = [acks |-> lead[i].acks, active |-> X]]
<1>1. lead[i] \in [acks : SUBSET (Nat \X Node), active : SUBSET AppendEntriesMessage]
  BY Zenon DEF TypeOK
<1>2. [lead[i] EXCEPT !.active = X] = [acks |-> lead[i].acks, active |-> X]
  BY <1>1
<1> QED BY <1>2, Zenon

\* send_heartbeats.
LEMMA SendHeartbeatsInd ==
    ASSUME IndInv, NEW i \in Node, SendHeartbeats(i)
    PROVE  IndInv'
<1>1. TypeOK
  BY Zenon DEF IndInv
<1>2. /\ log[i] \in Seq(Record) /\ Len(log[i]) \in Nat /\ LastTerm(log[i]) \in Nat
      /\ term[i] \in Nat /\ commit[i] \in Nat
  BY <1>1, LogFacts, Zenon DEF TypeOK
<1>3. ASSUME NEW j \in Node
      PROVE  [type |-> "AppendEntries", from |-> i, to |-> j, term |-> term[i],
              prevIndex |-> Len(log[i]), prevTerm |-> LastTerm(log[i]),
              entries |-> <<>>, commit |-> commit[i], kind |-> "heartbeat"]
                 \in AppendEntriesMessage
  <2>1. <<>> \in Seq(Record)
    OBVIOUS
  <2> QED BY <1>2, <2>1, Zenon DEF AppendEntriesMessage, Kinds
<1>4. HeartbeatMessages(i) \in SUBSET AppendEntriesMessage
  BY <1>3, Zenon DEF HeartbeatMessages, Others
<1>5. \A x \in HeartbeatMessages(i) : x.prevIndex <= Len(log[i]) /\ x.kind # "broadcast"
  BY <1>2 DEF HeartbeatMessages
<1>6. /\ role[i] = "LEADER" /\ Spend("heartbeat")
      /\ lead' = [lead EXCEPT ![i].active = @ \cup HeartbeatMessages(i)]
      /\ msgs' = msgs \cup HeartbeatMessages(i)
      /\ UNCHANGED <<store, term, votedFor, role, cand, timing, grants>>
  BY Zenon DEF SendHeartbeats
<1>7. lead[i].acks \in SUBSET (Nat \X Node)
  BY <1>1, Zenon DEF TypeOK
<1>8. lead' = [lead EXCEPT ![i] = [acks |-> lead[i].acks,
                                   active |-> (lead[i].active \ {}) \cup HeartbeatMessages(i)]]
  <2>1. lead' = [lead EXCEPT ![i].active = (lead[i].active \ {}) \cup HeartbeatMessages(i)]
    BY <1>6, Zenon
  <2> QED BY <1>1, <2>1, TrackedAs, Zenon
<1>9. UNCHANGED <<log, commit, applied, ran, chosen, term, votedFor, role, cand, timing, grants>>
  BY <1>6, Zenon DEF store
<1>10. /\ lead' \in [Node -> [acks : SUBSET (Nat \X Node), active : SUBSET AppendEntriesMessage]]
       /\ \A j \in Node : role'[j] # "LEADER" => lead'[j] = NoLeadership
       /\ ActiveInLog'
  <2>1. role[i] = "LEADER" /\ UNCHANGED <<log, role>>
    BY <1>6, <1>9, Zenon
  <2> QED BY <1>4, <1>5, <1>7, <1>8, <2>1, TrackInd, Zenon
<1>11. spent' \in [Events -> Nat]
  BY <1>1, <1>6, SpendType, Zenon DEF Events
<1>12. msgs' \subseteq Message
  BY <1>1, <1>4, <1>6, Zenon DEF TypeOK, Message
<1>13. TypeOK'
  BY <1>1, <1>9, <1>10, <1>11, <1>12, Zenon DEF TypeOK, TimingOK, timing
<1>14. IndexesOrdered'
  BY <1>9, Zenon DEF IndInv, IndexesOrdered
<1> QED BY <1>10, <1>13, <1>14, Zenon DEF IndInv

\* check_quorum, term_expired, a crash, a graceful stop.
LEMMA RoleLostInd ==
    ASSUME IndInv,
           \/ \E i \in Node : \/ Resign(i) \/ Crash(i) \/ CrashInLeaderLost(i)
                             \/ StopAndRestart(i)
           \/ \E m \in msgs : StepDown(m) \/ YieldUnheard(m) \/ CrashInTermExpired(m)
    PROVE  IndInv'
<1> DEFINE Lost(i) == /\ LoseRole(i)
                      /\ \/ BecomeFollower(i) \/ Restart(i)
                         \/ task' = [task EXCEPT ![i] = ResignedTask]
                      /\ deaf' \subseteq Node
                      /\ term' \in [Node -> Nat]
                      /\ votedFor' \in [Node -> Node \cup {None}]
                      /\ msgs' \subseteq msgs
                      /\ spent' \in [Events -> Nat]
                      /\ UNCHANGED <<store, grants>>
<1>1. TypeOK
  BY Zenon DEF IndInv
<1>2. PICK i \in Node : Lost(i)
  <2>1. ASSUME NEW i \in Node, Resign(i) PROVE Lost(i)
    BY <1>1, <2>1, Zenon DEF Resign, TypeOK, TimingOK
  <2>2. ASSUME NEW i \in Node, Crash(i) \/ CrashInLeaderLost(i) \/ StopAndRestart(i)
        PROVE  Lost(i)
    <3>1. spent' \in [Events -> Nat]
      BY <1>1, <2>2, SpendType, Zenon DEF Crash, CrashInLeaderLost, StopAndRestart, Events
    <3>2. Restart(i)
      BY <2>2, Zenon DEF Crash, CrashInLeaderLost, StopAndRestart
    <3>3. LoseRole(i) /\ deaf' \subseteq Node
      BY <1>1, <3>2, Zenon DEF Restart, TypeOK, TimingOK
    <3> QED BY <1>1, <2>2, <3>1, <3>2, <3>3, Zenon DEF Crash, CrashInLeaderLost, StopAndRestart, TypeOK
  <2>3. ASSUME NEW m \in msgs, StepDown(m) \/ YieldUnheard(m) \/ CrashInTermExpired(m)
        PROVE  m.to \in Node /\ Lost(m.to)
    <3>1. m \in Message
      BY <1>1, Zenon DEF TypeOK
    <3>2. m.to \in Node /\ m.term \in Nat
      BY <3>1, AppendResponseFields, AppendEntriesFields, RequestFields, VoteResponseFields
         DEF Message, AppendEntriesMessage, RequestMessage, VoteResponseMessage, AppendResponseMessage
    <3>3. CASE StepDown(m)
      BY <1>1, <3>2, <3>3, Zenon DEF StepDown, BecomeFollower, TypeOK, TimingOK
    <3>4. CASE YieldUnheard(m)
      BY <1>1, <3>2, <3>4, Zenon DEF YieldUnheard, BecomeFollower, TypeOK, TimingOK
    <3>5. CASE CrashInTermExpired(m)
      <4>1. spent' \in [Events -> Nat]
        BY <1>1, <3>5, SpendType, Zenon DEF CrashInTermExpired, Events
      <4>2. Restart(m.to) /\ LoseRole(m.to) /\ deaf' \subseteq Node
        BY <1>1, <3>5, Zenon DEF CrashInTermExpired, Restart, TypeOK, TimingOK
      <4>3. votedFor' \in [Node -> Node \cup {None}]
        <5>1. PICK vote \in {votedFor[m.to], None} : votedFor' = [votedFor EXCEPT ![m.to] = vote]
          BY <3>5, Zenon DEF CrashInTermExpired
        <5>2. vote \in Node \cup {None}
          BY <1>1, <3>2, <5>1, Zenon DEF TypeOK
        <5> QED BY <1>1, <5>1, <5>2, Zenon DEF TypeOK
      <4>4. /\ term' = [term EXCEPT ![m.to] = m.term]
            /\ msgs' = msgs \ {m}
            /\ UNCHANGED <<store, grants>>
        BY <3>5, Zenon DEF CrashInTermExpired
      <4>5. term' \in [Node -> Nat] /\ msgs' \subseteq msgs
        BY <1>1, <3>2, <4>4, Zenon DEF TypeOK
      <4> QED BY <4>1, <4>2, <4>3, <4>4, <4>5
    <3> QED BY <2>3, <3>2, <3>3, <3>4, <3>5, Zenon
  <2> QED BY <2>1, <2>2, <2>3, Zenon
<1>3. TimingOK'
  BY <1>1, <1>2, FollowerTiming, Zenon
<1>4. TypeOK'
  BY <1>1, <1>2, <1>3, FollowerAgain, Zenon DEF TypeOK, store
<1> QED BY <1>1, <1>2, <1>4, FollowerAgain, StoreSame, Zenon DEF IndInv

\* The timer of a Leader that resigned long ago.
LEMMA ResignAgainInd ==
    ASSUME IndInv, NEW i \in Node, ResignAgain(i)
    PROVE  IndInv'
<1>1. TypeOK'
  BY Zenon DEF IndInv, ResignAgain, TypeOK, TimingOK, store, timing
<1> QED BY <1>1, StoreSame, Zenon DEF ResignAgain, IndInv

\* A reply with no addressee changes nothing.
LEMMA IgnoreAppendResponseInd ==
    ASSUME IndInv, NEW m \in msgs, IgnoreAppendResponse(m)
    PROVE  IndInv'
<1>1. TypeOK'
  BY Zenon DEF IndInv, IgnoreAppendResponse, TypeOK, TimingOK, store, timing
<1> QED BY <1>1, StoreSame, Zenon DEF IgnoreAppendResponse, IndInv

\* What every tracked reply finds.
LEMMA AnsweredFacts ==
    ASSUME IndInv, NEW m \in msgs, NEW more, Answered(m.to, m, more)
    PROVE  /\ TypeOK /\ m \in Message /\ m.type = "AppendResponse" /\ m.to \in Node
           /\ m.from \in Node /\ m.request.prevIndex \in Nat
           /\ role[m.to] = "LEADER" /\ m.request \in lead[m.to].active
           /\ lead[m.to].acks \in SUBSET (Nat \X Node)
           /\ msgs' = (msgs \ {m}) \cup more
           /\ UNCHANGED <<term, votedFor, log, role, cand, timing, grants, spent>>
<1>1. TypeOK
  BY Zenon DEF IndInv
<1>2. m \in Message /\ m.type = "AppendResponse"
  BY <1>1, Zenon DEF TypeOK, Answered
<1>3. m.to \in Node /\ m.from \in Node /\ m.request.prevIndex \in Nat
  BY <1>2, AppendResponseFields, Zenon
<1>4. lead[m.to].acks \in SUBSET (Nat \X Node)
  BY <1>1, <1>3, Zenon DEF TypeOK
<1> QED BY <1>1, <1>2, <1>3, <1>4, Zenon DEF Answered

\* The reply to a heartbeat or a fill.
LEMMA ResyncResponseInd ==
    ASSUME IndInv, NEW m \in msgs, ResyncResponse(m)
    PROVE  IndInv'
<1> DEFINE i == m.to
           more == IF ~m.success THEN BackDown(i, m)
                   ELSE IF m.request.kind = "fill" THEN CatchUp(i, m, commit[i])
                   ELSE {}
<1>1. /\ Answered(i, m, more)
      /\ lead' = [lead EXCEPT ![i].active = (@ \ {m.request}) \cup more]
      /\ UNCHANGED <<commit, applied, ran, chosen>>
  BY Zenon DEF ResyncResponse
<1>2. /\ TypeOK /\ m \in Message /\ m.type = "AppendResponse" /\ i \in Node
      /\ role[i] = "LEADER" /\ m.request \in lead[i].active
      /\ lead[i].acks \in SUBSET (Nat \X Node)
      /\ msgs' = (msgs \ {m}) \cup more
      /\ UNCHANGED <<term, votedFor, log, role, cand, timing, grants, spent>>
  <2> HIDE DEF more
  <2> QED BY <1>1, AnsweredFacts, Zenon
<1>3. commit[i] \in Nat
  BY <1>2, Zenon DEF TypeOK
<1>4. /\ more \in SUBSET AppendEntriesMessage
      /\ \A x \in more : x.prevIndex <= Len(log[i]) /\ x.kind # "broadcast"
  BY <1>2, <1>3, ResendFacts, Zenon
<1> HIDE DEF more
<1>5. lead' = [lead EXCEPT ![i] = [acks |-> lead[i].acks,
                                   active |-> (lead[i].active \ {m.request}) \cup more]]
  BY <1>1, <1>2, TrackedAs, Zenon
<1>6. /\ lead' \in [Node -> [acks : SUBSET (Nat \X Node), active : SUBSET AppendEntriesMessage]]
      /\ \A j \in Node : role'[j] # "LEADER" => lead'[j] = NoLeadership
      /\ ActiveInLog'
  BY <1>2, <1>4, <1>5, TrackInd, Zenon
<1>7. TypeOK'
  <2>1. msgs' \subseteq Message
    BY <1>2, <1>4, Zenon DEF TypeOK, Message
  <2> QED BY <1>1, <1>2, <1>6, <2>1, Zenon DEF TypeOK, TimingOK, timing
<1>8. IndexesOrdered'
  BY <1>1, <1>2, Zenon DEF IndInv, IndexesOrdered
<1> QED BY <1>6, <1>7, <1>8, Zenon DEF IndInv

\* process_ready_log_record: commit and apply up to a record of the log.
LEMMA LeaderCommitFacts ==
    ASSUME IndInv, NEW i \in Node, NEW index \in 1..Len(log[i]), NEW ready \in BOOLEAN,
           LeaderCommit(i, index, ready), UNCHANGED log
    PROVE  /\ commit' \in [Node -> Nat]
           /\ applied' \in [Node -> Nat]
           /\ ran' \in [Node -> SUBSET [index : Nat, command : Command]]
           /\ chosen' \subseteq [index : Nat, record : Record, term : Nat]
           /\ IndexesOrdered'
<1>1. TypeOK /\ IndexesOrdered
  BY Zenon DEF IndInv
<1>2. CASE ~ready
  BY <1>1, <1>2, Zenon DEF LeaderCommit, TypeOK, IndexesOrdered
<1>3. CASE ready
  <2>1. /\ log[i] \in Seq(Record) /\ Len(log[i]) \in Nat /\ term[i] \in Nat
        /\ commit[i] \in Nat /\ applied[i] \in Nat /\ index \in Nat /\ index <= Len(log[i])
        /\ applied[i] <= commit[i] /\ commit[i] <= Len(log[i])
    BY <1>1 DEF TypeOK, IndexesOrdered
  <2>2. PICK a \in {applied[i]} \cup LeaderApplied(i, index) :
            applied' = [applied EXCEPT ![i] = a]
    BY <1>3, Zenon DEF LeaderCommit
  <2>3. a \in Nat /\ a <= Greater(commit[i], index)
    <3>1. CASE a = applied[i]
      BY <2>1, <3>1 DEF Greater
    <3>2. CASE a \in LeaderApplied(i, index)
      <4>1. a \in (applied[i] + 1)..index
        BY <3>2, Zenon DEF LeaderApplied
      <4> QED BY <2>1, <4>1 DEF Greater
    <3> QED BY <3>1, <3>2, Zenon
  <2>4. Greater(commit[i], index) \in Nat /\ Greater(commit[i], index) <= Len(log[i])
    BY <2>1, Zenon DEF Greater
  <2>5. /\ commit' = [commit EXCEPT ![i] = Greater(commit[i], index)]
        /\ ran' = [ran EXCEPT ![i] = ran[i] \cup CommandsIn(log[i], applied[i], index)]
        /\ chosen' = chosen \cup {[index |-> k, record |-> log[i][k], term |-> term[i]] :
                                     k \in (commit[i] + 1)..index}
    BY <1>3, Zenon DEF LeaderCommit
  <2>6. commit' \in [Node -> Nat] /\ applied' \in [Node -> Nat]
    BY <1>1, <2>2, <2>3, <2>4, <2>5, Zenon DEF TypeOK
  <2>7. ran' \in [Node -> SUBSET [index : Nat, command : Command]]
    <3>1. CommandsIn(log[i], applied[i], index) \subseteq [index : Nat, command : Command]
      BY <2>1, CommandsInType, Zenon
    <3> QED BY <1>1, <2>5, <3>1, Zenon DEF TypeOK
  <2>8. chosen' \subseteq [index : Nat, record : Record, term : Nat]
    <3>1. \A k \in (commit[i] + 1)..index : k \in Nat /\ log[i][k] \in Record
      BY <2>1
    <3> QED BY <1>1, <2>1, <2>5, <3>1 DEF TypeOK
  <2>9. \A j \in Node : /\ commit'[j] = IF j = i THEN Greater(commit[i], index) ELSE commit[j]
                        /\ applied'[j] = IF j = i THEN a ELSE applied[j]
    BY <1>1, <2>2, <2>5, Zenon DEF TypeOK
  <2>10. IndexesOrdered'
    BY <1>1, <2>3, <2>4, <2>9, Zenon DEF IndexesOrdered
  <2> QED BY <2>6, <2>7, <2>8, <2>10, Zenon
<1> QED BY <1>2, <1>3, Zenon

\* The reply to a broadcast record.
LEMMA BroadcastResponseInd ==
    ASSUME IndInv, NEW m \in msgs, BroadcastResponse(m)
    PROVE  IndInv'
<1> DEFINE i == m.to
           index == m.request.prevIndex + 1
           ready == Cardinality({j \in Node : <<index, j>> \in AcksAfter(i, m)}) >= CommitQuorum
<1>1. PICK more : /\ more = {} \/ more = CatchUp(i, m, commit'[i])
                  /\ Answered(i, m, more)
                  /\ lead' = [lead EXCEPT ![i] =
                                 [acks |-> AcksAfter(i, m),
                                  active |-> (@.active \ {m.request}) \cup more]]
  BY Zenon DEF BroadcastResponse
<1>2. LeaderCommit(i, index, ready) /\ m.request.kind = "broadcast"
  BY Zenon DEF BroadcastResponse
<1>3. /\ TypeOK /\ m \in Message /\ m.type = "AppendResponse" /\ i \in Node
      /\ m.from \in Node /\ m.request.prevIndex \in Nat
      /\ role[i] = "LEADER" /\ m.request \in lead[i].active
      /\ lead[i].acks \in SUBSET (Nat \X Node)
      /\ msgs' = (msgs \ {m}) \cup more
      /\ UNCHANGED <<term, votedFor, log, role, cand, timing, grants, spent>>
  BY <1>1, AnsweredFacts, Zenon
<1>4. index \in 1..Len(log[i]) /\ index \in Nat
  <2>1. m.request.prevIndex < Len(log[i]) /\ log[i] \in Seq(Record)
    BY <1>2, <1>3, Zenon DEF IndInv, ActiveInLog, TypeOK
  <2> QED BY <1>3, <2>1
<1>5. ready \in BOOLEAN
  OBVIOUS
<1> HIDE DEF ready
<1>6. /\ commit' \in [Node -> Nat]
      /\ applied' \in [Node -> Nat]
      /\ ran' \in [Node -> SUBSET [index : Nat, command : Command]]
      /\ chosen' \subseteq [index : Nat, record : Record, term : Nat]
      /\ IndexesOrdered'
  <2> HIDE DEF index
  <2> QED BY <1>2, <1>3, <1>4, <1>5, LeaderCommitFacts, Zenon
<1>7. /\ more \in SUBSET AppendEntriesMessage
      /\ \A x \in more : x.prevIndex <= Len(log[i]) /\ x.kind # "broadcast"
  <2>1. commit'[i] \in Nat
    BY <1>3, <1>6, Zenon
  <2> QED BY <1>1, <1>3, <2>1, ResendFacts, Zenon
<1>8. AcksAfter(i, m) \in SUBSET (Nat \X Node)
  BY <1>3, <1>4 DEF AcksAfter
<1>9. lead' = [lead EXCEPT ![i] = [acks |-> AcksAfter(i, m),
                                   active |-> (lead[i].active \ {m.request}) \cup more]]
  BY <1>1, Zenon
<1>10. /\ lead' \in [Node -> [acks : SUBSET (Nat \X Node), active : SUBSET AppendEntriesMessage]]
       /\ \A j \in Node : role'[j] # "LEADER" => lead'[j] = NoLeadership
       /\ ActiveInLog'
  BY <1>3, <1>7, <1>8, <1>9, TrackInd, Zenon
<1>11. TypeOK'
  <2>1. msgs' \subseteq Message
    BY <1>3, <1>7, Zenon DEF TypeOK, Message
  <2> QED BY <1>3, <1>6, <1>10, <2>1, Zenon DEF TypeOK, TimingOK, timing
<1> QED BY <1>6, <1>10, <1>11, Zenon DEF IndInv

\* Every step of every node keeps the invariant.
LEMMA NextInd == IndInv /\ [Next]_vars => IndInv'
<1> SUFFICES ASSUME IndInv, [Next]_vars PROVE IndInv'
  OBVIOUS
<1>1. CASE Next
  BY <1>1, CampaignsInd, LoopInd, VotesInd, WinVoteInd, RunCommandInd, AppendInd,
     AcceptAppendInd, SendHeartbeatsInd, RoleLostInd, ResignAgainInd, IgnoreAppendResponseInd,
     ResyncResponseInd, BroadcastResponseInd, Zenon DEF Next, Deliverable
<1>2. CASE UNCHANGED vars
  BY <1>2, Zenon DEF IndInv, TypeOK, TimingOK, IndexesOrdered, ActiveInLog, vars
<1> QED BY <1>1, <1>2, Zenon

\* Hence it holds throughout.
LEMMA IndInvariance == Spec => []IndInv
BY InitInd, NextInd, PTL DEF Spec

\* The variables of the cluster keep their types, and no vote count or
\* tracker outlives its role object, whatever the cluster size and settings.
THEOREM TypeCorrect == Spec => []TypeOK
<1>1. IndInv => TypeOK
  BY Zenon DEF IndInv
<1> QED BY <1>1, IndInvariance, PTL

\* In every node applied <= commit <= last index, through every truncation,
\* catchup and commit sweep, with or without pre-vote, quorum checks,
\* crashes and restarts.
THEOREM IndexOrder == Spec => []IndexesOrdered
<1>1. IndInv => IndexesOrdered
  BY Zenon DEF IndInv
<1> QED BY <1>1, IndInvariance, PTL
=============================================================================
