---------------------------- MODULE RaftCluster ----------------------------
(***************************************************************************)
(* The election and log replication core of raftengine: the three roles   *)
(* (src/raftengine/roles) driven by the Deck (src/raftengine/deck), over  *)
(* the SqliteLog store.  One action is one message handler or one timer    *)
(* callback of one node, taken as a whole; a campaign started by a timer   *)
(* is taken send by send when sending is slow.  The transport is the       *)
(* user's (PilotAPI): a message is delivered at most once, at any later    *)
(* time, in any order, or never.                                           *)
(***************************************************************************)
EXTENDS Integers, Sequences, FiniteSets

CONSTANTS
    Node,            \* the uris of the cluster configuration (fixed here)
    Command,         \* client commands
    TermStart,       \* the content of a term_start record
    None,            \* Python's None in voted_for
    UsePreVote,      \* settings.use_pre_vote
    UseCheckQuorum,  \* settings.use_check_quorum
    MaxEntries,      \* settings.max_entries_per_message
    SlowSend,        \* send_message may last until an answer to an earlier one comes
    Starts,          \* bound: where behaviours start, and what they may still do
    MaxCampaign,     \* bound: campaigns started, over all nodes
    MaxStale,        \* bound: campaigns started by a Candidate that is no longer the role
    MaxHeartbeat,    \* bound: rounds of heartbeats
    MaxCommand,      \* bound: client commands accepted
    MaxCrash,        \* bound: crashes followed by a restart
    MaxTorn,         \* bound: crashes inside leader_lost, followed by a restart
    MaxStop          \* bound: graceful deck.stop() followed by a restart

ASSUME NodeAssumption == IsFiniteSet(Node) /\ Node # {} /\ None \notin Node
ASSUME SettingAssumption ==
    /\ UsePreVote \in BOOLEAN /\ UseCheckQuorum \in BOOLEAN /\ SlowSend \in BOOLEAN
    /\ MaxEntries \in Nat
    /\ TermStart \notin Command

Events == {"campaign", "stale", "heartbeat", "command", "crash", "torn", "stop"}

\* A start: a running cluster or empty logs (established), the commands its leader
\* has taken and nobody received (stranded), the events that count as used up (spent)
ASSUME StartsAssumption ==
    Starts \subseteq [established : BOOLEAN, stranded : Nat, spent : [Events -> Nat]]

Bound == [campaign |-> MaxCampaign, stale |-> MaxStale, heartbeat |-> MaxHeartbeat,
          command |-> MaxCommand, crash |-> MaxCrash, torn |-> MaxTorn, stop |-> MaxStop]

VARIABLES
    term,      \* log.get_term(), persisted
    votedFor,  \* log.get_voted_for(), persisted
    log,       \* the records, persisted; the index is the position
    commit,    \* log.get_commit_index(), persisted
    applied,   \* log.get_applied_index(), persisted
    ran,       \* history: the commands given to process_command, by index
    role,      \* deck.role
    cand,      \* the Candidate object: votes and pre_votes (keys, and who said yes)
    lead,      \* the Leader object: log_vote_trackers and active_messages
    task,      \* what the deck's timer is armed for, or the campaign it runs
    deaf,      \* nodes whose message queue is blocked for good
    msgs,      \* messages sent and not yet handled
    grants,    \* history: every yes vote a follower sent
    chosen,    \* history: the records a leader has marked committed
    spent      \* how often each bounded event has happened or is ruled out

vars == <<term, votedFor, log, commit, applied, ran, role, cand, lead,
          task, deaf, msgs, grants, chosen, spent>>

store == <<log, commit, applied, ran, chosen>>

timing == <<task, deaf>>
-----------------------------------------------------------------------------
Record == [term : Nat, command : Command \cup {TermStart}]

Spend(event) ==
    /\ spent[event] < Bound[event]
    /\ spent' = [spent EXCEPT ![event] = @ + 1]

Others(i) == Node \ {i}

LastTerm(L) == IF L = <<>> THEN 0 ELSE L[Len(L)].term

\* get_prev_record_id: the term of the record before index p + 1
TermAt(L, p) == IF p = 0 THEN 0 ELSE L[p].term

Lesser(a, b) == IF a < b THEN a ELSE b

Greater(a, b) == IF a < b THEN b ELSE a

\* Mutant of Wins: half of the votes, rounded down, is enough
WinsByHalf(yes, voters) == Cardinality(yes) >= Cardinality(voters) \div 2

\* Candidate.on_vote_response: tally > len(self.votes) / 2
Wins(yes, voters) == 2 * Cardinality(yes) > Cardinality(voters)

\* Mutant of CommitQuorum: rounded down
FloorQuorum == Cardinality(Node) \div 2

\* assess_log_vote and check_quorum: math.ceil(node_count / 2)
CommitQuorum == (Cardinality(Node) + 1) \div 2

\* The client commands among the records a + 1 .. b of L
CommandsIn(L, a, b) ==
    {[index |-> k, command |-> L[k].command] :
        k \in {x \in (a + 1)..b : L[x].command # TermStart}}

FirstRecord == [term |-> 1, command |-> TermStart]

NoCampaign == [voters |-> {}, yes |-> {}, preVoters |-> {}, preYes |-> {}]

\* The timer is the one the current role has set
RoleTask == [kind |-> "role", term |-> 0, left |-> {}]

\* A campaign of a Candidate of term t is sending its requests, those to left to go
Asking(kind, t, left) == [kind |-> kind, term |-> t, left |-> left]

\* The timer calls election_timed_out of a Candidate of term t that is no longer deck.role
StaleTask(t) == [kind |-> "stale", term |-> t, left |-> {}]

\* The timer calls scheduled_send_heartbeats of a Leader that has resigned
ResignedTask == [kind |-> "resigned", term |-> 0, left |-> {}]

IsAsking(i) == task[i].kind \in {"base", "pre"}

NoLeadership == [acks |-> {}, active |-> {}]

\* broadcast_log_record: the record at index, to every other node
BroadcastMessages(i, t, L, index, c) ==
    {[type |-> "AppendEntries", from |-> i, to |-> j, term |-> t,
      prevIndex |-> index - 1, prevTerm |-> TermAt(L, index - 1),
      entries |-> <<L[index]>>, commit |-> c, kind |-> "broadcast"] : j \in Others(i)}

\* send_heartbeats: no entries, and the leader's last record as prev
HeartbeatMessages(i) ==
    {[type |-> "AppendEntries", from |-> i, to |-> j, term |-> term[i],
      prevIndex |-> Len(log[i]), prevTerm |-> LastTerm(log[i]),
      entries |-> <<>>, commit |-> commit[i], kind |-> "heartbeat"] : j \in Others(i)}

\* The requests to the nodes of to, from a Candidate of term t.  start_campaign_pre
\* sends the current term, not the last record's, as prevLogTerm.
VoteMessages(i, t, to) ==
    {[type |-> "RequestVote", from |-> i, to |-> j, term |-> t,
      prevIndex |-> Len(log[i]), prevTerm |-> LastTerm(log[i])] : j \in to}

PreVoteMessages(i, t, to) ==
    {[type |-> "PreVote", from |-> i, to |-> j, term |-> t + 1,
      prevIndex |-> Len(log[i]), prevTerm |-> term[i]] : j \in to}

VoteReply(m, yes) ==
    [type |-> "VoteResponse", from |-> m.to, to |-> m.from, term |-> m.term, vote |-> yes]

PreVoteReply(m, yes) ==
    [type |-> "PreVoteResponse", from |-> m.to, to |-> m.from, term |-> m.term, vote |-> yes]

\* original_serial is the request itself
AppendReply(m, t, ok, last) ==
    [type |-> "AppendResponse", from |-> m.to, to |-> m.from, term |-> t,
     success |-> ok, maxIndex |-> last, request |-> m]
-----------------------------------------------------------------------------
(* A cluster that has just been created, or one whose first leader has     *)
(* brought its term_start record to everybody and then, cut off from the   *)
(* others, taken some commands.                                            *)
FirstLog(c, n) ==
    [k \in 1..(1 + n) |-> IF k = 1 THEN FirstRecord ELSE [term |-> 1, command |-> c]]

FirstLeadership(first, c, n) ==
    [acks |-> ({1} \X Node) \cup ((2..(1 + n)) \X {first}),
     active |-> UNION {BroadcastMessages(first, 1, FirstLog(c, n), k, 1) : k \in 2..(1 + n)}]

Created ==
    /\ term = [i \in Node |-> 0]
    /\ votedFor = [i \in Node |-> None]
    /\ log = [i \in Node |-> <<>>]
    /\ commit = [i \in Node |-> 0]
    /\ applied = [i \in Node |-> 0]
    /\ role = [i \in Node |-> "FOLLOWER"]
    /\ lead = [i \in Node |-> NoLeadership]
    /\ grants = {}
    /\ chosen = {}

Running(n) ==
    /\ term = [i \in Node |-> 1]
    /\ commit = [i \in Node |-> 1]
    /\ chosen = {[index |-> 1, record |-> FirstRecord, term |-> 1]}
    /\ \E first \in Node, c \in Command :
          /\ votedFor = [i \in Node |-> IF i = first THEN None ELSE first]
          /\ log = [i \in Node |-> IF i = first THEN FirstLog(c, n) ELSE <<FirstRecord>>]
          /\ applied = [i \in Node |-> IF i = first THEN 0 ELSE 1]
          /\ role = [i \in Node |-> IF i = first THEN "LEADER" ELSE "FOLLOWER"]
          /\ lead = [i \in Node |-> IF i = first THEN FirstLeadership(first, c, n)
                                                 ELSE NoLeadership]
          /\ grants = {[voter |-> i, local |-> 1, cand |-> first, term |-> 1] :
                          i \in Others(first)}

Init ==
    /\ cand = [i \in Node |-> NoCampaign]
    /\ task = [i \in Node |-> RoleTask]
    /\ deaf = {}
    /\ ran = [i \in Node |-> {}]
    /\ msgs = {}
    /\ \E s \in Starts :
          /\ spent = s.spent
          /\ (~s.established /\ Created) \/ (s.established /\ Running(s.stranded))

\* Mutant of LoseRole: the trackers of the Leader object stay in use
LoseRoleKeepingTrackers(i) ==
    /\ role' = [role EXCEPT ![i] = "FOLLOWER"]
    /\ cand' = [cand EXCEPT ![i] = NoCampaign]
    /\ UNCHANGED lead

\* A new Follower object in the place of the role object
LoseRole(i) ==
    /\ role' = [role EXCEPT ![i] = "FOLLOWER"]
    /\ cand' = [cand EXCEPT ![i] = NoCampaign]
    /\ lead' = [lead EXCEPT ![i] = NoLeadership]

\* stop_role cancels the timer and the next role sets its own; a campaign under
\* way is not stopped
TaskOfNewRole(i) == IF IsAsking(i) THEN task[i] ELSE RoleTask

\* demote_and_handle, or nothing at all when the node is a Follower already
BecomeFollower(i) ==
    /\ LoseRole(i)
    /\ task' = [task EXCEPT ![i] = IF role[i] = "FOLLOWER" THEN @ ELSE TaskOfNewRole(i)]
-----------------------------------------------------------------------------
(* Campaigns *)

\* start_campaign_base with all its requests sent, beside the messages kept
CampaignBase(i, votes, kept) ==
    /\ term' = [term EXCEPT ![i] = @ + 1]
    /\ cand' = [cand EXCEPT ![i] = [votes EXCEPT !.voters = Node, !.yes = {i}]]
    /\ msgs' = kept \cup VoteMessages(i, term[i] + 1, Others(i))

\* start_campaign_pre with all its requests sent
CampaignPre(i, votes) ==
    /\ cand' = [cand EXCEPT ![i] = [votes EXCEPT !.preVoters = Node, !.preYes = {i}]]
    /\ msgs' = msgs \cup PreVoteMessages(i, term[i], Others(i))
    /\ UNCHANGED term

\* start_campaign when no answer is handled before it ends
CampaignAtOnce(i, votes) ==
    /\ IF UsePreVote THEN CampaignPre(i, votes) ELSE CampaignBase(i, votes, msgs)
    /\ UNCHANGED task

\* start_campaign up to its first request: Ask goes on
CampaignSlowly(i, t, votes) ==
    LET kind == IF UsePreVote THEN "pre" ELSE "base"
        next == IF UsePreVote THEN t ELSE t + 1
    IN  /\ term' = [term EXCEPT ![i] = IF UsePreVote THEN @ ELSE next]
        /\ cand' = [cand EXCEPT ![i] = votes]
        /\ task' = [task EXCEPT ![i] = Asking(kind, next, Node)]
        /\ UNCHANGED msgs

\* Candidate.start_campaign; votes are what this Candidate object has counted
Campaign(i, votes) ==
    \/ SlowSend /\ CampaignSlowly(i, term[i], votes)
    \/ ~SlowSend /\ CampaignAtOnce(i, votes)

\* Follower.contact_checker finds the leader silent: leader_lost,
\* Deck.start_campaign
LeaderLost(i) ==
    /\ role[i] = "FOLLOWER"
    /\ task[i].kind = "role"
    /\ Spend("campaign")
    /\ votedFor' = [votedFor EXCEPT ![i] = None]
    /\ role' = [role EXCEPT ![i] = "CANDIDATE"]
    /\ Campaign(i, NoCampaign)
    /\ UNCHANGED <<store, lead, deaf, grants>>

\* Candidate.election_timed_out, or the retry set up when a campaign is lost
CampaignAgain(i) ==
    /\ role[i] = "CANDIDATE"
    /\ task[i].kind = "role"
    /\ Spend("campaign")
    /\ Campaign(i, cand[i])
    /\ UNCHANGED <<store, votedFor, role, lead, deaf, grants>>

\* The votes of a Candidate object once its campaign comes to node j
VotesOnceAsked(i, j) ==
    CASE role[i] # "CANDIDATE" -> cand[i]
      [] role[i] = "CANDIDATE" /\ task[i].kind = "base" ->
            [cand[i] EXCEPT !.voters = @ \cup {j}, !.yes = (@ \ {j}) \cup ({i} \cap {j})]
      [] role[i] = "CANDIDATE" /\ task[i].kind = "pre" ->
            [cand[i] EXCEPT !.preVoters = @ \cup {j}, !.preYes = (@ \ {j}) \cup ({i} \cap {j})]

\* A turn of the loop of start_campaign_base or start_campaign_pre, which goes on
\* whatever has become of the Candidate
Ask(i, j) ==
    LET to == {j} \ {i} IN
    /\ IsAsking(i)
    /\ j \in task[i].left
    /\ task' = [task EXCEPT ![i].left = @ \ {j}]
    /\ cand' = [cand EXCEPT ![i] = VotesOnceAsked(i, j)]
    /\ msgs' = msgs \cup (IF task[i].kind = "pre" THEN PreVoteMessages(i, task[i].term, to)
                                                ELSE VoteMessages(i, task[i].term, to))
    /\ UNCHANGED <<store, term, votedFor, role, lead, deaf, grants, spent>>

\* The end of start_campaign_base or start_campaign_pre: run_after replaces
\* whatever timer a successor of the Candidate has set meanwhile
EndCampaign(i) ==
    /\ IsAsking(i)
    /\ task[i].left = {}
    /\ task' = [task EXCEPT ![i] = IF role[i] = "CANDIDATE" THEN RoleTask ELSE StaleTask(@.term)]
    /\ UNCHANGED <<store, term, votedFor, role, cand, lead, deaf, msgs, grants, spent>>

\* election_timed_out of a Candidate that is no longer the role
\* (_role_after_runner looks at the present role only)
StaleCampaign(i) ==
    /\ task[i].kind = "stale"
    /\ Spend("stale")
    /\ CampaignSlowly(i, task[i].term, cand[i])
    /\ UNCHANGED <<store, votedFor, role, lead, deaf, grants>>
-----------------------------------------------------------------------------
(* Votes *)

\* BaseRole.on_vote_request: a Candidate or Leader that is not outdated says no
RejectVoteRequest(m) ==
    /\ m.type = "RequestVote"
    /\ role[m.to] # "FOLLOWER"
    /\ m.term <= term[m.to]
    /\ msgs' = (msgs \ {m}) \cup {VoteReply(m, FALSE)}
    /\ UNCHANGED <<store, term, votedFor, role, cand, lead, timing, grants, spent>>

\* Mutant of LogAcceptable: the candidate's log is not compared
AnyLogAcceptable(i, m) == TRUE

\* Follower.on_vote_request: the claims of the request against the local log
LogAcceptable(i, m) ==
    \/ log[i] = <<>>
    \/ m.prevIndex >= Len(log[i]) /\ m.prevTerm >= LastTerm(log[i])

\* Mutant of VoteStanding: voted_for is not consulted
NoVoteStanding(i, m) == None

\* The vote already cast, once term_expired has dropped an older term's
VoteStanding(i, m) == IF m.term > term[i] THEN None ELSE votedFor[i]

\* Follower.on_vote_request, reached directly or through term_expired and
\* demote_and_handle.  The request's own term is not compared with ours.
AnswerVoteRequest(m) ==
    LET i == m.to
        newTerm == Greater(term[i], m.term)
        yes == VoteStanding(i, m) = None /\ LogAcceptable(i, m)
    IN  /\ m.type = "RequestVote"
        /\ role[i] = "FOLLOWER" \/ m.term > term[i]
        /\ BecomeFollower(i)
        /\ term' = [term EXCEPT ![i] = newTerm]
        /\ votedFor' = [votedFor EXCEPT ![i] =
                           IF yes THEN m.from ELSE VoteStanding(i, m)]
        /\ grants' = IF yes
                     THEN grants \cup {[voter |-> i, local |-> newTerm,
                                        cand |-> m.from, term |-> m.term]}
                     ELSE grants
        /\ msgs' = (msgs \ {m}) \cup {VoteReply(m, yes)}
        /\ UNCHANGED <<store, deaf, spent>>

\* The votes of a Candidate once the response m is recorded
VotesAfter(i, m) ==
    [cand[i] EXCEPT !.voters = @ \cup {m.from},
                    !.yes = IF m.vote THEN @ \cup {m.from} ELSE @ \ {m.from}]

\* Candidate.on_vote_response, no majority (yet)
CountVote(m) ==
    LET i == m.to IN
    /\ m.type = "VoteResponse"
    /\ role[i] = "CANDIDATE"
    /\ m.term = term[i]
    /\ ~Wins(VotesAfter(i, m).yes, VotesAfter(i, m).voters)
    /\ cand' = [cand EXCEPT ![i] = VotesAfter(i, m)]
    /\ msgs' = msgs \ {m}
    /\ UNCHANGED <<store, term, votedFor, role, lead, timing, grants, spent>>

\* Candidate.on_vote_response with a majority: Deck.win_vote, Leader.start
WinVote(m) ==
    LET i == m.to
        newLog == Append(log[i], [term |-> term[i], command |-> TermStart])
        sent == BroadcastMessages(i, term[i], newLog, Len(newLog), commit[i])
    IN  /\ m.type = "VoteResponse"
        /\ role[i] = "CANDIDATE"
        /\ m.term = term[i]
        /\ Wins(VotesAfter(i, m).yes, VotesAfter(i, m).voters)
        /\ role' = [role EXCEPT ![i] = "LEADER"]
        /\ votedFor' = [votedFor EXCEPT ![i] = None]
        /\ cand' = [cand EXCEPT ![i] = NoCampaign]
        /\ log' = [log EXCEPT ![i] = newLog]
        /\ lead' = [lead EXCEPT ![i] = [acks |-> {<<Len(newLog), i>>}, active |-> sent]]
        /\ task' = [task EXCEPT ![i] = TaskOfNewRole(i)]
        /\ msgs' = (msgs \ {m}) \cup sent
        /\ UNCHANGED <<term, commit, applied, ran, chosen, deaf, grants, spent>>

\* A vote or pre-vote response that no role has a use for
IgnoreVote(m) ==
    LET i == m.to IN
    /\ \/ m.type = "VoteResponse" /\ m.term <= term[i] /\ (role[i] # "CANDIDATE" \/ m.term < term[i])
       \/ m.type = "PreVoteResponse" /\ (role[i] # "CANDIDATE" \/ m.term <= term[i])
    /\ msgs' = msgs \ {m}
    /\ UNCHANGED <<store, term, votedFor, role, cand, lead, timing, grants, spent>>

\* BaseRole.on_pre_vote_request: the requester against the committed prefix
PreVoteAcceptable(i, m) ==
    /\ m.term > term[i]
    /\ \/ commit[i] = 0
       \/ m.prevIndex >= commit[i] /\ m.prevTerm >= TermAt(log[i], commit[i])

\* BaseRole.on_pre_vote_request.  A Follower in recent contact with its
\* leader refuses: whether contact is recent is left open.
AnswerPreVote(m) ==
    LET i == m.to IN
    /\ m.type = "PreVote"
    /\ \E inContact \in BOOLEAN :
          /\ inContact => role[i] = "FOLLOWER"
          /\ msgs' = (msgs \ {m}) \cup
                {PreVoteReply(m, /\ role[i] # "LEADER"
                                 /\ ~inContact
                                 /\ PreVoteAcceptable(i, m))}
    /\ UNCHANGED <<store, term, votedFor, role, cand, lead, timing, grants, spent>>

\* The pre_votes of a Candidate once the response m is recorded
PreVotesAfter(i, m) ==
    [cand[i] EXCEPT !.preVoters = @ \cup {m.from},
                    !.preYes = IF m.vote THEN @ \cup {m.from} ELSE @ \ {m.from}]

\* Candidate.on_pre_vote_response.  The campaign that follows runs inside this
\* handler, so that no answer is handled before it ends; a loop of
\* start_campaign_pre still under way goes on with the Candidate's new term.
CountPreVote(m) ==
    LET i == m.to
        votes == PreVotesAfter(i, m)
    IN  /\ m.type = "PreVoteResponse"
        /\ role[i] = "CANDIDATE"
        /\ m.term > term[i]
        /\ \/ /\ ~Wins(votes.preYes, votes.preVoters)
              /\ cand' = [cand EXCEPT ![i] = votes]
              /\ msgs' = msgs \ {m}
              /\ UNCHANGED <<term, task>>
           \/ /\ Wins(votes.preYes, votes.preVoters)
              /\ CampaignBase(i, votes, msgs \ {m})
              /\ task' = [task EXCEPT ![i].term = IF IsAsking(i) THEN term[i] + 1 ELSE @]
        /\ UNCHANGED <<store, votedFor, role, lead, deaf, grants, spent>>
-----------------------------------------------------------------------------
(* AppendEntries at the receiver *)

\* A Leader, or a Candidate of a later term, refuses
\* (BaseRole.on_append_entries, Candidate.on_append_entries)
RejectAppend(m) ==
    LET i == m.to IN
    /\ m.type = "AppendEntries"
    /\ \/ role[i] = "LEADER" /\ m.term <= term[i]
       \/ role[i] = "CANDIDATE" /\ m.term < term[i]
    /\ msgs' = (msgs \ {m}) \cup {AppendReply(m, term[i], FALSE, Len(log[i]))}
    /\ UNCHANGED <<store, term, votedFor, role, cand, lead, timing, grants, spent>>

\* The message reaches Follower.on_append_entries: directly, after
\* term_expired, or after demote_and_handle of a Candidate or Leader
AtFollower(m) ==
    LET i == m.to IN
    /\ m.type = "AppendEntries"
    /\ \/ role[i] = "FOLLOWER"
       \/ role[i] = "CANDIDATE" /\ m.term = term[i]
       \/ m.term > term[i]
    /\ BecomeFollower(i)
    /\ term' = [term EXCEPT ![i] = Greater(@, m.term)]
    /\ votedFor' = [votedFor EXCEPT ![i] =
                       IF m.term > term[i] \/ role[i] # "FOLLOWER" THEN None ELSE @]
    /\ UNCHANGED <<deaf, grants, spent>>

\* prevLogIndex 0 with a log that is not empty: the whole log is deleted,
\* whatever the message's term
SaysLogIsJunk(i, m) == m.prevIndex = 0 /\ log[i] # <<>>

\* Our record at prevLogIndex has another term
PrevConflicts(i, m) ==
    /\ m.prevIndex > 0
    /\ Len(log[i]) > m.prevIndex
    /\ log[i][m.prevIndex].term # m.prevTerm

\* Mutant of PrevMissing: the term of our last record is not compared
PrevShort(i, m) == Len(log[i]) < m.prevIndex

\* Our log ends before or at prevLogIndex, and not with the leader's record
PrevMissing(i, m) ==
    /\ Len(log[i]) <= m.prevIndex
    /\ Len(log[i]) # m.prevIndex \/ LastTerm(log[i]) # m.prevTerm

\* The entries of m that the log holds under another term
Mismatches(i, m) ==
    {k \in 1..Len(m.entries) :
        /\ m.prevIndex + k <= Len(log[i])
        /\ log[i][m.prevIndex + k].term # m.entries[k].term}

\* n records are kept before the entries are stored (delete_log_from)
Keeps(i, m, n) ==
    \/ SaysLogIsJunk(i, m) /\ n = 0
    \/ ~SaysLogIsJunk(i, m) /\ Mismatches(i, m) = {} /\ n = Len(log[i])
    \/ /\ ~SaysLogIsJunk(i, m)
       /\ \E k \in Mismatches(i, m) :
             /\ n = m.prevIndex + k - 1
             /\ \A h \in Mismatches(i, m) : k <= h

\* The comparison loop reads an entry we do not hold, or hold no longer:
\* AttributeError
UnreadableEntry(i, m) ==
    /\ ~SaysLogIsJunk(i, m)
    /\ Len(log[i]) > m.prevIndex
    /\ \/ Mismatches(i, m) = {} /\ m.prevIndex + Len(m.entries) > Len(log[i])
       \/ \E k \in Mismatches(i, m) : k < Len(m.entries)

\* SqliteLog.delete_all_from: the commit and applied indexes are lowered too
Truncate(i, n) ==
    /\ log' = [log EXCEPT ![i] = SubSeq(@, 1, n)]
    /\ commit' = [commit EXCEPT ![i] = Lesser(@, n)]
    /\ applied' = [applied EXCEPT ![i] = Lesser(@, n)]
    /\ UNCHANGED <<ran, chosen>>

\* log.append of each entry, at its own index: records after the last entry stay
Stored(L, p, entries) ==
    [k \in 1..Greater(Len(L), p + Len(entries)) |->
        IF k \in (p + 1)..(p + Len(entries)) THEN entries[k - p] ELSE L[k]]

\* Mutant of CommitAndApply: records are run as soon as they are stored
ApplyAllStored(i, L, c, a, leaderCommit) ==
    /\ commit' = [commit EXCEPT ![i] = Greater(c, Lesser(leaderCommit, Len(L)))]
    /\ applied' = [applied EXCEPT ![i] = Greater(a, Len(L))]
    /\ ran' = [ran EXCEPT ![i] = @ \cup CommandsIn(L, a, Len(L))]
    /\ UNCHANGED chosen

\* Mutant of CommitAndApply: leaderCommit is not limited to our last index
CommitUnlimited(i, L, c, a, leaderCommit) ==
    LET top == Lesser(leaderCommit, Len(L))
    IN  /\ commit' = [commit EXCEPT ![i] = Greater(c, leaderCommit)]
        /\ applied' = [applied EXCEPT ![i] = Greater(a, top)]
        /\ ran' = [ran EXCEPT ![i] = @ \cup CommandsIn(L, a, top)]
        /\ UNCHANGED chosen

\* new_leader_commit_index: L is the log, c and a our commit and applied index
CommitAndApply(i, L, c, a, leaderCommit) ==
    LET top == Lesser(leaderCommit, Len(L))
    IN  /\ commit' = [commit EXCEPT ![i] = Greater(c, top)]
        /\ applied' = [applied EXCEPT ![i] = Greater(a, top)]
        /\ ran' = [ran EXCEPT ![i] = @ \cup CommandsIn(L, a, top)]
        /\ UNCHANGED chosen

\* send_no_sync_append_response because of the term, or of a gap
RefuseAppend(m) ==
    LET i == m.to IN
    /\ AtFollower(m)
    /\ ~SaysLogIsJunk(i, m)
    /\ m.term < term[i] \/ PrevMissing(i, m)
    /\ msgs' = (msgs \ {m}) \cup {AppendReply(m, term'[i], FALSE, Len(log[i]))}
    /\ UNCHANGED store

\* send_no_sync_append_response after deleting from prevLogIndex on
DropConflict(m) ==
    LET i == m.to IN
    /\ AtFollower(m)
    /\ ~SaysLogIsJunk(i, m)
    /\ m.term >= term[i]
    /\ PrevConflicts(i, m)
    /\ Truncate(i, m.prevIndex - 1)
    /\ msgs' = (msgs \ {m}) \cup {AppendReply(m, term'[i], FALSE, m.prevIndex - 1)}

\* The handler raises on an entry it cannot read; nothing is answered
FailAppend(m) ==
    LET i == m.to IN
    /\ AtFollower(m)
    /\ m.term >= term[i]
    /\ ~PrevConflicts(i, m)
    /\ UnreadableEntry(i, m)
    /\ \E n \in 0..Len(log[i]) : Keeps(i, m, n) /\ Truncate(i, n)
    /\ msgs' = msgs \ {m}

\* The new log L, of whose records the first n were kept: store it, answer,
\* follow the leader's commit index
StoreAndAnswer(m, n, L) ==
    LET i == m.to IN
    /\ log' = [log EXCEPT ![i] = L]
    /\ CommitAndApply(i, L, Lesser(commit[i], n), Lesser(applied[i], n), m.commit)
    /\ msgs' = (msgs \ {m}) \cup {AppendReply(m, term'[i], TRUE, Len(L))}

\* A heartbeat, or records that fit
AcceptAppend(m) ==
    LET i == m.to IN
    /\ AtFollower(m)
    /\ \/ SaysLogIsJunk(i, m)
       \/ /\ m.term >= term[i]
          /\ ~PrevMissing(i, m) /\ ~PrevConflicts(i, m)
          /\ ~UnreadableEntry(i, m)
    /\ \E n \in 0..Len(log[i]) :
          /\ Keeps(i, m, n)
          /\ StoreAndAnswer(m, n, Stored(SubSeq(log[i], 1, n), m.prevIndex, m.entries))
-----------------------------------------------------------------------------
(* The leader *)

\* scheduled_send_heartbeats (the quorum check passes or is off)
SendHeartbeats(i) ==
    /\ role[i] = "LEADER"
    /\ task[i].kind # "stale"
    /\ Spend("heartbeat")
    /\ lead' = [lead EXCEPT ![i].active = @ \cup HeartbeatMessages(i)]
    /\ msgs' = msgs \cup HeartbeatMessages(i)
    /\ UNCHANGED <<store, term, votedFor, role, cand, timing, grants>>

\* The messages of the same broadcast as m that are still unanswered
Unanswered(i, m) == {x \in lead[i].active : [x EXCEPT !.to = m.to] = m}

\* check_quorum: some broadcast is older than the election timeout and was
\* answered by too few; the leader resigns within its term.  Then
\* scheduled_send_heartbeats sets the timer again, for the Leader that resigned.
Resign(i) ==
    /\ UseCheckQuorum
    /\ role[i] = "LEADER"
    /\ task[i].kind = "role"
    /\ \E m \in lead[i].active :
          /\ m.kind # "fill"
          /\ Cardinality(Others(i)) - Cardinality(Unanswered(i, m)) + 1 < CommitQuorum
    /\ LoseRole(i)
    /\ task' = [task EXCEPT ![i] = ResignedTask]
    /\ votedFor' = [votedFor EXCEPT ![i] = None]
    /\ UNCHANGED <<store, term, deaf, msgs, grants, spent>>

\* scheduled_send_heartbeats of a Leader that has resigned: nobody answers to its
\* trackers, so the check fails again, the Follower is stopped and replaced by
\* another one, and the timer is set again
ResignAgain(i) ==
    /\ task[i].kind = "resigned"
    /\ votedFor' = [votedFor EXCEPT ![i] = None]
    /\ UNCHANGED <<store, term, role, cand, lead, timing, msgs, grants, spent>>

\* Leader.run_command up to the wait for the result
RunCommand(i, c) ==
    LET newLog == Append(log[i], [term |-> term[i], command |-> c])
        sent == BroadcastMessages(i, term[i], newLog, Len(newLog), commit[i])
    IN  /\ role[i] = "LEADER"
        /\ Spend("command")
        /\ log' = [log EXCEPT ![i] = newLog]
        /\ lead' = [lead EXCEPT ![i] = [acks |-> @.acks \cup {<<Len(newLog), i>>},
                                        active |-> @.active \cup sent]]
        /\ msgs' = msgs \cup sent
        /\ UNCHANGED <<term, votedFor, commit, applied, ran, chosen, role, cand,
                       timing, grants>>

\* A response of a later term: term_expired, in every role
StepDown(m) ==
    LET i == m.to IN
    /\ m.type \in {"AppendResponse", "VoteResponse"}
    /\ m.term > term[i]
    /\ BecomeFollower(i)
    /\ term' = [term EXCEPT ![i] = m.term]
    /\ votedFor' = [votedFor EXCEPT ![i] = None]
    /\ msgs' = msgs \ {m}
    /\ UNCHANGED <<store, deaf, grants, spent>>

\* A Candidate or Leader yields, but another message is queued: that one times
\* out first and leaves its key in active_messages, then the nested
\* inner_on_message times out.  The node is a Follower that has not seen the
\* message, and every message that comes from now on times out behind the key.
YieldUnheard(m) ==
    LET i == m.to IN
    /\ role[i] # "FOLLOWER"
    /\ \/ m.type \notin {"PreVote", "PreVoteResponse"} /\ m.term > term[i]
       \/ m.type = "AppendEntries" /\ role[i] = "CANDIDATE" /\ m.term = term[i]
    /\ BecomeFollower(i)
    /\ term' = [term EXCEPT ![i] = m.term]
    /\ votedFor' = [votedFor EXCEPT ![i] = None]
    /\ deaf' = deaf \cup {i}
    /\ msgs' = msgs \ {m}
    /\ UNCHANGED <<store, grants, spent>>

\* Not the leader, or not a message this Leader object sent
IgnoreAppendResponse(m) ==
    LET i == m.to IN
    /\ m.type = "AppendResponse"
    /\ m.term <= term[i]
    /\ role[i] # "LEADER" \/ m.request \notin lead[i].active
    /\ msgs' = msgs \ {m}
    /\ UNCHANGED <<store, term, votedFor, role, cand, lead, timing, grants, spent>>

Fill(i, j, first, last, c) ==
    [type |-> "AppendEntries", from |-> i, to |-> j, term |-> term[i],
     prevIndex |-> first - 1, prevTerm |-> TermAt(log[i], first - 1),
     entries |-> SubSeq(log[i], first, last), commit |-> c, kind |-> "fill"]

\* send_catchup: from the follower's maxIndex on, max_entries + 1 records at
\* most.  A follower ahead of our log makes get_prev_record_id raise.
CatchUp(i, m, c) ==
    IF m.maxIndex >= Len(log[i]) THEN {}
    ELSE {Fill(i, m.from, m.maxIndex + 1, Lesser(Len(log[i]), m.maxIndex + 1 + MaxEntries), c)}

\* send_backdown: one record; index 0 cannot be read
BackDown(i, m) ==
    LET index == IF m.maxIndex < m.request.prevIndex THEN m.maxIndex + 1
                                                     ELSE m.request.prevIndex
    IN  IF index = 0 THEN {} ELSE {Fill(i, m.from, index, index, commit[i])}

\* The tracked request is answered: forget it, and send what follows from it
Answered(i, m, more) ==
    /\ m.type = "AppendResponse"
    /\ m.term <= term[i]
    /\ role[i] = "LEADER"
    /\ m.request \in lead[i].active
    /\ msgs' = (msgs \ {m}) \cup more
    /\ UNCHANGED <<term, votedFor, log, role, cand, timing, grants, spent>>

\* on_append_entries_response for a heartbeat or a backdown/catchup message
ResyncResponse(m) ==
    LET i == m.to
        more == IF ~m.success THEN BackDown(i, m)
                ELSE IF m.request.kind = "fill" THEN CatchUp(i, m, commit[i])
                ELSE {}
    IN  /\ m.type = "AppendResponse" /\ m.request.kind # "broadcast"
        /\ Answered(i, m, more)
        /\ lead' = [lead EXCEPT ![i].active = (@ \ {m.request}) \cup more]
        /\ UNCHANGED <<commit, applied, ran, chosen>>

\* Mutant of AcksAfter: a refusal counts as well
AcksWhatever(i, m) == lead[i].acks \cup {<<m.request.prevIndex + 1, m.from>>}

\* The vote trackers once the reply m to a broadcast is recorded
AcksAfter(i, m) ==
    IF m.success THEN lead[i].acks \cup {<<m.request.prevIndex + 1, m.from>>} ELSE lead[i].acks

\* The commands process_ready_log_record marks applied
LeaderApplied(i, index) ==
    {k \in (applied[i] + 1)..index : log[i][k].command # TermStart}

\* process_ready_log_record, when the ayes reach the quorum
LeaderCommit(i, index, ready) ==
    IF ready
    THEN /\ commit' = [commit EXCEPT ![i] = Greater(@, index)]
         /\ \E a \in {applied[i]} \cup LeaderApplied(i, index) :
               /\ \A k \in LeaderApplied(i, index) : k <= a
               /\ applied' = [applied EXCEPT ![i] = a]
         /\ ran' = [ran EXCEPT ![i] = @ \cup CommandsIn(log[i], applied[i], index)]
         /\ chosen' = chosen \cup {[index |-> k, record |-> log[i][k], term |-> term[i]] :
                                      k \in (commit[i] + 1)..index}
    ELSE UNCHANGED <<commit, applied, ran, chosen>>

\* on_append_entries_response for a broadcast record: assess_log_vote, then
\* a catchup unless later records are already on their way to that follower
BroadcastResponse(m) ==
    LET i == m.to
        index == m.request.prevIndex + 1
        ayes == {j \in Node : <<index, j>> \in AcksAfter(i, m)}
        onTheWay == \E x \in lead[i].active \ {m.request} :
                       x.to = m.from /\ x.entries # <<>> /\ x.prevIndex + Len(x.entries) > m.maxIndex
        more == IF onTheWay THEN {} ELSE CatchUp(i, m, commit'[i])
    IN  /\ m.type = "AppendResponse" /\ m.request.kind = "broadcast"
        /\ LeaderCommit(i, index, Cardinality(ayes) >= CommitQuorum)
        /\ Answered(i, m, more)
        /\ lead' = [lead EXCEPT ![i] = [acks |-> AcksAfter(i, m),
                                        active |-> (@.active \ {m.request}) \cup more]]
-----------------------------------------------------------------------------
(* Process failures *)

\* A new process over the same log store: a Follower with its own timer and an
\* empty message queue
Restart(i) ==
    /\ LoseRole(i)
    /\ task' = [task EXCEPT ![i] = RoleTask]
    /\ deaf' = deaf \ {i}


\* The process dies and is started again: only the log store survives
Crash(i) ==
    /\ Spend("crash")
    /\ Restart(i)
    /\ UNCHANGED <<store, term, votedFor, msgs, grants>>

\* The process dies inside term_expired, with the new term stored and the vote
\* cleared or not
CrashInTermExpired(m) ==
    LET i == m.to IN
    /\ m.type \notin {"PreVote", "PreVoteResponse"}
    /\ m.term > term[i]
    /\ Spend("crash")
    /\ Restart(i)
    /\ term' = [term EXCEPT ![i] = m.term]
    /\ \E vote \in {votedFor[i], None} : votedFor' = [votedFor EXCEPT ![i] = vote]
    /\ msgs' = msgs \ {m}
    /\ UNCHANGED <<store, grants>>

\* The process dies inside Follower.leader_lost, with the vote cleared and the
\* new term not yet stored
CrashInLeaderLost(i) ==
    /\ role[i] = "FOLLOWER"
    /\ task[i].kind = "role"
    /\ Spend("torn")
    /\ Restart(i)
    /\ votedFor' = [votedFor EXCEPT ![i] = None]
    /\ UNCHANGED <<store, term, msgs, grants>>

\* Deck.stop, which stops the role and so clears voted_for, and a new start
StopAndRestart(i) ==
    /\ Spend("stop")
    /\ Restart(i)
    /\ votedFor' = [votedFor EXCEPT ![i] = None]
    /\ UNCHANGED <<store, term, msgs, grants>>

\* The messages a node can still come to handle
Deliverable == {m \in msgs : m.to \notin deaf}

Next ==
    \/ \E i \in Node : LeaderLost(i)
    \/ \E i \in Node : CampaignAgain(i)
    \/ \E i, j \in Node : Ask(i, j)
    \/ \E i \in Node : EndCampaign(i)
    \/ \E i \in Node : StaleCampaign(i)
    \/ \E i \in Node : SendHeartbeats(i)
    \/ \E i \in Node : Resign(i)
    \/ \E i \in Node : ResignAgain(i)
    \/ \E i \in Node, c \in Command : RunCommand(i, c)
    \/ \E i \in Node : Crash(i)
    \/ \E i \in Node : CrashInLeaderLost(i)
    \/ \E i \in Node : StopAndRestart(i)
    \/ \E m \in Deliverable : CrashInTermExpired(m)
    \/ \E m \in Deliverable : RejectVoteRequest(m)
    \/ \E m \in Deliverable : AnswerVoteRequest(m)
    \/ \E m \in Deliverable : CountVote(m)
    \/ \E m \in Deliverable : WinVote(m)
    \/ \E m \in Deliverable : IgnoreVote(m)
    \/ \E m \in Deliverable : AnswerPreVote(m)
    \/ \E m \in Deliverable : CountPreVote(m)
    \/ \E m \in Deliverable : RejectAppend(m)
    \/ \E m \in Deliverable : RefuseAppend(m)
    \/ \E m \in Deliverable : DropConflict(m)
    \/ \E m \in Deliverable : FailAppend(m)
    \/ \E m \in Deliverable : AcceptAppend(m)
    \/ \E m \in Deliverable : StepDown(m)
    \/ \E m \in Deliverable : YieldUnheard(m)
    \/ \E m \in Deliverable : IgnoreAppendResponse(m)
    \/ \E m \in Deliverable : ResyncResponse(m)
    \/ \E m \in Deliverable : BroadcastResponse(m)

Spec == Init /\ [][Next]_vars
-----------------------------------------------------------------------------
(* Types *)

VoteCounts ==
    [voters : SUBSET Node, yes : SUBSET Node, preVoters : SUBSET Node, preYes : SUBSET Node]

Tasks ==
    [kind : {"role", "base", "pre", "stale", "resigned"}, term : Nat, left : SUBSET Node]

Kinds == {"heartbeat", "broadcast", "fill"}

AppendEntriesMessage ==
    [type : {"AppendEntries"}, from : Node, to : Node, term : Nat, prevIndex : Nat,
     prevTerm : Nat, entries : Seq(Record), commit : Nat, kind : Kinds]

RequestMessage ==
    [type : {"RequestVote", "PreVote"}, from : Node, to : Node, term : Nat,
     prevIndex : Nat, prevTerm : Nat]

VoteResponseMessage ==
    [type : {"VoteResponse", "PreVoteResponse"}, from : Node, to : Node, term : Nat,
     vote : BOOLEAN]

AppendResponseMessage ==
    [type : {"AppendResponse"}, from : Node, to : Node, term : Nat, success : BOOLEAN,
     maxIndex : Nat, request : AppendEntriesMessage]

Message ==
    AppendEntriesMessage \cup RequestMessage \cup VoteResponseMessage \cup AppendResponseMessage

\* Only a Follower can have the timer of a Leader that resigned
TimingOK ==
    /\ task \in [Node -> Tasks]
    /\ deaf \subseteq Node
    /\ \A i \in Node : task[i].kind = "resigned" => role[i] = "FOLLOWER"

\* The types, and that the vote counts of a Candidate and the trackers of a
\* Leader do not outlive the role object that held them, although its timer may
TypeOK ==
    /\ term \in [Node -> Nat]
    /\ votedFor \in [Node -> Node \cup {None}]
    /\ log \in [Node -> Seq(Record)]
    /\ commit \in [Node -> Nat]
    /\ applied \in [Node -> Nat]
    /\ ran \in [Node -> SUBSET [index : Nat, command : Command]]
    /\ role \in [Node -> {"FOLLOWER", "CANDIDATE", "LEADER"}]
    /\ cand \in [Node -> VoteCounts]
    /\ lead \in [Node -> [acks : SUBSET (Nat \X Node), active : SUBSET AppendEntriesMessage]]
    /\ TimingOK
    /\ msgs \subseteq Message
    /\ grants \subseteq [voter : Node, local : Nat, cand : Node, term : Nat]
    /\ chosen \subseteq [index : Nat, record : Record, term : Nat]
    /\ spent \in [Events -> Nat]
    /\ \A i \in Node : role[i] # "CANDIDATE" => cand[i] = NoCampaign
    /\ \A i \in Node : role[i] # "LEADER" => lead[i] = NoLeadership
-----------------------------------------------------------------------------
(* Elections *)

\* Two nodes are never Leader in the same term (Deck.win_vote).
OneLeaderPerTerm ==
    \A i, j \in Node :
        role[i] = "LEADER" /\ role[j] = "LEADER" /\ term[i] = term[j] => i = j

\* While a node stays in one term it grants one vote (Follower.on_vote_request
\* against every place that clears voted_for).
OneGrantPerStay ==
    \A g, h \in grants : g.voter = h.voter /\ g.local = h.local => g = h

\* A follower grants one candidate per term of the request (the comment in
\* Follower.on_vote_request: "we only vote once per term").
OneGrantPerTerm ==
    \A g, h \in grants : g.voter = h.voter /\ g.term = h.term => g.cand = h.cand

\* No vote was given for a term the voter had already left
NoStaleGrant == \A g \in grants : g.local = g.term

\* As long as no request of an old term is granted (on_vote_request does not
\* compare terms) and no vote is given twice (every place that clears
\* voted_for), there is one leader per term.
OneLeaderUnlessVoteMisused == NoStaleGrant /\ OneGrantPerStay => OneLeaderPerTerm
-----------------------------------------------------------------------------
(* Logs *)

\* Records with the same index and term are the same, and so is everything
\* before them (the prevLogIndex/prevLogTerm test of Follower.on_append_entries
\* with its in-place overwrite).
LogMatching ==
    \A i, j \in Node : \A k \in 1..Lesser(Len(log[i]), Len(log[j])) :
        log[i][k].term = log[j][k].term =>
            \A h \in 1..k : log[i][h] = log[j][h]

\* The log of i holds the chosen record c
Holds(i, c) == c.index <= Len(log[i]) /\ log[i][c.index] = c.record

\* A leader holds every record that was committed in its term or before
\* (assess_log_vote's quorum against on_vote_response's majority).
LeaderCompleteness ==
    \A i \in Node : \A c \in chosen :
        role[i] = "LEADER" /\ term[i] >= c.term => Holds(i, c)

\* A client command reported as done is in the log of every later leader
\* (DeckAPI.run_command: "the Raft guarantee of durability is assured").
CommandsDurable ==
    \A i \in Node : \A c \in chosen :
        c.record.command # TermStart /\ role[i] = "LEADER" /\ term[i] >= c.term => Holds(i, c)

\* What a node hands to process_command for an index is the record some leader
\* marked committed there, and no leader marked another one (run_command_locally
\* and process_command_record).
RunsWhatIsCommitted ==
    \A i \in Node : \A x \in ran[i] :
        /\ \E c \in chosen : c.index = x.index
        /\ \A c \in chosen : c.index = x.index => c.record.command = x.command

\* applied <= commit <= last index, through every truncation, catchup and
\* commit sweep (delete_all_from, new_leader_commit_index,
\* process_ready_log_record).
IndexesOrdered ==
    \A i \in Node : applied[i] <= commit[i] /\ commit[i] <= Len(log[i])

\* What a leader counts as a yes in log_vote_trackers is in that follower's
\* log as long as the follower has not left the leader's term.
AckMeansStored ==
    \A i, j \in Node : \A k \in 1..Len(log[i]) :
        role[i] = "LEADER" /\ term[j] = term[i] /\ <<k, j>> \in lead[i].acks =>
            k <= Len(log[j]) /\ log[j][k] = log[i][k]

\* No step changes or removes a record a node has marked committed
\* (delete_all_from and log.append in Follower.on_append_entries).
CommittedPrefixStable ==
    [][\A i \in Node : \A k \in 1..commit[i] :
          k <= Len(log'[i]) /\ log'[i][k] = log[i][k]]_vars
=============================================================================
