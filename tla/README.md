# A TLA+ verification of raftengine

raftengine is a Raft library in Python asyncio. This directory models its
election and replication core in TLA+, model-checks it with TLC on small
clusters, and proves part of it with TLAPS for clusters of every size.

## The system

| part | source (`src/raftengine/`) | what it does |
|---|---|---|
| roles | `roles/` | `Follower`, `Candidate`, `Leader`: one object at a time, a handler per message type |
| Deck | `deck/deck.py` | owns the role object, switches roles, serializes incoming messages, runs one timer per role, joins and leaves the cluster |
| ClusterOps | `deck/cluster_ops.py` | cluster configuration, membership changes, follower trackers |
| log stores | `extras/*_log/` | four implementations of `LogAPI`: memory, SQLite, LMDB, and a hybrid of the last two with a writer process |
| messages | `messages/` | message classes, JSON codec, serial numbers |
| events | `deck/event_control.py` | callbacks to the application |
| RPC | `extras/*_rpc/` | optional transports |

The user supplies the transport and the state machine through `PilotAPI`. A
message reaches `Deck.on_message`, waits for its turn, and is routed by
`BaseRole.on_message`. That method first compares terms and lets `term_expired`
adopt a later one. A Candidate or Leader that must yield is replaced by a Follower
(`demote_and_handle`), which then handles the same message. Term, vote, records,
commit index and applied index are in the log store and survive a crash.

`PROJECT.json` lists every part, modelled or not, and every hazard found in the
code at the line where it bites.

## Modules

| module | content |
|---|---|
| `RaftCluster` | the core: roles, role switches, SqliteLog semantics, message pool, crashes; the properties; mutants of single definitions |
| `MCRaftCluster` | the starts of the runs, symmetry and the view used by TLC |
| `MessageSerializer` | `Deck.on_message` and `inner_on_message` at the granularity of their awaits |
| `MessageQueue` | what the serializer promises: one message at a time, in order |
| `RaftClusterProofs` | type correctness and the order of the indexes |
| `RaftElectionProofs` | votes and leaders |

### The core: state

| variable | code |
|---|---|
| `term`, `votedFor`, `log`, `commit`, `applied` | the log store (persistent) |
| `role` | `deck.role` |
| `cand` | `votes` (`voters` are its keys, `yes` its true entries) and `pre_votes` of the Candidate |
| `lead` | `log_vote_trackers` (`acks`) and `active_messages` (`active`) of the Leader |
| `task` | what the Deck's one timer is armed for: the present role (`role`), a Candidate that has been replaced (`stale`), a Leader that resigned (`resigned`); or the campaign the timer has started and that is still sending (`base`, `pre`, with the nodes `left`) |
| `deaf` | nodes whose `active_messages` begins with a key that is never deleted |
| `msgs` | messages sent and not handled |
| `ran`, `grants`, `chosen` | history: commands run, votes granted, records a leader marked committed |
| `spent` | how often each bounded event has happened or is ruled out by the start |

### The core: actions

| action | code |
|---|---|
| `LeaderLost`, `CampaignAgain` | `Follower.contact_checker`/`leader_lost`, `Candidate.election_timed_out` and the retry after a lost campaign |
| `Ask`, `EndCampaign` | a turn of the loop of `start_campaign_base`/`start_campaign_pre`; its final `run_after` |
| `StaleCampaign` | `election_timed_out` of a Candidate that is no longer `deck.role` |
| `RejectVoteRequest`, `AnswerVoteRequest` | `on_vote_request` of `BaseRole` and `Follower` |
| `CountVote`, `WinVote`, `IgnoreVote` | `Candidate.on_vote_response`, `Deck.win_vote`, `Leader.start` |
| `AnswerPreVote`, `CountPreVote` | `BaseRole.on_pre_vote_request`, `Candidate.on_pre_vote_response` |
| `RejectAppend` | `on_append_entries` of `BaseRole` and `Candidate` |
| `RefuseAppend`, `DropConflict`, `FailAppend`, `AcceptAppend` | the ways through `Follower.on_append_entries`: gap or old term, conflict at prevLogIndex, exception in the comparison loop, success |
| `SendHeartbeats`, `Resign`, `RunCommand` | `scheduled_send_heartbeats`, `check_quorum`, `run_command` of the Leader |
| `ResignAgain` | `scheduled_send_heartbeats` of a Leader that has resigned: `leader.py:139` sets its timer again |
| `YieldUnheard` | `demote_and_handle` of a Candidate or Leader whose nested `inner_on_message` times out; the node handles no message after that until it is restarted |
| `StepDown`, `IgnoreAppendResponse`, `ResyncResponse`, `BroadcastResponse` | `on_append_entries_response` and `term_expired` |
| `Crash`, `StopAndRestart` | a process that dies between handlers and reopens its store; `Deck.stop` and a new start |
| `CrashInTermExpired` | it dies in `term_expired`, the term stored and the vote erased or not |
| `CrashInLeaderLost` | it dies in `leader_lost`, the vote erased and the next term not stored |

### The core: what is abstracted

- A handler or timer callback is one step. `Deck.inner_on_message` admits one
  message at a time, which `MessageSerializer` shows, so two handlers do not
  interleave. A timer callback can run between the awaits of a handler and a
  handler between the awaits of a callback. This is modelled for the callback in
  which it matters most, a campaign: with `SlowSend` each request is a step of its
  own (`Ask`), and answers to earlier requests are handled in between. The order
  of the requests is left open. A campaign is taken to end before the next timer
  of the node fires. Broadcasts and rounds of heartbeats are sent at once.
- The campaign that follows a won pre-vote runs inside the handler of the
  response, so nothing else is handled before it ends.
- A crash comes between two handlers, or between the two writes that concern the
  vote (`term_expired`, `leader_lost`). A crash between the writes of
  `on_append_entries` is left out.
- A demotion and the handling of the same message by the new Follower are one
  step when the nested call gets its turn. When it does not (`nested_call`) the
  node is a Follower that never saw the message (`YieldUnheard`), and the key of the
  message queued behind it blocks the queue: the node is in `deaf`.
- The pool `msgs` is a set. A message is delivered at most once, at any time, in
  any order, or never. A lost message is one that is never delivered.
- A timer may fire whenever it is armed. No property depends on time.
- A response carries its request in place of `original_serial`.
- A leader's `nextIndex`, `matchIndex` and `ensure_log_tracker` are left out:
  with a fixed configuration nothing reads them that changes state or messages.
- Whether a Follower is in recent contact with its leader, which decides a
  pre-vote, is a free choice.
- Commands do not fail. The configuration is fixed. There are no snapshots.

A behaviour starts from a member of `Starts`: a new cluster with empty logs, or
one (`established`) whose first leader has committed its `term_start` record
everywhere and has since taken some commands (`stranded`) whose messages were
lost. These are reachable states; they let a small bound reach deep histories. A
start also says which of the bounded events are left to happen, so that one run
asks about several mixtures of events without their product.

### The message serializer

`active` is the key order of `active_messages`. `state` says where the task of a
message is: `waiting` on the condition, `handling` in the role, `returning` to the
outer call after a nested one, `done`, or `lost` to a timeout. `inner` marks
the nested call and `woken` the tasks `notify_all` has reached.

| action | code |
|---|---|
| `Arrive` | `on_message` and the first block of `inner_on_message` |
| `Demote` | `demote_and_handle` within a handler: the first block again |
| `WakeUp` | `active_condition.wait()` returns; go ahead if first, else wait again |
| `TimeOut` | `wait_for` raises; the key of an outer call stays behind |
| `Leave` | the last block: delete the key if present, notify all |

The blocks under `async with active_condition` hold no other await, so each is one
step. A message comes once; its key is sender and serial number. Under the mapping
`Queue`, waiting outer calls are the abstract queue and the message in its handler,
nested call included, is the current one.

## Runs

The passing runs of the core have three nodes and `MaxEntries = 1`. TLC explores
every interleaving, loss and reordering within the bounds.

| run | setting | checks |
|---|---|---|
| `elections` | new cluster: 3 campaigns, or 2 campaigns and 2 crashes | `OneGrantPerStay`, `OneLeaderUnlessVoteMisused`, `OneLeaderPerTerm`, `LogMatching` |
| `replication` | running cluster: 2 campaigns and 1 command, or 2 commands, or 2 stranded commands with 1 campaign and 1 heartbeat round | `RunsWhatIsCommitted`, `AckMeansStored`, `IndexesOrdered`, `LeaderCompleteness`, `OneLeaderPerTerm`, `CommittedPrefixStable` |
| `options` | new cluster with pre-vote, check-quorum and slow sends, 1 campaign: a heartbeat round, or a campaign of a replaced Candidate, or one restart of each sort | `TypeOK` |
| `serializer` | 4 messages, 2 of them demote, timeouts | `TypeOK`, `HandledInOrder` (refinement of `MessageQueue`), `EveryMessageHandled` |

Why the bounds are enough to be interesting:

- Three campaigns give three candidates, or a candidate that returns with a later term.
- Two crashes with two campaigns let both voters of a candidate, or a voter twice,
  die around a vote.
- Two campaigns after an established leader give a successor of a successor, the
  shortest history in which a record of an old term is committed by a new leader.
- Two commands give gaps, out-of-order responses and a catchup of two records.
- Two stranded records reach the deletion of a conflict and the exception in the
  comparison loop.
- Four messages give a nested call with tasks before and behind it in the queue.

Deadlock is not checked: a behaviour ends when its bounds are used up and every
message is handled.

`serializer` assumes weak fairness of the steps of a task that is ready: the
asyncio event loop runs ready tasks in turn and a handler returns. A timeout may
or may not come, and `EveryMessageHandled` speaks of the behaviours in which no
wait times out and no nested call has to wait. `nested_call` adds (`TimedSpec`)
that `wait_for` raises in the end. Arrival is not fair. The other runs assume no
fairness.

Nodes and commands are symmetric, since no action orders
them. The view hides messages that no action will read to any effect any more: a
message that is hidden could only be consumed. It is used only without
pre-vote and slow sends.

Every property of a passing run is broken by a mutant: a definition next to the
original, marked `Mutant of`, that changes it as a plausible bug would.

### What the code does differently from what is said of it

| run | shows |
|---|---|
| `prevote_leaders` | with `use_pre_vote`, two leaders in one term: a voter becomes a pre-vote Candidate, yields to a heartbeat of its term and votes again |
| `torn_campaign` | two leaders in one term: a follower dies between erasing its vote and storing the next term |
| `resigned_leader` | with `use_check_quorum`, two leaders in one term: the resigned Leader's timer erases the vote of the Follower in its place |
| `early_answers` | with slow sends and four nodes, two leaders in one term: answers are compared with the nodes asked so far |
| `graceful_stop` | a node stopped with `Deck.stop` and restarted votes twice in a term |
| `stale_request` | a delayed vote request is granted for a term in which the follower had already voted |
| `durability` | a delayed append with prevLogIndex 0 empties a log; a later leader lacks a committed command |
| `nested_call` | a handler that demotes while another message is queued waits for its own queue; the message is never handled by the Follower |

The messages queued behind it time out too. `inner_on_message` raises without
deleting their keys, so the first of them blocks the queue from then on.

`findings` in `PROJECT.json` quotes the text each of these contradicts.
`OneLeaderPerTerm` is claimed for `elections` and `replication` only: three nodes,
no pre-vote, no check-quorum, sends that are not overtaken by answers, no crash
inside `leader_lost` and no graceful stop. With five nodes the delayed requests
of `stale_request` can make two majorities. `LeaderCompleteness` holds from a
running cluster and fails from empty logs, through the deletion that `durability`
shows.

## Proofs

TLAPS checks these for every finite set of nodes, every start, every bound and
every setting not named in the assumption. The assumptions on the constants are
`NodeAssumption`, `SettingAssumption` and `StartsAssumption`.

| theorem | statement |
|---|---|
| `TypeCorrect` | `Spec => []TypeOK` |
| `IndexOrder` | `Spec => []IndexesOrdered` |
| `ElectionMeetsCommit` | winners of an election and acknowledgers of a commit have a node in common |
| `VoteOncePerStay` | without pre-vote, check-quorum, slow sends, graceful stops and crashes inside `leader_lost`, `Spec => []OneGrantPerStay` |
| `ElectionSafety` | without pre-vote and slow sends, `Spec => []OneLeaderUnlessVoteMisused` |

`TypeOK` is not inductive. A leader reads its log at the index of a
record it has broadcast, and `commit` is a natural number within the log only if
that record is still there. `IndInv` therefore adds `ActiveInLog` (every tracked
broadcast is of a record in the leader's log) and `IndexesOrdered`. There is one
lemma per action or group of actions, and `NextInd` puts them together.

The election proofs share `TimersPlain`: with sends at once no campaign is under
way between two steps and no Candidate leaves a timer behind. They then part.

- `StayInv`, for `VoteOncePerStay`: every grant of the present term is in
  `votedFor` (`VotesKept`), so a second one is refused. Each assumption excludes one
  way of erasing the vote within the term; `prevote_leaders`, `resigned_leader`,
  `graceful_stop` and `torn_campaign` show what happens without it. Slow sends are
  excluded because the Candidate of `StaleCampaign` stores a term of its own.
- `BackedInv`, for `ElectionSafety`: a grant is never of a later term than the
  voter's (`GrantsPast`); every yes response and every counted yes is a grant or the
  candidate's own vote (`VotesBacked`, `CandidatesBacked`); a leader has a majority
  of the cluster behind it (`LeadersBacked`). Two majorities meet (`ElectionsMeet`),
  so two leaders of a term share a voter, which is then one that voted twice or for
  a term it had left (`LeadersAgree`). Crashes, stops and resignations of every sort
  are included: they can make a node misuse its vote, and the theorem says that
  nothing else makes two leaders. Slow sends are excluded because of `early_answers`.

Only model-checked so far: `LogMatching`, `LeaderCompleteness`,
`RunsWhatIsCommitted`, `AckMeansStored`, `CommittedPrefixStable`. Liveness under
fairness is outside what TLAPS proves here; it stays with TLC, as does the
refinement `HandledInOrder`.

## Plan

In this order. Each item is a module with its MC module, runs and properties.

1. `LogStores` (memory, SQLite, LMDB): an abstract log from `LogAPI`; each store
   implements it by a refinement mapping, or a finding says where it does not
   (`MemoryLog.delete_all_from` resets the term).
2. `CommandTracking` (`leader.py` 415-486, 570-604, 672-742, `deck.py` 175-193,
   `follower.py` 124-193): futures, timeouts, redirects, failing commands, broken flag.
3. `Membership` (`cluster_ops.py`, join and exit waiters of `deck.py`): loading
   rounds, one pending change, reversal by truncation; composed with the log of `RaftCluster`.
4. `PowerTransfer` (`leader.py` 488-568) and `SnapshotTransfer` (`leader.py`
   606-648, `follower.py` 292-308, `deck.py` 206-233).
5. `HybridLog` (`hybrid_log.py`, `sqlite_writer.py`): copy, push, delete and prune
   across two processes; implements the abstract log of `LogStores`.
6. `SerialNumbers`, `RpcClient`, `EventControl`: small modules.
7. Proofs: the action property `CommittedPrefixStable` and `AckMeansStored` within
   one term; the step simulation of `MessageQueue` by `MessageSerializer`; the
   invariants of `Membership`; the step simulation of `LogStores`.
8. A liveness run of the core: fair delivery and a stable leader bring every
    follower to the leader's log, except where `active_messages` blocks the catchup.

## Not modelled

The JSON codec, logging configuration, API classes and data classes hold no
state of the protocol. The ZeroMQ and gRPC transports only forward calls. The
examples and development tools are not part of the library.
