---------------------------- MODULE EventConsumer ----------------------------
(***************************************************************************)
(* The poll loop every Kafka consumer of the platform runs                 *)
(* (shared/event_bus/consumer.py): it polls a batch, hands the messages to *)
(* the registered handlers one by one and commits after each.  All events  *)
(* of a bank have the same key, so a bank's topic is one partition; the    *)
(* broker is external and keeps the topic and the committed offset.        *)
(*                                                                         *)
(* commit() without arguments commits the consumer's position, which       *)
(* poll() has moved past the whole batch.  A worker that shuts down        *)
(* cancels the loop between two messages, as a crash does.  The task the   *)
(* loop runs in connects once, and neither connect() nor poll() is in a    *)
(* try: when one of them raises, the task ends and the process lives on    *)
(* without it.                                                             *)
(***************************************************************************)
EXTENDS Integers, Sequences, FiniteSets

CONSTANTS
  MaxMessages,   \* bound: events published
  MaxPoll,       \* records one poll returns at most (max.poll.records)
  MaxStops,      \* bound: crashes and shutdowns
  MaxFailures    \* bound: handlers that raise, commits that fail, exceptions that end the loop

ASSUME BoundsAssumption ==
  MaxMessages \in Nat /\ MaxPoll \in Nat \ {0} /\ MaxStops \in Nat /\ MaxFailures \in Nat

VARIABLES
  topic,      \* the partition: the kind of every event published
  committed,  \* the group's committed offset: events the broker will not send again
  stage,      \* the consumer: "down", "ready", "committing", or "ended" in a process that lives
  position,   \* events polled
  taken,      \* events of them _handle_message is done with
  handled,    \* history: times each event's handler completed
  failed,     \* history: events whose handler raised
  settled,    \* history: events handled before a commit that succeeded
  stops, failures

vars == <<topic, committed, stage, position, taken, handled, failed, settled, stops, failures>>

\* An event with a handler, one without, and one that is not processed at all:
\* another bank's, corrupt, or of an unknown schema.
Kinds    == {"handled", "unhandled", "foreign"}
Messages == 1..MaxMessages

TypeOK ==
  /\ topic \in Seq(Kinds) /\ Len(topic) <= MaxMessages
  /\ stage \in {"down", "ready", "committing", "ended"}
  /\ committed \in 0..Len(topic) /\ position \in committed..Len(topic) /\ taken \in 0..position
  /\ handled \in [Messages -> Nat] /\ failed \subseteq Messages /\ settled \subseteq Messages
  /\ stops \in 0..MaxStops /\ failures \in 0..MaxFailures

Init ==
  /\ topic = <<>> /\ committed = 0
  /\ stage = "down" /\ position = 0 /\ taken = 0
  /\ handled = [m \in Messages |-> 0] /\ failed = {} /\ settled = {}
  /\ stops = 0 /\ failures = 0

(***************************************************************************)
(* The consumer.                                                           *)
(***************************************************************************)
\* A batch is under way: the next of its messages is handed to _handle_message.
Next1     == taken + 1
Runs      == stage \in {"ready", "committing"}
Handling  == stage = "ready" /\ taken < position
InHand    == IF Runs THEN Next1..position ELSE {}

Publish(kind) ==
  /\ Len(topic) < MaxMessages
  /\ topic' = Append(topic, kind)
  /\ UNCHANGED <<committed, stage, position, taken, handled, failed, settled, stops, failures>>

\* Seeded bug: the group's offset is ignored and the topic is read from the start.
ConnectFromStart ==
  /\ stage = "down"
  /\ stage' = "ready" /\ position' = 0 /\ taken' = 0
  /\ UNCHANGED <<topic, committed, handled, failed, settled, stops, failures>>

\* A new process resumes where the group committed (earliest when it never has).
Connect ==
  /\ stage = "down"
  /\ stage' = "ready" /\ position' = committed /\ taken' = committed
  /\ UNCHANGED <<topic, committed, handled, failed, settled, stops, failures>>

Poll ==
  /\ stage = "ready" /\ taken = position
  /\ \E n \in 1..MaxPoll : position + n <= Len(topic) /\ position' = position + n
  /\ UNCHANGED <<topic, committed, stage, taken, handled, failed, settled, stops, failures>>

\* Seeded bug: a message that is not processed ends the batch.
SkipBatch ==
  /\ Handling /\ topic[Next1] = "foreign"
  /\ taken' = position
  /\ UNCHANGED <<topic, committed, stage, position, handled, failed, settled, stops, failures>>

\* Returns before the commit.
SkipMessage ==
  /\ Handling /\ topic[Next1] = "foreign"
  /\ taken' = Next1
  /\ UNCHANGED <<topic, committed, stage, position, handled, failed, settled, stops, failures>>

Dispatch ==
  /\ Handling /\ topic[Next1] # "foreign"
  /\ handled' = IF topic[Next1] = "handled" THEN [handled EXCEPT ![Next1] = @ + 1] ELSE handled
  /\ taken' = Next1 /\ stage' = "committing"
  /\ UNCHANGED <<topic, committed, position, failed, settled, stops, failures>>

\* The exception is logged, the message is not committed and the loop goes on.
HandlerFails ==
  /\ Handling /\ topic[Next1] = "handled" /\ failures < MaxFailures
  /\ taken' = Next1 /\ failed' = failed \union {Next1} /\ failures' = failures + 1
  /\ UNCHANGED <<topic, committed, stage, position, handled, settled, stops>>

\* Seeded bug: one offset too many.
CommitOneMore ==
  /\ stage = "committing"
  /\ stage' = "ready" /\ committed' = position + 1
  /\ settled' = settled \union {m \in 1..taken : handled[m] > 0}
  /\ UNCHANGED <<topic, position, taken, handled, failed, stops, failures>>

Commit ==
  /\ stage = "committing"
  /\ stage' = "ready" /\ committed' = position
  /\ settled' = settled \union {m \in 1..taken : handled[m] > 0}
  /\ UNCHANGED <<topic, position, taken, handled, failed, stops, failures>>

CommitFails ==
  /\ stage = "committing" /\ failures < MaxFailures
  /\ stage' = "ready" /\ failures' = failures + 1
  /\ UNCHANGED <<topic, committed, position, taken, handled, failed, settled, stops>>

\* connect() or poll() raises: the task that runs the loop ends with the exception, and
\* nothing starts it again while the process lives.
LoopFails ==
  /\ stage = "down" \/ (stage = "ready" /\ taken = position)
  /\ failures < MaxFailures
  /\ stage' = "ended" /\ failures' = failures + 1
  /\ UNCHANGED <<topic, committed, position, taken, handled, failed, settled, stops>>

\* A crash, or the worker's shutdown, which cancels the task.
Stop ==
  /\ stage # "down" /\ stops < MaxStops
  /\ stage' = "down" /\ stops' = stops + 1
  /\ UNCHANGED <<topic, committed, position, taken, handled, failed, settled, failures>>

Works == Connect \/ Poll \/ SkipMessage \/ Dispatch \/ HandlerFails \/ Commit \/ CommitFails
Next  == (\E kind \in Kinds : Publish(kind)) \/ Works \/ LoopFails \/ Stop

Spec     == Init /\ [][Next]_vars
\* A process that stopped is started again, and a loop that runs goes on, both unless
\* LoopFails.  Nobody has to publish, nor to restart a process whose loop ended.
FairSpec == Spec /\ WF_vars(Works)

(***************************************************************************)
(* Properties.                                                             *)
(***************************************************************************)
\* Events whose handler ought to have run, never did, and that no poll will return again.
Lost == {m \in 1..committed : topic[m] = "handled" /\ handled[m] = 0 /\ m \notin failed} \ InHand

\* A commit covers messages of the batch not yet handled: a stop loses the rest of one
\* batch, and nothing else is ever lost without its handler having failed.
LossIsABatch == Cardinality(Lost) <= stops * (MaxPoll - 1)

\* Once a commit has succeeded after an event was handled, the event is never handled
\* again, however the consumer is restarted: handlers see repeats only of work that no
\* commit followed.
CommittedIsNeverRepeated ==
  [][\A m \in settled : handled'[m] = handled[m]]_vars

\* Unless an exception of connect() or poll() ends the loop and the process is never
\* restarted, every event is in the end handled, failed, or lost to a stop.
AlwaysAttended ==
  <>[](stage = "ended") \/ \A m \in Messages :
    (m <= Len(topic) /\ topic[m] = "handled") ~> (handled[m] > 0 \/ m \in failed \/ m \in Lost)

\* connect() disables auto-commit for a "manual commit after successful processing":
\* the committed offset would then only cover events that were processed.
CommittedIsProcessed ==
  \A m \in 1..committed : topic[m] = "handled" => handled[m] > 0
=============================================================================
