------------------------------- MODULE Queue --------------------------------
(***************************************************************************)
(* The job-dispatch topic as internal/queue uses it.  A message only names *)
(* a run, so the topic is the number of messages per run that are still to *)
(* be consumed.  They are delivered in any order and to any worker, since  *)
(* partitions move between workers; a message whose offset is not          *)
(* committed is delivered again.  MaxCopies bounds the count: the sweeper  *)
(* would publish duplicates for as long as a run is QUEUED.                *)
(***************************************************************************)
EXTENDS JobRuns, Faults

CONSTANT MaxCopies

ASSUME QueueAssumption == MaxCopies \in Nat \ {0}

VARIABLE topic      \* how many messages name each run

QueueTypeOK == topic \in [Runs -> 0..MaxCopies]

QueueInit == topic = [r \in Runs |-> 0]

Published(r) == [topic EXCEPT ![r] = IF @ < MaxCopies THEN @ + 1 ELSE @]
Committed(r) == [topic EXCEPT ![r] = @ - 1]

\* Publisher.Dispatch returned nil: the broker has acknowledged the message.
Dispatch(r) == topic' = Published(r)

\* Publisher.Dispatch returned an error.  The broker is unreachable, or it
\* stored the message and only the acknowledgement was lost.
DispatchError(r) == topic' \in {topic, Published(r)}

\* Reader.CommitMessages.  An error leaves the message to be delivered again.
CommitMessage(r) ==
  \/ topic' = Committed(r) /\ UNCHANGED faults
  \/ topic' = topic        /\ Fault("kafka")
=============================================================================
