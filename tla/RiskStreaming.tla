----------------------------- MODULE RiskStreaming -----------------------------
(***************************************************************************)
(* The real-time risk pipeline: core/ara/streaming/pipeline.py with its    *)
(* consumer (consumer.py) and its producer (producer.py).                  *)
(*                                                                         *)
(* start creates a consumer and a producer and a thread for the consumer's *)
(* loop, stop closes both from another thread and does not wait for the    *)
(* loop; the process may crash at any time.  Kafka is external: a topic    *)
(* keeps its events, the group's offset survives every crash, a closed     *)
(* consumer can neither poll nor commit, and the producer buffers what it  *)
(* is given until the broker confirms or refuses it.  One partition stands *)
(* for each.  A pipeline is not started again before its stop returned.    *)
(***************************************************************************)
EXTENDS Integers, FiniteSets

CONSTANTS
    MaxEvents,      \* bound: events that ever arrive
    MaxStarts,      \* bound: calls of start
    MaxPoll,        \* max_poll_records
    ResetToLatest,  \* auto_offset_reset is "latest"
    Unhandled       \* events that do not parse or that no handler is for

ASSUME BoundsAssumption == MaxEvents \in Nat /\ MaxStarts \in Nat
ASSUME MaxPollAssumption == MaxPoll \in Nat \ {0}
ASSUME ResetAssumption == ResetToLatest \in BOOLEAN

VARIABLES
    log,        \* events in the topic: 1..log
    committed,  \* offset of the group, or NoOffset
    base,       \* where the last consumer without an offset began
    starts,     \* calls of start; each has a loop of its own
    open,       \* the consumer of a loop is not closed
    pc,         \* where a loop is in _consume_loop
    at,         \* events of its batches a loop is done with
    end,        \* its consumer's position
    running,    \* ARARealTimePipeline.running
    stopping,   \* a thread is in stop, between the two closes
    producer,   \* self.producer accepts events
    buffer,     \* results it was given and the broker has not confirmed
    results,    \* events with a result in the results topic
    failed,     \* events whose analysis raised, which the error hook gets
    excused     \* results lost in a crash or refused by the broker

topic == <<log, committed, base>>
loops == <<starts, open, pc, at, end>>
output == <<buffer, results, failed, excused>>
vars == <<topic, loops, running, stopping, producer, output>>

-----------------------------------------------------------------------------

NoOffset == -1
Loops == 1..MaxStarts
Events == 1..MaxEvents
LoopState == {"off", "join", "poll", "process", "handle"}

TypeOK ==
    /\ log \in 0..MaxEvents
    /\ committed \in {NoOffset} \cup 0..MaxEvents
    /\ base \in 0..MaxEvents
    /\ starts \in 0..MaxStarts
    /\ open \in [Loops -> BOOLEAN]
    /\ pc \in [Loops -> LoopState]
    /\ at \in [Loops -> 0..MaxEvents]
    /\ end \in [Loops -> 0..MaxEvents]
    /\ running \in BOOLEAN /\ stopping \in BOOLEAN /\ producer \in BOOLEAN
    /\ buffer \cup results \cup failed \cup excused \subseteq Events

Init ==
    /\ log = 0
    /\ committed = NoOffset
    /\ base = 0
    /\ starts = 0
    /\ open = [k \in Loops |-> FALSE]
    /\ pc = [k \in Loops |-> "off"]
    /\ at = [k \in Loops |-> 0]
    /\ end = [k \in Loops |-> 0]
    /\ running = FALSE /\ stopping = FALSE /\ producer = FALSE
    /\ buffer = {} /\ results = {} /\ failed = {} /\ excused = {}

-----------------------------------------------------------------------------

(* Some system publishes an event.                                         *)
Arrive ==
    /\ log < MaxEvents
    /\ log' = log + 1
    /\ UNCHANGED <<committed, base, loops, running, stopping, producer, output>>

(* start: a consumer, a producer and a loop, all of them new.              *)
Start ==
    /\ ~ running /\ ~ stopping
    /\ starts < MaxStarts
    /\ starts' = starts + 1
    /\ open' = [open EXCEPT ![starts + 1] = TRUE]
    /\ pc' = [pc EXCEPT ![starts + 1] = "join"]
    /\ running' = TRUE /\ producer' = TRUE
    /\ UNCHANGED <<topic, at, end, stopping, output>>

\* Mutant of StopConsumer: the producer is closed first.
StopProducerFirst ==
    /\ starts > 0 /\ ~ stopping
    /\ running' = FALSE /\ stopping' = TRUE
    /\ producer' = FALSE
    /\ UNCHANGED <<topic, loops, output>>

(* stop: the loop is told, and its consumer is closed under it; then what  *)
(* the producer holds is flushed before it is closed.  It may be called    *)
(* again.                                                                  *)
StopConsumer ==
    /\ starts > 0 /\ ~ stopping
    /\ running' = FALSE /\ stopping' = TRUE
    /\ open' = [open EXCEPT ![starts] = FALSE]
    /\ UNCHANGED <<topic, starts, pc, at, end, producer, output>>

(* A flush that times out raises, and the producer is left as it is.       *)
StopProducer ==
    /\ stopping
    /\ stopping' = FALSE
    /\ \/ buffer = {} /\ producer' = FALSE
       \/ UNCHANGED producer
    /\ open' = [open EXCEPT ![starts] = FALSE]
    /\ UNCHANGED <<topic, starts, pc, at, end, running, output>>

(* The process dies: threads, buffers and connections are gone.            *)
Crash ==
    /\ starts > 0
    /\ open' = [k \in Loops |-> FALSE]
    /\ pc' = [k \in Loops |-> "off"]
    /\ running' = FALSE /\ stopping' = FALSE /\ producer' = FALSE
    /\ buffer' = {}
    /\ excused' = excused \cup buffer
    /\ UNCHANGED <<topic, starts, at, end, results, failed>>

-----------------------------------------------------------------------------

(* The first poll finds the group's offset, or begins where the policy     *)
(* says when there is none.                                                *)
Join(k) ==
    /\ pc[k] = "join" /\ open[k]
    /\ LET from == IF committed # NoOffset THEN committed
                   ELSE IF ResetToLatest THEN log ELSE 0
       IN  /\ at' = [at EXCEPT ![k] = from]
           /\ end' = [end EXCEPT ![k] = from]
           /\ base' = IF committed = NoOffset THEN from ELSE base
    /\ pc' = [pc EXCEPT ![k] = "poll"]
    /\ UNCHANGED <<log, committed, starts, open, running, stopping, producer, output>>

(* poll returns what is there, up to max_poll_records, or nothing.         *)
Poll(k) ==
    /\ pc[k] = "poll" /\ open[k]
    /\ \E upto \in at[k]..log :
        /\ upto <= at[k] + MaxPoll
        /\ upto = at[k] => log = at[k]
        /\ end' = [end EXCEPT ![k] = upto]
    /\ pc' = [pc EXCEPT ![k] = "process"]
    /\ UNCHANGED <<topic, starts, open, at, running, stopping, producer, output>>

(* The loop ends when it was told to, and when poll or commit raises: they *)
(* do on a closed consumer.                                                *)
LoopEnds(k) ==
    /\ pc[k] \in {"join", "poll"} \/ (pc[k] = "process" /\ at[k] = end[k])
    /\ ~ open[k]
    /\ pc' = [pc EXCEPT ![k] = "off"]
    /\ UNCHANGED <<topic, starts, open, at, end, running, stopping, producer, output>>

(* The broker refuses a commit of an open consumer: that ends the loop too,*)
(* and nothing starts it again.                                            *)
CommitFails(k) ==
    /\ pc[k] = "process" /\ at[k] = end[k] /\ open[k]
    /\ pc' = [pc EXCEPT ![k] = "off"]
    /\ UNCHANGED <<topic, starts, open, at, end, running, stopping, producer, output>>

Current(k) == at[k] + 1

(* _process_message: handlers are called one after another, in the loop's  *)
(* thread; no flag is looked at before the batch is done.                  *)
Take(k) ==
    /\ pc[k] = "process" /\ at[k] < end[k]
    /\ \/ /\ Current(k) \in Unhandled
          /\ at' = [at EXCEPT ![k] = @ + 1]
          /\ UNCHANGED pc
       \/ /\ Current(k) \notin Unhandled
          /\ pc' = [pc EXCEPT ![k] = "handle"]
          /\ UNCHANGED at
    /\ UNCHANGED <<topic, starts, open, end, running, stopping, producer, output>>

Handled(k) ==
    /\ at' = [at EXCEPT ![k] = @ + 1]
    /\ pc' = [pc EXCEPT ![k] = "process"]

(* The handler sends a result.  A producer that is closed raises, which    *)
(* _send catches: the event counts as processed all the same.              *)
Sent(k) == IF producer THEN buffer \cup {Current(k)} ELSE buffer

HandlerSends(k) ==
    /\ pc[k] = "handle"
    /\ Handled(k)
    /\ buffer' = Sent(k)
    /\ UNCHANGED <<topic, starts, open, end, running, stopping, producer, results, failed, excused>>

(* It raises, before it sent the result or after, and tells the error hook.*)
HandlerRaises(k) ==
    /\ pc[k] = "handle"
    /\ Handled(k)
    /\ buffer' \in {buffer, Sent(k)}
    /\ failed' = failed \cup {Current(k)}
    /\ UNCHANGED <<topic, starts, open, end, running, stopping, producer, results, excused>>

\* Mutant of BatchDone: offsets are committed before the records are handled.
BatchPolled(k) == pc[k] = "process"
BatchDone(k) == pc[k] = "process" /\ at[k] = end[k]

\* Mutant of Offset: one more than the position.
OffsetAfterNext(k) == end[k] + 1
\* What commit writes: the consumer's position.
Offset(k) == end[k]

Commit(k) ==
    /\ BatchDone(k) /\ open[k]
    /\ committed' = Offset(k)
    /\ pc' = [pc EXCEPT ![k] = IF at[k] = end[k] THEN "poll" ELSE @]
    /\ UNCHANGED <<log, base, starts, open, at, end, running, stopping, producer, output>>

(* The broker confirms a result of the producer's, or refuses it.          *)
Confirm(e) ==
    /\ e \in buffer
    /\ buffer' = buffer \ {e}
    /\ \/ results' = results \cup {e} /\ UNCHANGED excused
       \/ excused' = excused \cup {e} /\ UNCHANGED results
    /\ UNCHANGED <<topic, loops, running, stopping, producer, failed>>

-----------------------------------------------------------------------------

Loop(k) ==
    \/ Join(k) \/ Poll(k) \/ LoopEnds(k)
    \/ Take(k) \/ HandlerSends(k) \/ HandlerRaises(k)
    \/ Commit(k)

Next ==
    \/ Arrive \/ Start \/ StopConsumer \/ StopProducer \/ Crash
    \/ \E k \in Loops : Loop(k) \/ CommitFails(k)
    \/ \E e \in Events : Confirm(e)

Spec == Init /\ [][Next]_vars

(* The loop's thread runs.                                                 *)
FairSpec == Spec /\ \A k \in Loops : WF_vars(Loop(k))

-----------------------------------------------------------------------------

(* What the group will not read again was answered: its result is          *)
(* published or on its way, or the analysis failed and the hook was told,  *)
(* unless a crash or the broker took the result.  So stop loses nothing,   *)
(* although the loop goes on with its batch when the producer is closed:   *)
(* its consumer was closed before (pipeline.py:169-174, consumer.py:189).  *)
CommittedIsAnswered ==
    \A e \in Events \ Unhandled :
        base < e /\ e <= committed => e \in buffer \cup results \cup failed \cup excused

(* The promise of AtLeastOnce.tla, over crashes, restarts and stops under  *)
(* the loop: the group's offset only goes forward and only over answered   *)
(* events, and an answer is lost only while the broker has not confirmed   *)
(* it (pipeline.py:138-176, consumer.py:189-227, producer.py:185-240).     *)
Stream == INSTANCE AtLeastOnce WITH
    offset <- committed, origin <- base,
    pending <- buffer, published <- results, reported <- failed, lost <- excused

ImplementsAtLeastOnce == Stream!Spec

(* Events are handled again only if no commit covers them, and in order:   *)
(* a loop whose consumer is open is never before the group's offset        *)
(* (consumer.py:203-219).                                                  *)
CommittedIsNotRepeated ==
    \A k \in Loops : open[k] /\ pc[k] \in {"poll", "process", "handle"} => committed <= at[k]

(* An event is handled, over crashes, restarts and stops, if in the end    *)
(* some loop keeps reading and it arrived after the first position was     *)
(* fixed (consumer.py:192-219).                                            *)
Reading == \E k \in Loops : open[k] /\ pc[k] # "off"
EventsAreHandled ==
    <>[]Reading => \A e \in Events :
        log >= e ~> e <= base \/ e \in Unhandled \cup buffer \cup results \cup failed \cup excused

=============================================================================
