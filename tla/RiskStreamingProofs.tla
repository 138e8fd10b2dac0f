------------------------- MODULE RiskStreamingProofs -------------------------
(***************************************************************************)
(* Proofs about RiskStreaming, for any number of events, starts and events *)
(* of a poll, and both reset policies.                                     *)
(***************************************************************************)
EXTENDS RiskStreaming, TLAPS

-----------------------------------------------------------------------------
(* The inductive invariant.                                                *)

Answered == buffer \cup results \cup failed \cup excused

(* Only the newest loop has an open consumer, and while it has, results    *)
(* are accepted.                                                           *)
OneReader ==
    /\ \A k \in Loops : open[k] => k = starts /\ running
    /\ running => producer /\ ~ stopping

InBatch == {"poll", "process", "handle"}

BatchesAreBounded ==
    \A k \in Loops :
        /\ pc[k] \in InBatch => at[k] <= end[k]
        /\ pc[k] = "handle" => at[k] < end[k]
        /\ pc[k] = "poll" => at[k] = end[k]

(* What an open consumer's loop is done with was answered.                 *)
DoneIsAnswered ==
    \A k \in Loops : open[k] /\ pc[k] \in InBatch =>
        \A e \in Events \ Unhandled : base < e /\ e <= at[k] => e \in Answered

IInv ==
    /\ TypeOK
    /\ OneReader
    /\ BatchesAreBounded
    /\ DoneIsAnswered
    /\ CommittedIsAnswered
    /\ CommittedIsNotRepeated

-----------------------------------------------------------------------------

LEMMA Initially == Init => IInv
<1> SUFFICES ASSUME Init PROVE IInv
  OBVIOUS
<1>1. running \in BOOLEAN /\ stopping \in BOOLEAN /\ producer \in BOOLEAN
  BY DEF Init
<1>2. /\ log \in 0..MaxEvents /\ base \in 0..MaxEvents /\ starts \in 0..MaxStarts
      /\ committed \in {NoOffset} \cup 0..MaxEvents
  BY BoundsAssumption DEF Init, NoOffset
<1>3. open \in [Loops -> BOOLEAN]
  BY DEF Init
<1>4. /\ pc \in [Loops -> LoopState]
      /\ at \in [Loops -> 0..MaxEvents] /\ end \in [Loops -> 0..MaxEvents]
  BY BoundsAssumption DEF Init, LoopState
<1>5. buffer \cup results \cup failed \cup excused \subseteq Events
  BY DEF Init
<1>6. TypeOK
  BY <1>1, <1>2, <1>3, <1>4, <1>5 DEF TypeOK
<1>7. \A k \in Loops : ~ open[k] /\ pc[k] = "off"
  BY DEF Init
<1>8. ~ running
  BY DEF Init
<1>9. CommittedIsAnswered
  BY DEF CommittedIsAnswered, Init, NoOffset, Events
<1>10. QED
  BY <1>6, <1>7, <1>8, <1>9 DEF IInv, OneReader, BatchesAreBounded, InBatch,
                                DoneIsAnswered, CommittedIsNotRepeated

-----------------------------------------------------------------------------
(* What a step that moves no offset leaves of the invariant.               *)

(* Answers are never taken back.                                           *)
LEMMA OutputGrows ==
    ASSUME IInv, TypeOK', UNCHANGED <<committed, base, at>>,
           Answered \subseteq Answered',
           \A k \in Loops : open'[k] /\ pc'[k] \in InBatch => open[k] /\ pc[k] \in InBatch
    PROVE  DoneIsAnswered' /\ CommittedIsAnswered' /\ CommittedIsNotRepeated'
<1>1. DoneIsAnswered'
  BY DEF IInv, DoneIsAnswered
<1>2. CommittedIsAnswered'
  BY DEF IInv, CommittedIsAnswered, Answered
<1>3. CommittedIsNotRepeated'
  BY DEF IInv, CommittedIsNotRepeated, InBatch
<1>4. QED
  BY <1>1, <1>2, <1>3

(* TypeOK by subject.                                                      *)
TopicTyped ==
    /\ log \in 0..MaxEvents
    /\ committed \in {NoOffset} \cup 0..MaxEvents
    /\ base \in 0..MaxEvents
PositionsTyped ==
    /\ starts \in 0..MaxStarts
    /\ pc \in [Loops -> LoopState]
    /\ at \in [Loops -> 0..MaxEvents]
    /\ end \in [Loops -> 0..MaxEvents]
OpenTyped == open \in [Loops -> BOOLEAN]
FlagsTyped == running \in BOOLEAN /\ stopping \in BOOLEAN /\ producer \in BOOLEAN
OutputTyped == buffer \cup results \cup failed \cup excused \subseteq Events
Typed == TopicTyped /\ PositionsTyped /\ OpenTyped /\ FlagsTyped /\ OutputTyped

LEMMA Typing == TypeOK <=> Typed
<1>1. TypeOK => Typed
  BY DEF TypeOK, Typed, TopicTyped, PositionsTyped, OpenTyped, FlagsTyped, OutputTyped
<1>2. Typed => TypeOK
  BY DEF TypeOK, Typed, TopicTyped, PositionsTyped, OpenTyped, FlagsTyped, OutputTyped
<1>3. QED
  BY <1>1, <1>2

LEMMA ArriveKeeps == IInv /\ Arrive => IInv'
<1> SUFFICES ASSUME IInv, Arrive PROVE IInv'
  OBVIOUS
<1>1. UNCHANGED <<committed, base, starts, open, pc, at, end, running, stopping, producer>>
  BY DEF Arrive, loops
<1>2. UNCHANGED <<buffer, results, failed, excused>> /\ log' = log + 1 /\ log < MaxEvents
  BY DEF Arrive, output
<1>3. Typed
  BY Typing DEF IInv
<1>4. log' \in 0..MaxEvents
  BY <1>2, <1>3, BoundsAssumption DEF Typed, TopicTyped
<1>5. Typed'
  BY <1>1, <1>2, <1>3, <1>4 DEF Typed, TopicTyped, PositionsTyped, OpenTyped, FlagsTyped, OutputTyped
<1>6. OneReader' /\ BatchesAreBounded'
  BY <1>1 DEF IInv, OneReader, BatchesAreBounded
<1>7. Answered' = Answered
  BY <1>2 DEF Answered
<1>8. TypeOK'
  BY <1>5, Typing, PTL
<1>9. QED
  BY <1>1, <1>6, <1>7, <1>8, OutputGrows DEF IInv

LEMMA StartKeeps == IInv /\ Start => IInv'
<1> SUFFICES ASSUME IInv, Start PROVE IInv'
  OBVIOUS
<1>1. UNCHANGED <<log, committed, base, at, end, stopping, buffer, results, failed, excused>>
  BY DEF Start, topic, output
<1>2. /\ starts' = starts + 1 /\ starts < MaxStarts /\ ~ running
      /\ open' = [open EXCEPT ![starts + 1] = TRUE]
      /\ pc' = [pc EXCEPT ![starts + 1] = "join"]
      /\ running' = TRUE /\ producer' = TRUE
  BY DEF Start
<1>3. Typed
  BY Typing DEF IInv
<1>4. \A k \in Loops : ~ open[k]
  BY <1>2 DEF IInv, OneReader
<1>5. starts + 1 \in Loops /\ starts' \in 0..MaxStarts
  BY <1>2, <1>3, BoundsAssumption DEF Typed, PositionsTyped, Loops
<1>6. PositionsTyped'
  BY <1>1, <1>2, <1>3, <1>5 DEF Typed, PositionsTyped, LoopState
<1>7. OpenTyped' /\ FlagsTyped'
  <2>1. OpenTyped'
    BY <1>2, <1>3 DEF Typed, OpenTyped
  <2>2. running' \in BOOLEAN /\ producer' \in BOOLEAN
    BY <1>2
  <2>3. stopping' \in BOOLEAN
    BY <1>1, <1>3 DEF Typed, FlagsTyped
  <2>4. QED
    BY <2>1, <2>2, <2>3 DEF FlagsTyped
<1>8. Typed'
  BY <1>1, <1>3, <1>6, <1>7 DEF Typed, TopicTyped, OutputTyped
<1>9. \A k \in Loops \ {starts + 1} : open'[k] = open[k] /\ pc'[k] = pc[k]
  BY <1>2, <1>3 DEF Typed, OpenTyped, PositionsTyped
<1>10. pc'[starts + 1] = "join"
  BY <1>2, <1>3, <1>5 DEF Typed, PositionsTyped
<1>11. OneReader'
  BY <1>1, <1>2, <1>4, <1>9 DEF OneReader, Start
<1>12. BatchesAreBounded'
  BY <1>1, <1>9, <1>10 DEF IInv, BatchesAreBounded, InBatch
<1>13. Answered' = Answered
  BY <1>1 DEF Answered
<1>14. \A k \in Loops : ~ (open'[k] /\ pc'[k] \in InBatch)
  BY <1>4, <1>9, <1>10 DEF InBatch
<1>15. TypeOK'
  BY <1>8, Typing, PTL
<1>16. QED
  BY <1>1, <1>11, <1>12, <1>13, <1>14, <1>15, OutputGrows DEF IInv

LEMMA StopConsumerKeeps == IInv /\ StopConsumer => IInv'
<1> SUFFICES ASSUME IInv, StopConsumer PROVE IInv'
  OBVIOUS
<1>1. /\ UNCHANGED <<log, committed, base, starts, pc, at, end, producer>>
      /\ UNCHANGED <<buffer, results, failed, excused>>
  BY DEF StopConsumer, topic, output
<1>2. /\ running' = FALSE /\ stopping' = TRUE
      /\ open' = [open EXCEPT ![starts] = FALSE]
  BY DEF StopConsumer
<1>3. Typed
  BY Typing DEF IInv
<1>4. OpenTyped' /\ FlagsTyped'
  <2>1. OpenTyped'
    BY <1>2, <1>3 DEF Typed, OpenTyped
  <2>2. running' \in BOOLEAN /\ stopping' \in BOOLEAN
    BY <1>2
  <2>3. producer' \in BOOLEAN
    BY <1>1, <1>3 DEF Typed, FlagsTyped
  <2>4. QED
    BY <2>1, <2>2, <2>3 DEF FlagsTyped
<1>5. Typed'
  BY <1>1, <1>3, <1>4 DEF Typed, TopicTyped, OutputTyped, PositionsTyped
<1>6. TypeOK'
  BY <1>5, Typing, PTL
<1>7. \A k \in Loops : ~ open'[k]
  BY <1>2, <1>3 DEF IInv, OneReader, Typed, OpenTyped
<1>8. OneReader'
  BY <1>2, <1>7 DEF OneReader
<1>9. BatchesAreBounded' /\ Answered' = Answered
  BY <1>1 DEF IInv, BatchesAreBounded, Answered
<1>10. QED
  BY <1>1, <1>6, <1>7, <1>8, <1>9, OutputGrows DEF IInv

(* The producer is closed when no consumer is open any more.               *)
LEMMA StopProducerKeeps == IInv /\ StopProducer => IInv'
<1> SUFFICES ASSUME IInv, StopProducer PROVE IInv'
  OBVIOUS
<1>1. /\ UNCHANGED <<log, committed, base, starts, pc, at, end, running>>
      /\ UNCHANGED <<buffer, results, failed, excused>>
  BY DEF StopProducer, topic, output
<1>2. /\ stopping' = FALSE
      /\ producer' = FALSE \/ producer' = producer
      /\ open' = [open EXCEPT ![starts] = FALSE]
  BY DEF StopProducer
<1>3. Typed
  BY Typing DEF IInv
<1>4. OpenTyped' /\ FlagsTyped'
  <2>1. OpenTyped'
    BY <1>2, <1>3 DEF Typed, OpenTyped
  <2>2. stopping' \in BOOLEAN
    BY <1>2
  <2>3. producer' \in BOOLEAN /\ running' \in BOOLEAN
    <3>1. producer \in BOOLEAN /\ running \in BOOLEAN
      BY <1>3 DEF Typed, FlagsTyped
    <3>2. QED
      BY <1>1, <1>2, <3>1
  <2>4. QED
    BY <2>1, <2>2, <2>3 DEF FlagsTyped
<1>5. Typed'
  BY <1>1, <1>3, <1>4 DEF Typed, TopicTyped, OutputTyped, PositionsTyped
<1>6. TypeOK'
  BY <1>5, Typing, PTL
<1>7. \A k \in Loops : ~ open'[k]
  <2>1. \A k \in Loops : ~ open[k]
    BY DEF IInv, OneReader, StopProducer
  <2>2. QED
    BY <2>1, <1>2, <1>3 DEF Typed, OpenTyped
<1>8. OneReader'
  BY <1>1, <1>7 DEF IInv, OneReader, StopProducer
<1>9. BatchesAreBounded' /\ Answered' = Answered
  BY <1>1 DEF IInv, BatchesAreBounded, Answered
<1>10. QED
  BY <1>1, <1>6, <1>7, <1>8, <1>9, OutputGrows DEF IInv

LEMMA CrashKeeps == IInv /\ Crash => IInv'
<1> SUFFICES ASSUME IInv, Crash PROVE IInv'
  OBVIOUS
<1>1. UNCHANGED <<log, committed, base, starts, at, end, results, failed>>
  BY DEF Crash, topic
<1>2. /\ running' = FALSE /\ stopping' = FALSE /\ producer' = FALSE
      /\ open' = [k \in Loops |-> FALSE]
      /\ pc' = [k \in Loops |-> "off"]
      /\ buffer' = {} /\ excused' = excused \cup buffer
  BY DEF Crash
<1>3. Typed
  BY Typing DEF IInv
<1>4. OpenTyped' /\ FlagsTyped'
  <2>1. OpenTyped'
    BY <1>2 DEF OpenTyped
  <2>2. running' \in BOOLEAN /\ stopping' \in BOOLEAN /\ producer' \in BOOLEAN
    BY <1>2
  <2>3. QED
    BY <2>1, <2>2 DEF FlagsTyped
<1>5. PositionsTyped' /\ OutputTyped'
  BY <1>1, <1>2, <1>3 DEF Typed, PositionsTyped, LoopState, OutputTyped
<1>6. Typed'
  BY <1>1, <1>3, <1>4, <1>5 DEF Typed, TopicTyped
<1>7. TypeOK'
  BY <1>6, Typing, PTL
<1>8. \A k \in Loops : ~ open'[k] /\ pc'[k] = "off"
  BY <1>2
<1>9. OneReader' /\ BatchesAreBounded'
  BY <1>2, <1>8 DEF OneReader, BatchesAreBounded, InBatch
<1>10. Answered \subseteq Answered'
  BY <1>1, <1>2 DEF Answered
<1>11. QED
  BY <1>1, <1>7, <1>8, <1>9, <1>10, OutputGrows DEF IInv

-----------------------------------------------------------------------------
(* The steps of a loop.                                                    *)

(* It changes neither the flags nor what is open.                          *)
LEMMA LoopFrame ==
    ASSUME IInv, UNCHANGED <<log, starts, open, running, stopping, producer>>
    PROVE  OneReader' /\ OpenTyped' /\ FlagsTyped'
<1>1. Typed
  BY Typing DEF IInv
<1>2. OneReader'
  BY DEF IInv, OneReader
<1>3. OpenTyped' /\ FlagsTyped'
  BY <1>1 DEF Typed, OpenTyped, FlagsTyped
<1>4. QED
  BY <1>2, <1>3

LEMMA JoinKeeps == ASSUME IInv, NEW k \in Loops, Join(k) PROVE IInv'
<1> DEFINE from == IF committed # NoOffset THEN committed
                   ELSE IF ResetToLatest THEN log ELSE 0
<1>1. /\ UNCHANGED <<log, committed, starts, open, running, stopping, producer>>
      /\ UNCHANGED <<buffer, results, failed, excused>>
  BY DEF Join, output
<1>2. /\ pc[k] = "join" /\ open[k]
      /\ at' = [at EXCEPT ![k] = from] /\ end' = [end EXCEPT ![k] = from]
      /\ base' = IF committed = NoOffset THEN from ELSE base
      /\ pc' = [pc EXCEPT ![k] = "poll"]
  BY DEF Join
<1>3. Typed
  BY Typing DEF IInv
<1>4. /\ log \in 0..MaxEvents /\ base \in 0..MaxEvents
      /\ committed = -1 \/ committed \in 0..MaxEvents
  BY <1>3 DEF Typed, TopicTyped, NoOffset
<1>5. from \in 0..MaxEvents /\ committed <= from
  BY <1>4, BoundsAssumption DEF NoOffset
<1>6. committed # -1 => from = committed /\ base' = base
  BY <1>2 DEF NoOffset
<1>7. committed = -1 => base' = from
  BY <1>2 DEF NoOffset
<1> HIDE DEF from
<1>8. OneReader' /\ OpenTyped' /\ FlagsTyped'
  BY <1>1, LoopFrame
<1>9. PositionsTyped'
  BY <1>1, <1>2, <1>3, <1>5 DEF Typed, PositionsTyped, LoopState
<1>10. TopicTyped' /\ OutputTyped'
  BY <1>1, <1>3, <1>4, <1>5, <1>6, <1>7 DEF Typed, TopicTyped, OutputTyped
<1>11. Typed'
  BY <1>8, <1>9, <1>10 DEF Typed
<1>12. TypeOK'
  BY <1>11, Typing, PTL
<1>13. /\ at'[k] = from /\ end'[k] = from /\ pc'[k] = "poll"
       /\ \A j \in Loops \ {k} : at'[j] = at[j] /\ end'[j] = end[j] /\ pc'[j] = pc[j]
  BY <1>2, <1>3 DEF Typed, PositionsTyped
<1>14. \A j \in Loops : open[j] => j = k
  BY <1>2 DEF IInv, OneReader
<1>15. BatchesAreBounded'
  BY <1>5, <1>13 DEF IInv, BatchesAreBounded, InBatch
<1>16. Answered' = Answered
  BY <1>1 DEF Answered
<1>17. ASSUME NEW e \in Events \ Unhandled, base' < e, e <= from PROVE e \in Answered
  <2>1. committed # -1
    BY <1>5, <1>7, <1>17 DEF Events
  <2>2. base < e /\ e <= committed
    BY <2>1, <1>6, <1>17
  <2>3. QED
    BY <2>2 DEF IInv, CommittedIsAnswered, Answered
<1>18. DoneIsAnswered'
  BY <1>1, <1>13, <1>14, <1>16, <1>17 DEF DoneIsAnswered
<1>19. CommittedIsAnswered'
  <2> SUFFICES ASSUME NEW e \in Events \ Unhandled, base' < e, e <= committed
               PROVE  e \in Answered
    BY <1>1, <1>16 DEF CommittedIsAnswered, Answered
  <2>1. e <= from
    BY <1>4, <1>5 DEF Events
  <2>2. QED
    BY <2>1, <1>17
<1>20. CommittedIsNotRepeated'
  BY <1>1, <1>5, <1>13, <1>14 DEF CommittedIsNotRepeated
<1>21. QED
  BY <1>8, <1>12, <1>15, <1>18, <1>19, <1>20 DEF IInv

LEMMA PollKeeps == ASSUME IInv, NEW k \in Loops, Poll(k) PROVE IInv'
<1>1. /\ UNCHANGED <<log, committed, base, starts, open, at, running, stopping, producer>>
      /\ UNCHANGED <<buffer, results, failed, excused>>
  BY DEF Poll, topic, output
<1>2. PICK upto \in at[k]..log : end' = [end EXCEPT ![k] = upto]
  BY DEF Poll
<1>3. pc[k] = "poll" /\ pc' = [pc EXCEPT ![k] = "process"]
  BY DEF Poll
<1>4. Typed
  BY Typing DEF IInv
<1>5. at[k] \in 0..MaxEvents /\ log \in 0..MaxEvents
  BY <1>4 DEF Typed, TopicTyped, PositionsTyped
<1>6. upto \in 0..MaxEvents /\ at[k] <= upto
  BY <1>2, <1>5, BoundsAssumption
<1>7. OneReader' /\ OpenTyped' /\ FlagsTyped'
  BY <1>1, LoopFrame
<1>8. PositionsTyped'
  BY <1>1, <1>2, <1>3, <1>4, <1>6 DEF Typed, PositionsTyped, LoopState
<1>9. Typed'
  BY <1>1, <1>4, <1>7, <1>8 DEF Typed, TopicTyped, OutputTyped
<1>10. TypeOK'
  BY <1>9, Typing, PTL
<1>11. /\ end'[k] = upto /\ pc'[k] = "process"
       /\ \A j \in Loops \ {k} : end'[j] = end[j] /\ pc'[j] = pc[j]
  BY <1>2, <1>3, <1>4 DEF Typed, PositionsTyped
<1>12. BatchesAreBounded'
  BY <1>1, <1>6, <1>11 DEF IInv, BatchesAreBounded, InBatch
<1>13. Answered' = Answered
  BY <1>1 DEF Answered
<1>14. \A j \in Loops : pc'[j] \in InBatch => pc[j] \in InBatch
  BY <1>3, <1>11 DEF InBatch
<1>15. QED
  BY <1>1, <1>7, <1>10, <1>12, <1>13, <1>14, OutputGrows DEF IInv

LEMMA LoopEndsKeeps ==
    ASSUME IInv, NEW k \in Loops, LoopEnds(k) \/ CommitFails(k) PROVE IInv'
<1>1. /\ UNCHANGED <<log, committed, base, starts, open, at, end, running, stopping, producer>>
      /\ UNCHANGED <<buffer, results, failed, excused>>
      /\ pc' = [pc EXCEPT ![k] = "off"]
  BY DEF LoopEnds, CommitFails, topic, output
<1>2. Typed
  BY Typing DEF IInv
<1>3. OneReader' /\ OpenTyped' /\ FlagsTyped'
  BY <1>1, LoopFrame
<1>4. PositionsTyped'
  BY <1>1, <1>2 DEF Typed, PositionsTyped, LoopState
<1>5. Typed'
  BY <1>1, <1>2, <1>3, <1>4 DEF Typed, TopicTyped, OutputTyped
<1>6. TypeOK'
  BY <1>5, Typing, PTL
<1>7. pc'[k] = "off" /\ \A j \in Loops \ {k} : pc'[j] = pc[j]
  BY <1>1, <1>2 DEF Typed, PositionsTyped
<1>8. BatchesAreBounded'
  BY <1>1, <1>7 DEF IInv, BatchesAreBounded, InBatch
<1>9. Answered' = Answered
  BY <1>1 DEF Answered
<1>10. \A j \in Loops : pc'[j] \in InBatch => pc[j] \in InBatch
  BY <1>7 DEF InBatch
<1>11. QED
  BY <1>1, <1>3, <1>6, <1>8, <1>9, <1>10, OutputGrows DEF IInv

(* One event more is done: it was answered, or it needs no answer.         *)
LEMMA BatchGoesOn ==
    ASSUME IInv, NEW k \in Loops, at[k] < end[k],
           UNCHANGED <<log, committed, base, starts, open, end, running, stopping, producer>>,
           at' = [at EXCEPT ![k] = at[k] + 1], pc' = [pc EXCEPT ![k] = "process"],
           Answered \subseteq Answered', Answered' \subseteq Events,
           pc[k] \in InBatch,
           open[k] => at[k] + 1 \in Unhandled \/ at[k] + 1 \in Answered'
    PROVE  IInv'
<1>1. Typed
  BY Typing DEF IInv
<1>2. at[k] \in 0..MaxEvents /\ end[k] \in 0..MaxEvents
  BY <1>1 DEF Typed, PositionsTyped
<1>3. at[k] + 1 \in 0..MaxEvents
  BY <1>2, BoundsAssumption
<1>4. OneReader' /\ OpenTyped' /\ FlagsTyped'
  BY LoopFrame
<1>5. PositionsTyped'
  BY <1>1, <1>3 DEF Typed, PositionsTyped, LoopState
<1>6. OutputTyped'
  BY DEF OutputTyped, Answered
<1>7. Typed'
  BY <1>1, <1>4, <1>5, <1>6 DEF Typed, TopicTyped
<1>8. TypeOK'
  BY <1>7, Typing, PTL
<1>9. /\ at'[k] = at[k] + 1 /\ pc'[k] = "process"
      /\ \A j \in Loops \ {k} : at'[j] = at[j] /\ pc'[j] = pc[j]
  BY <1>1 DEF Typed, PositionsTyped
<1>10. BatchesAreBounded'
  BY <1>2, <1>9 DEF IInv, BatchesAreBounded, InBatch
<1>11. DoneIsAnswered'
  <2> SUFFICES ASSUME NEW j \in Loops, open[j], pc'[j] \in InBatch,
                      NEW e \in Events \ Unhandled, base < e, e <= at'[j]
               PROVE  e \in Answered'
    BY DEF DoneIsAnswered
  <2>1. CASE j # k
    BY <2>1, <1>9 DEF IInv, DoneIsAnswered
  <2>2. CASE j = k /\ e <= at[k]
    BY <2>2 DEF IInv, DoneIsAnswered
  <2>3. CASE j = k /\ ~ (e <= at[k])
    <3>1. e = at[k] + 1
      BY <2>3, <1>2, <1>9 DEF Events
    <3>2. QED
      BY <2>3, <3>1
  <2>4. QED
    BY <2>1, <2>2, <2>3
<1>12. CommittedIsAnswered'
  BY DEF IInv, CommittedIsAnswered, Answered
<1>13. CommittedIsNotRepeated'
  <2>1. committed = -1 \/ committed \in 0..MaxEvents
    BY <1>1 DEF Typed, TopicTyped, NoOffset
  <2> SUFFICES ASSUME NEW j \in Loops, open[j], pc'[j] \in {"poll", "process", "handle"}
               PROVE  committed <= at'[j]
    BY DEF CommittedIsNotRepeated
  <2>2. committed <= at[j]
    BY <1>9 DEF IInv, CommittedIsNotRepeated, InBatch
  <2>3. QED
    BY <2>1, <2>2, <1>2, <1>9
<1>14. QED
  BY <1>4, <1>8, <1>10, <1>11, <1>12, <1>13 DEF IInv

LEMMA TakeKeeps == ASSUME IInv, NEW k \in Loops, Take(k) PROVE IInv'
<1>1. /\ UNCHANGED <<log, committed, base, starts, open, end, running, stopping, producer>>
      /\ UNCHANGED <<buffer, results, failed, excused>>
      /\ pc[k] = "process" /\ at[k] < end[k]
  BY DEF Take, topic, output
<1>2. Typed
  BY Typing DEF IInv
<1>3. Answered' = Answered /\ Answered \subseteq Events
  BY <1>1, <1>2 DEF Answered, Typed, OutputTyped
<1>4. ASSUME at' = [at EXCEPT ![k] = @ + 1], UNCHANGED pc, Current(k) \in Unhandled
      PROVE  IInv'
  <2>1. pc' = [pc EXCEPT ![k] = "process"]
    BY <1>1, <1>2, <1>4 DEF Typed, PositionsTyped
  <2>2. at' = [at EXCEPT ![k] = at[k] + 1] /\ at[k] + 1 \in Unhandled
    BY <1>4 DEF Current
  <2>3. pc[k] \in InBatch
    BY <1>1 DEF InBatch
  <2>4. QED
    BY <1>1, <1>3, <2>1, <2>2, <2>3, BatchGoesOn
<1>5. ASSUME pc' = [pc EXCEPT ![k] = "handle"], UNCHANGED at
      PROVE  IInv'
  <2>1. OneReader' /\ OpenTyped' /\ FlagsTyped'
    BY <1>1, LoopFrame
  <2>2. PositionsTyped'
    BY <1>1, <1>2, <1>5 DEF Typed, PositionsTyped, LoopState
  <2>3. Typed'
    BY <1>1, <1>2, <2>1, <2>2 DEF Typed, TopicTyped, OutputTyped
  <2>4. TypeOK'
    BY <2>3, Typing, PTL
  <2>5. pc'[k] = "handle" /\ \A j \in Loops \ {k} : pc'[j] = pc[j]
    BY <1>2, <1>5 DEF Typed, PositionsTyped
  <2>6. BatchesAreBounded'
    BY <1>1, <1>5, <2>5 DEF IInv, BatchesAreBounded, InBatch
  <2>7. \A j \in Loops : pc'[j] \in InBatch => pc[j] \in InBatch
    BY <1>1, <2>5 DEF InBatch
  <2>8. QED
    BY <1>1, <1>3, <1>5, <2>1, <2>4, <2>6, <2>7, OutputGrows DEF IInv
<1>6. QED
  BY <1>4, <1>5 DEF Take

LEMMA HandlerKeeps ==
    ASSUME IInv, NEW k \in Loops, HandlerSends(k) \/ HandlerRaises(k) PROVE IInv'
<1>1. /\ UNCHANGED <<log, committed, base, starts, open, end, running, stopping, producer>>
      /\ pc[k] = "handle"
      /\ at' = [at EXCEPT ![k] = at[k] + 1] /\ pc' = [pc EXCEPT ![k] = "process"]
  BY DEF HandlerSends, HandlerRaises, Handled, topic
<1>2. at[k] < end[k] /\ pc[k] \in InBatch
  BY <1>1 DEF IInv, BatchesAreBounded, InBatch
<1>3. Typed
  BY Typing DEF IInv
<1>4. at[k] + 1 \in Events
  <2>1. at[k] \in 0..MaxEvents /\ end[k] \in 0..MaxEvents
    BY <1>3 DEF Typed, PositionsTyped
  <2>2. QED
    BY <1>2, <2>1, BoundsAssumption DEF Events
<1>5. Answered \subseteq Events
  BY <1>3 DEF Answered, Typed, OutputTyped
<1>6. CASE HandlerSends(k)
  <2>1. /\ UNCHANGED <<results, failed, excused>>
        /\ buffer' = IF producer THEN buffer \cup {at[k] + 1} ELSE buffer
    BY <1>6 DEF HandlerSends, Sent, Current
  <2>2. Answered \subseteq Answered' /\ Answered' \subseteq Answered \cup {at[k] + 1}
    BY <2>1 DEF Answered
  <2>3. open[k] => at[k] + 1 \in Answered'
    <3>1. open[k] => producer
      BY DEF IInv, OneReader
    <3>2. QED
      BY <2>1, <3>1 DEF Answered
  <2>4. Answered' \subseteq Events
    BY <1>4, <1>5, <2>2
  <2>5. QED
    BY <1>1, <1>2, <2>2, <2>3, <2>4, BatchGoesOn
<1>7. CASE HandlerRaises(k)
  <2>1. /\ UNCHANGED <<results, excused>> /\ failed' = failed \cup {at[k] + 1}
        /\ buffer' = buffer \/ buffer' = buffer \cup {at[k] + 1}
    BY <1>7 DEF HandlerRaises, Sent, Current
  <2>2. Answered' = Answered \cup {at[k] + 1}
    BY <2>1 DEF Answered
  <2>3. Answered' \subseteq Events
    BY <1>4, <1>5, <2>2
  <2>4. QED
    BY <1>1, <1>2, <2>2, <2>3, BatchGoesOn
<1>8. QED
  BY <1>6, <1>7

LEMMA CommitKeeps == ASSUME IInv, NEW k \in Loops, Commit(k) PROVE IInv'
<1>1. /\ UNCHANGED <<log, base, starts, open, at, end, running, stopping, producer>>
      /\ UNCHANGED <<buffer, results, failed, excused>>
  BY DEF Commit, output
<1>2. /\ pc[k] = "process" /\ at[k] = end[k] /\ open[k]
      /\ committed' = at[k] /\ pc' = [pc EXCEPT ![k] = "poll"]
  BY DEF Commit, BatchDone, Offset
<1>3. Typed
  BY Typing DEF IInv
<1>4. at[k] \in 0..MaxEvents
  BY <1>3 DEF Typed, PositionsTyped
<1>5. OneReader' /\ OpenTyped' /\ FlagsTyped'
  BY <1>1, LoopFrame
<1>6. PositionsTyped'
  BY <1>1, <1>2, <1>3 DEF Typed, PositionsTyped, LoopState
<1>7. Typed'
  BY <1>1, <1>2, <1>3, <1>4, <1>5, <1>6 DEF Typed, TopicTyped, OutputTyped
<1>8. TypeOK'
  BY <1>7, Typing, PTL
<1>9. pc'[k] = "poll" /\ \A j \in Loops \ {k} : pc'[j] = pc[j]
  BY <1>2, <1>3 DEF Typed, PositionsTyped
<1>10. BatchesAreBounded'
  BY <1>1, <1>2, <1>9 DEF IInv, BatchesAreBounded, InBatch
<1>11. Answered' = Answered
  BY <1>1 DEF Answered
<1>12. \A j \in Loops : pc'[j] \in InBatch => pc[j] \in InBatch
  BY <1>2, <1>9 DEF InBatch
<1>13. DoneIsAnswered'
  BY <1>1, <1>11, <1>12 DEF IInv, DoneIsAnswered
<1>14. CommittedIsAnswered'
  BY <1>1, <1>2 DEF IInv, DoneIsAnswered, CommittedIsAnswered, InBatch, Answered
<1>15. \A j \in Loops : open[j] => j = k
  BY <1>2 DEF IInv, OneReader
<1>16. CommittedIsNotRepeated'
  BY <1>1, <1>2, <1>4, <1>15 DEF CommittedIsNotRepeated
<1>17. QED
  BY <1>5, <1>8, <1>10, <1>13, <1>14, <1>16 DEF IInv

LEMMA ConfirmKeeps == ASSUME IInv, NEW e \in Events, Confirm(e) PROVE IInv'
<1>1. UNCHANGED <<log, committed, base, starts, open, pc, at, end, running, stopping, producer>>
  BY DEF Confirm, topic, loops
<1>2. Answered' = Answered
  BY DEF Confirm, Answered
<1>3. Typed
  BY Typing DEF IInv
<1>4. OneReader' /\ OpenTyped' /\ FlagsTyped'
  BY <1>1, LoopFrame
<1>5. Typed'
  BY <1>1, <1>2, <1>3, <1>4 DEF Typed, TopicTyped, PositionsTyped, OutputTyped, Answered
<1>6. TypeOK'
  BY <1>5, Typing, PTL
<1>7. BatchesAreBounded'
  BY <1>1 DEF IInv, BatchesAreBounded
<1>8. QED
  BY <1>1, <1>2, <1>4, <1>6, <1>7, OutputGrows DEF IInv

-----------------------------------------------------------------------------

LEMMA Step == IInv /\ [Next]_vars => IInv'
<1> SUFFICES ASSUME IInv, [Next]_vars PROVE IInv'
  OBVIOUS
<1>1. ASSUME NEW k \in Loops, Loop(k) \/ CommitFails(k) PROVE IInv'
  BY <1>1, JoinKeeps, PollKeeps, LoopEndsKeeps, TakeKeeps, HandlerKeeps, CommitKeeps DEF Loop
<1>2. CASE UNCHANGED vars
  <2>1. UNCHANGED <<log, committed, base, starts, open, pc, at, end, running, stopping,
                    producer, buffer, results, failed, excused>>
    BY <1>2 DEF vars, topic, loops, output
  <2>2. Typed
    BY Typing DEF IInv
  <2>3. Typed'
    BY <2>1, <2>2 DEF Typed, TopicTyped, PositionsTyped, OpenTyped, FlagsTyped, OutputTyped
  <2>4. TypeOK'
    BY <2>3, Typing, PTL
  <2>5. OneReader' /\ BatchesAreBounded' /\ Answered' = Answered
    BY <2>1 DEF IInv, OneReader, BatchesAreBounded, Answered
  <2>6. QED
    BY <2>1, <2>4, <2>5, OutputGrows DEF IInv
<1>3. QED
  BY <1>1, <1>2, ArriveKeeps, StartKeeps, StopConsumerKeeps, StopProducerKeeps, CrashKeeps,
     ConfirmKeeps DEF Next

(* In every reachable state one loop at most has an open consumer, results *)
(* are accepted while it has, and what it is done with was answered.       *)
THEOREM Invariant == Spec => []IInv
  BY Initially, Step, PTL DEF Spec

(* Every variable keeps its type: no position passes the end of the topic. *)
THEOREM TypeCorrect == Spec => []TypeOK
<1>1. IInv => TypeOK
  BY DEF IInv
<1>2. QED
  BY <1>1, Invariant, PTL

(* What the group will not read again was answered, over any number of     *)
(* crashes, stops and failing commits.                                     *)
THEOREM AnsweredBeforeCommit == Spec => []CommittedIsAnswered
<1>1. IInv => CommittedIsAnswered
  BY DEF IInv
<1>2. QED
  BY <1>1, Invariant, PTL

(* A loop that may still commit is never before the group's offset.        *)
THEOREM NoCommittedRepeat == Spec => []CommittedIsNotRepeated
<1>1. IInv => CommittedIsNotRepeated
  BY DEF IInv
<1>2. QED
  BY <1>1, Invariant, PTL

-----------------------------------------------------------------------------
(* The pipeline implements AtLeastOnce.                                    *)

(* Positions and offsets are within the topic.                             *)
WithinTopic ==
    /\ committed <= log /\ base <= log
    /\ \A k \in Loops : at[k] <= log /\ end[k] <= log

LEMMA TypedFacts ==
    ASSUME TypeOK
    PROVE  /\ log \in 0..MaxEvents /\ log \in Nat /\ MaxEvents \in Nat
           /\ committed \in Int /\ (committed = NoOffset \/ committed \in Nat)
           /\ base \in Nat /\ NoOffset = -1
           /\ \A k \in Loops : at[k] \in Nat /\ end[k] \in Nat
<1>1. Typed
  BY Typing
<1>2. QED
  BY <1>1, BoundsAssumption DEF Typed, TopicTyped, PositionsTyped, NoOffset

LEMMA WithinInit == Init => WithinTopic
  BY DEF Init, WithinTopic, NoOffset

LEMMA WithinNext == IInv /\ WithinTopic /\ [Next]_vars => WithinTopic'
<1> SUFFICES ASSUME IInv, WithinTopic, [Next]_vars PROVE WithinTopic'
  OBVIOUS
<1>1. /\ log \in Nat /\ base \in Nat /\ committed \in Int
      /\ \A k \in Loops : at[k] \in Nat /\ end[k] \in Nat
  BY TypedFacts DEF IInv
<1>2. at \in [Loops -> 0..MaxEvents] /\ end \in [Loops -> 0..MaxEvents]
  BY DEF IInv, TypeOK
<1>3. ASSUME UNCHANGED <<committed, base, at, end>>, log' = log \/ log' = log + 1
      PROVE  WithinTopic'
  BY <1>1, <1>3 DEF WithinTopic
<1>4. ASSUME NEW k \in Loops, Join(k)
      PROVE  WithinTopic'
  <2>1. PICK from \in {committed, log, 0} :
                    /\ at' = [at EXCEPT ![k] = from] /\ end' = [end EXCEPT ![k] = from]
                    /\ base' \in {base, from}
                    /\ UNCHANGED <<log, committed>>
    BY <1>4 DEF Join
  <2>2. from <= log
    BY <2>1, <1>1 DEF WithinTopic
  <2>3. QED
    BY <1>2, <2>1, <2>2 DEF WithinTopic
<1>5. ASSUME NEW k \in Loops, Poll(k)
      PROVE  WithinTopic'
  <2>1. PICK upto \in at[k]..log : end' = [end EXCEPT ![k] = upto]
    BY <1>5 DEF Poll
  <2>2. UNCHANGED <<log, committed, base, at>> /\ upto <= log
    BY <1>1, <1>5, <2>1 DEF Poll, topic
  <2>3. QED
    BY <1>2, <2>1, <2>2 DEF WithinTopic
<1>6. ASSUME NEW k \in Loops, Take(k) \/ HandlerSends(k) \/ HandlerRaises(k)
      PROVE  WithinTopic'
  <2>1. at[k] < end[k] /\ (at' = at \/ at' = [at EXCEPT ![k] = @ + 1])
        /\ UNCHANGED <<log, committed, base, end>>
    BY <1>6 DEF Take, HandlerSends, HandlerRaises, Handled, IInv, BatchesAreBounded, topic
  <2>2. at[k] + 1 <= log
    BY <1>1, <2>1 DEF WithinTopic
  <2>3. QED
    BY <1>2, <2>1, <2>2 DEF WithinTopic
<1>7. ASSUME NEW k \in Loops, Commit(k)
      PROVE  WithinTopic'
  BY <1>7 DEF Commit, Offset, WithinTopic
<1>8. ASSUME NEW k \in Loops, LoopEnds(k) \/ CommitFails(k)
      PROVE  WithinTopic'
  BY <1>3, <1>8 DEF LoopEnds, CommitFails, topic
<1>9. CASE Arrive \/ Start \/ StopConsumer \/ StopProducer \/ Crash
           \/ (\E e \in Events : Confirm(e)) \/ UNCHANGED vars
  BY <1>3, <1>9 DEF Arrive, Start, StopConsumer, StopProducer, Crash, Confirm, vars, topic, loops
<1>10. QED
  BY <1>4, <1>5, <1>6, <1>7, <1>8, <1>9 DEF Next, Loop

(* A handler answers its event, or sends to a closed producer in vain.     *)
LEMMA HandlerAnswers ==
    ASSUME IInv, WithinTopic, NEW k \in Loops, HandlerSends(k) \/ HandlerRaises(k),
           Current(k) \notin Unhandled
    PROVE  \E e \in 1..log : Stream!Answer(e)
<1>1. pc[k] = "handle" /\ UNCHANGED <<log, committed, base, results, excused>>
      /\ buffer' \in {buffer, buffer \cup {Current(k)}}
      /\ failed' \in {failed, failed \cup {Current(k)}}
  BY DEF HandlerSends, HandlerRaises, Sent, topic
<1>2. Current(k) \in 1..log
  BY <1>1, TypedFacts DEF IInv, BatchesAreBounded, WithinTopic, Current
<1>3. QED
  BY <1>1, <1>2 DEF Stream!Answer

(* The handler's event is one that needs an answer.                        *)
HandledNeedAnswers == \A k \in Loops : pc[k] = "handle" => Current(k) \notin Unhandled

LEMMA HandledInit == Init => HandledNeedAnswers
  BY DEF Init, HandledNeedAnswers

LEMMA HandledNext == IInv /\ HandledNeedAnswers /\ [Next]_vars => HandledNeedAnswers'
<1> SUFFICES ASSUME IInv, HandledNeedAnswers, [Next]_vars, NEW j \in Loops, pc'[j] = "handle"
             PROVE  Current(j)' \notin Unhandled
  BY DEF HandledNeedAnswers
<1>1. pc \in [Loops -> LoopState] /\ at \in [Loops -> 0..MaxEvents]
  BY DEF IInv, TypeOK
<1>2. ASSUME pc'[j] = pc[j], at'[j] = at[j]
      PROVE  Current(j)' \notin Unhandled
  BY <1>2 DEF HandledNeedAnswers, Current
<1>3. ASSUME NEW k \in Loops, Loop(k) \/ CommitFails(k)
      PROVE  Current(j)' \notin Unhandled
  <2>1. CASE j # k
    <3>1. \A i \in Loops \ {k} : pc'[i] = pc[i] /\ at'[i] = at[i]
      BY <1>1, <1>3 DEF Loop, Join, Poll, LoopEnds, Take, HandlerSends, HandlerRaises, Handled,
                        Commit, CommitFails
    <3>2. QED
      BY <1>2, <2>1, <3>1
  <2>2. CASE j = k
    <3>1. \/ Take(k) /\ Current(k) \notin Unhandled /\ UNCHANGED at
          \/ pc' = pc /\ at' = at
      BY <1>1, <1>3, <2>2 DEF Loop, Join, Poll, LoopEnds, Take, HandlerSends, HandlerRaises, Handled,
                        Commit, CommitFails
    <3>2. QED
      BY <1>2, <2>2, <3>1 DEF Current
  <2>3. QED
    BY <2>1, <2>2
<1>4. CASE Start \/ Crash
  <2>1. at' = at /\ (pc'[j] = pc[j] \/ pc'[j] \in {"join", "off"})
    BY <1>1, <1>4 DEF Start, Crash
  <2>2. QED
    BY <1>2, <2>1
<1>5. CASE Arrive \/ StopConsumer \/ StopProducer \/ (\E e \in Events : Confirm(e)) \/ UNCHANGED vars
  BY <1>2, <1>5 DEF Arrive, StopConsumer, StopProducer, Confirm, vars, loops
<1>6. QED
  BY <1>3, <1>4, <1>5 DEF Next

(* A commit advances the offset over events that were answered.            *)
LEMMA CommitAdvances ==
    ASSUME IInv, WithinTopic, NEW k \in Loops, Commit(k)
    PROVE  \E to \in 0..log : Stream!Advance(to)
<1>1. /\ pc[k] = "process" /\ at[k] = end[k] /\ open[k] /\ committed' = at[k]
      /\ UNCHANGED <<log, base, buffer, results, failed, excused>>
  BY DEF Commit, BatchDone, Offset, output
<1>2. at[k] \in 0..log
  BY TypedFacts DEF IInv, WithinTopic
<1>3. committed <= at[k]
  BY <1>1 DEF IInv, CommittedIsNotRepeated
<1>4. 1..log \subseteq Events
  BY TypedFacts DEF IInv, Events
<1>5. \A e \in 1..log \ Unhandled : base < e /\ e <= at[k] => e \in Stream!Answered
  BY <1>1, <1>4 DEF IInv, DoneIsAnswered, InBatch, Answered, Stream!Answered
<1>6. Stream!Advance(at[k])
  BY <1>1, <1>3, <1>5 DEF Stream!Advance, Stream!answers
<1>7. QED
  BY <1>2, <1>6

(* The first poll of a loop fixes where the group begins, if nothing does. *)
LEMMA JoinBegins ==
    ASSUME IInv, WithinTopic, NEW k \in Loops, Join(k)
    PROVE  Stream!Begin \/ UNCHANGED Stream!streamVars
<1>1. UNCHANGED <<log, committed, buffer, results, failed, excused>>
  BY DEF Join, output
<1>2. CASE committed # NoOffset
  <2>1. base' = base
    BY <1>2 DEF Join
  <2>2. QED
    BY <1>1, <2>1 DEF Stream!streamVars, Stream!answers
<1>3. CASE committed = NoOffset
  <2>1. base' \in {0, log}
    BY <1>3 DEF Join
  <2>2. base' \in 0..log /\ committed = -1
    BY <1>3, <2>1, TypedFacts DEF IInv
  <2>3. QED
    BY <1>1, <2>2 DEF Stream!Begin, Stream!answers
<1>4. QED
  BY <1>2, <1>3

(* The broker's answer: the result is published, or lost.                  *)
LEMMA ConfirmSettles ==
    ASSUME NEW e \in Events, Confirm(e)
    PROVE  Stream!Next
<1>1. /\ e \in buffer /\ buffer' = buffer \ {e}
      /\ \/ results' = results \cup {e} /\ UNCHANGED excused
         \/ excused' = excused \cup {e} /\ UNCHANGED results
      /\ UNCHANGED <<log, committed, base, failed>>
  BY DEF Confirm, topic
<1>2. Stream!Publish(e) \/ Stream!Lose({e})
  BY <1>1 DEF Stream!Publish, Stream!Lose
<1>3. {e} \in SUBSET buffer /\ e \in buffer
  BY <1>1
<1>4. QED
  BY <1>2, <1>3 DEF Stream!Next

LEMMA StreamInit == Init => Stream!Init
  BY DEF Init, NoOffset, Stream!Init

LEMMA StreamNext ==
    IInv /\ WithinTopic /\ HandledNeedAnswers /\ [Next]_vars
        => [Stream!Next]_(Stream!streamVars)
<1> SUFFICES ASSUME IInv, WithinTopic, HandledNeedAnswers, [Next]_vars
             PROVE  Stream!Next \/ UNCHANGED Stream!streamVars
  OBVIOUS
<1>1. ASSUME UNCHANGED <<topic, output>>
      PROVE  UNCHANGED Stream!streamVars
  BY <1>1 DEF topic, output, Stream!streamVars, Stream!answers
<1>2. CASE Start \/ StopConsumer \/ StopProducer \/ UNCHANGED vars
  BY <1>1, <1>2 DEF Start, StopConsumer, StopProducer, vars
<1>3. ASSUME NEW k \in Loops, Poll(k) \/ LoopEnds(k) \/ CommitFails(k) \/ Take(k)
      PROVE  UNCHANGED Stream!streamVars
  BY <1>1, <1>3 DEF Poll, LoopEnds, CommitFails, Take
<1>4. ASSUME NEW k \in Loops, Join(k)
      PROVE  Stream!Next \/ UNCHANGED Stream!streamVars
  BY <1>4, JoinBegins DEF Stream!Next
<1>5. ASSUME NEW k \in Loops, HandlerSends(k) \/ HandlerRaises(k)
      PROVE  Stream!Next
  <2>1. Current(k) \notin Unhandled
    BY <1>5 DEF HandledNeedAnswers, HandlerSends, HandlerRaises
  <2>2. QED
    BY <1>5, <2>1, HandlerAnswers DEF Stream!Next
<1>6. ASSUME NEW k \in Loops, Commit(k)
      PROVE  Stream!Next
  BY <1>6, CommitAdvances DEF Stream!Next
<1>7. CASE Arrive
  BY <1>7 DEF Arrive, output, Stream!Next, Stream!Arrive, Stream!answers
<1>8. CASE Crash
  <2>1. Stream!Lose(buffer)
    BY <1>8 DEF Crash, topic, Stream!Lose
  <2>2. buffer \in SUBSET buffer
    OBVIOUS
  <2>3. QED
    BY <2>1, <2>2 DEF Stream!Next
<1>9. ASSUME NEW e \in Events, Confirm(e)
      PROVE  Stream!Next
  BY <1>9, ConfirmSettles
<1>10. CASE Next
  BY <1>2, <1>3, <1>4, <1>5, <1>6, <1>7, <1>8, <1>9, <1>10 DEF Next, Loop
<1>11. QED
  BY <1>2, <1>10

(* For any number of events, starts and events of a poll, and under both   *)
(* reset policies, the pipeline implements AtLeastOnce: whatever stops,    *)
(* restarts, crashes and refused commits do, the group's offset only goes  *)
(* forward and only over events that were answered, and an answer is lost  *)
(* only before the broker confirmed it (pipeline.py:138-176,               *)
(* consumer.py:189-227).                                                   *)
THEOREM PipelineImplementsAtLeastOnce == Spec => ImplementsAtLeastOnce
<1>1. Spec => [](WithinTopic /\ HandledNeedAnswers)
  BY WithinInit, WithinNext, HandledInit, HandledNext, Invariant, PTL DEF Spec
<1>2. QED
  BY StreamInit, StreamNext, Invariant, <1>1, PTL DEF Spec, ImplementsAtLeastOnce, Stream!Spec

(* No position of a loop and no offset of the group passes the end of the  *)
(* topic: what a commit covers has arrived (consumer.py:192-219).          *)
THEOREM PositionsAreWithinTopic == Spec => []WithinTopic
  BY WithinInit, WithinNext, Invariant, PTL DEF Spec
=============================================================================
