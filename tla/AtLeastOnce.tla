----------------------------- MODULE AtLeastOnce -----------------------------
(***************************************************************************)
(* What the risk pipeline promises about its topic, with no threads,       *)
(* batches, consumers or producers: the group's offset only goes forward,  *)
(* over events that were answered since the position the group began at;   *)
(* an event is answered only once it is there; a published or reported     *)
(* answer is never taken back, and one is lost only while the broker has   *)
(* not confirmed it.                                                       *)
(***************************************************************************)
EXTENDS Integers

CONSTANT Unhandled  \* events that need no answer

VARIABLES
    log,        \* events in the topic: 1..log
    offset,     \* the group's offset, -1 when it has none
    origin,     \* where the group began when it had none
    pending,    \* answers given and not confirmed
    published,  \* answers in the results topic
    reported,   \* events whose analysis failed, and that was reported
    lost        \* answers a crash or the broker took

answers == <<pending, published, reported, lost>>
streamVars == <<log, offset, origin, answers>>

Answered == pending \cup published \cup reported \cup lost

Init ==
    /\ log = 0 /\ offset = -1 /\ origin = 0
    /\ pending = {} /\ published = {} /\ reported = {} /\ lost = {}

Arrive == log' = log + 1 /\ UNCHANGED <<offset, origin, answers>>

\* Without an offset the group begins anywhere
Begin ==
    /\ offset = -1
    /\ origin' \in 0..log
    /\ UNCHANGED <<log, offset, answers>>

\* Once or several times, at any time after it arrived
Answer(e) ==
    /\ e \in 1..log \ Unhandled
    /\ pending' \in {pending, pending \cup {e}}
    /\ reported' \in {reported, reported \cup {e}}
    /\ UNCHANGED <<log, offset, origin, published, lost>>

Publish(e) ==
    /\ e \in pending
    /\ pending' = pending \ {e}
    /\ published' = published \cup {e}
    /\ UNCHANGED <<log, offset, origin, reported, lost>>

Lose(some) ==
    /\ some \subseteq pending
    /\ pending' = pending \ some
    /\ lost' = lost \cup some
    /\ UNCHANGED <<log, offset, origin, published, reported>>

Advance(to) ==
    /\ offset <= to
    /\ \A e \in 1..log \ Unhandled : origin < e /\ e <= to => e \in Answered
    /\ offset' = to
    /\ UNCHANGED <<log, origin, answers>>

Next ==
    \/ Arrive \/ Begin
    \/ \E e \in 1..log : Answer(e)
    \/ \E e \in pending : Publish(e)
    \/ \E some \in SUBSET pending : Lose(some)
    \/ \E to \in 0..log : Advance(to)

Spec == Init /\ [][Next]_streamVars
=============================================================================
