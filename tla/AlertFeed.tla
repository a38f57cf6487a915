------------------------------ MODULE AlertFeed ------------------------------
(***************************************************************************)
(* What the loader's alert stream promises a subscriber, whatever channels *)
(* and locks are behind it: alerts are published one after the other, and  *)
(* a subscriber sees some of those published since it subscribed, each at  *)
(* most once and in order.  A slow subscriber may miss alerts; it never    *)
(* sees an old, repeated or reordered one.                                 *)
(***************************************************************************)
EXTENDS Integers, Sequences

CONSTANT Subscribers

VARIABLES
    published,     \* alerts published so far; they are numbered from 1
    phase,         \* "off", "on" or "closed", for each subscriber
    from,          \* published when the subscriber was switched on
    seen           \* the alerts it has been shown

feedVars == <<published, phase, from, seen>>

Init ==
    /\ published = 0
    /\ phase = [s \in Subscribers |-> "off"]
    /\ from = [s \in Subscribers |-> 0]
    /\ seen = [s \in Subscribers |-> << >>]

Publish ==
    /\ published' = published + 1
    /\ UNCHANGED <<phase, from, seen>>

Subscribe(s) ==
    /\ phase[s] = "off"
    /\ phase' = [phase EXCEPT ![s] = "on"]
    /\ from' = [from EXCEPT ![s] = published]
    /\ UNCHANGED <<published, seen>>

\* Show s a published alert later than any it has been shown.
Show(s) ==
    /\ phase[s] = "on"
    /\ \E id \in (from[s] + 1)..published :
          /\ \A i \in DOMAIN seen[s] : seen[s][i] < id
          /\ seen' = [seen EXCEPT ![s] = Append(@, id)]
    /\ UNCHANGED <<published, phase, from>>

Close(s) ==
    /\ phase[s] = "on"
    /\ phase' = [phase EXCEPT ![s] = "closed"]
    /\ UNCHANGED <<published, from, seen>>

Next ==
    \/ Publish
    \/ \E s \in Subscribers : Subscribe(s) \/ Show(s) \/ Close(s)

Spec == Init /\ [][Next]_feedVars
=============================================================================
