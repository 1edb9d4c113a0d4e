------------------------------- MODULE CspLine -------------------------------
(* What a line between two points promises: it delivers some of what was sent *)
(* over it, in the order it was sent, each at most once, and nothing else.    *)
EXTENDS Naturals, Sequences

CONSTANTS Message, Nothing

VARIABLES sent,     \* on the way
          event     \* what this step took from the sender or gave to the receiver

vars == <<sent, event>>

Init == sent = <<>> /\ event = Nothing

Send(m) == /\ event' = [op |-> "send", what |-> m]
           /\ sent' \in {Append(sent, m), sent}

Deliver == \E k \in DOMAIN sent :
              /\ event' = [op |-> "deliver", what |-> sent[k]]
              /\ sent' = SubSeq(sent, k + 1, Len(sent))

Lose == \E k \in DOMAIN sent :
           /\ event' = Nothing
           /\ sent' = SubSeq(sent, 1, k - 1) \o SubSeq(sent, k + 1, Len(sent))

Quiet == event' = Nothing /\ UNCHANGED sent

Next == (\E m \in Message : Send(m)) \/ Deliver \/ Lose \/ Quiet

Spec == Init /\ [][Next]_vars
==============================================================================
