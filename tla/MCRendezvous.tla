----------------------------- MODULE MCRendezvous -----------------------------
(* Small instances of Rendezvous: overlapping groups of three processes.    *)
EXTENDS Rendezvous

CONSTANTS p1, p2, p3, kAll, kPair, kOne

MCProcess == {p1, p2, p3}
MCKey == {kAll, kPair, kOne}
MCGroup == [k \in MCKey |->
              CASE k = kAll -> {p1, p2, p3}
                [] k = kPair -> {p1, p2}
                [] k = kOne -> {p3}]

\* Two processes and the one key they share.
PairProcess == {p1, p2}
PairKey == {kPair}
PairGroup == [k \in PairKey |-> {p1, p2}]

\* Different contributions, and two different operand counts.
MCOperands == {<<"a">>, <<"b">>, <<"a", "b">>}
SameCountOperands == {<<"a">>, <<"b">>}
=============================================================================
