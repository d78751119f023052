------------------------------ MODULE MCSendRecv ------------------------------
(* Two processes that talk over two channels, one in each direction; and    *)
(* four processes in two independent pairs, as in the send_recv test.        *)
EXTENDS SendRecv

CONSTANTS p1, p2, p3, p4, c1, c2

MCChannel == {c1, c2}

DuplexProcess == {p1, p2}
DuplexSender == [c \in MCChannel |-> IF c = c1 THEN p1 ELSE p2]
DuplexReceiver == [c \in MCChannel |-> IF c = c1 THEN p2 ELSE p1]

PairsProcess == {p1, p2, p3, p4}
PairsSender == [c \in MCChannel |-> IF c = c1 THEN p1 ELSE p3]
PairsReceiver == [c \in MCChannel |-> IF c = c1 THEN p2 ELSE p4]

MCPayload == {<<"a">>, <<"b">>}
OnePayload == {<<"a">>}
=============================================================================
