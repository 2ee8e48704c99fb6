------------------------------ MODULE MCPubSub ------------------------------
(* PubSub with two links and three pipes for the publishers. *)
EXTENDS PubSub, TLC

CONSTANTS a, b, p1, p2, p3

XPub == [topo |-> "fanout", radio |-> FALSE, pub |-> FALSE, filter |-> FALSE,
         verbose |-> FALSE, lossy |-> TRUE, manual |-> FALSE, invert |-> FALSE,
         welcome |-> FALSE, maxsub |-> 2, maxsend |-> 0, maxbreak |-> 1]
Pub == [XPub EXCEPT !.pub = TRUE, !.filter = TRUE, !.maxsub = 1, !.maxsend = 2]
Pub2 == [Pub EXCEPT !.maxsub = 2, !.maxbreak = 0]
FanIn == [Pub EXCEPT !.topo = "fanin", !.maxsub = 1, !.maxsend = 2, !.maxbreak = 0]
Inverted == [Pub EXCEPT !.invert = TRUE, !.maxsub = 1, !.maxbreak = 0]
Verbose == [XPub EXCEPT !.verbose = TRUE, !.welcome = TRUE, !.filter = TRUE, !.maxsub = 1]
NoDrop == [XPub EXCEPT !.lossy = FALSE, !.filter = TRUE, !.maxsub = 1, !.maxsend = 2, !.maxbreak = 0]
InvertedNoDrop == [NoDrop EXCEPT !.invert = TRUE]
Manual == [XPub EXCEPT !.manual = TRUE, !.maxsub = 1, !.maxsend = 1, !.filter = TRUE, !.maxbreak = 0]
Radio == [Pub EXCEPT !.radio = TRUE, !.maxsub = 2, !.maxbreak = 0]

AllCases == {XPub, Pub, Pub2, FanIn, Inverted, Verbose, NoDrop, InvertedNoDrop, Manual, Radio}

TwoPrefixes == {"", "A"}
TwoTopics == {"A", "B"}
Begins == {<<"", "">>, <<"", "A">>, <<"", "B">>, <<"A", "A">>}
=============================================================================
