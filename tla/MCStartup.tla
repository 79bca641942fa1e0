------------------------------ MODULE MCStartup ------------------------------
(* Instances of Startup for TLC: a trip, a profile, and a document that no    *)
(* table accepts.                                                             *)
EXTENDS Startup

MCCollectionOf == [d \in Docs |-> IF d = "t1" THEN "trips" ELSE "users"]
MCCopied == SelectSeq(<<"trips", "users">>, LAMBDA c : c \in Collections)
=============================================================================
