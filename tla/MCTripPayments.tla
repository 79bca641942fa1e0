--------------------------- MODULE MCTripPayments ---------------------------
(* Instances of TripPayments for TLC. *)
EXTENDS TripPayments, TLC

MCSeatsOf == [r \in Regs |-> 2]

\* A trip with a price, and one with nothing to pay online.
MCQuotes == {[price |-> 1, advance |-> 0, online |-> TRUE],
             [price |-> 0, advance |-> 0, online |-> TRUE]}

\* A trip with an advance below its price, whose online payment staff switch off.
MCAdvanceQuotes == {[price |-> 2, advance |-> 1, online |-> TRUE],
                    [price |-> 2, advance |-> 1, online |-> FALSE]}

\* A single price, that never changes.
MCOneQuote == {[price |-> 1, advance |-> 0, online |-> TRUE]}

\* A bound: calls fail, or there is a donation; both together are in MCTripCapacity.
FailedOrDonated ==
    \/ faults = 0
    \/ /\ \A h \in Reqs : req[h].for # Donation
       /\ \A o \in Orders : ord[o].for # Donation

Interchangeable ==
    Permutations(Orders) \cup Permutations(Attempts) \cup Permutations(Reqs)
=============================================================================
