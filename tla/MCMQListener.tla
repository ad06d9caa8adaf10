---------------------------- MODULE MCMQListener ----------------------------
EXTENDS MQListener
CONSTANTS r1, r2, m1, m2

\* A Listener with a recorder beside one without, and each beside a reader.
Pairs ==
    {k \in [Receivers -> {"recording", "plain", "reader"}] :
        /\ k[r1] # "reader"
        /\ k[r2] # "recording"
        /\ k[r1] # k[r2]}
=============================================================================
