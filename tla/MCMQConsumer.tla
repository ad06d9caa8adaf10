---------------------------- MODULE MCMQConsumer ----------------------------
EXTENDS MQConsumer
CONSTANTS r1, r2, m1, m2
=============================================================================
