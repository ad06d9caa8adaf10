--------------------------- MODULE MCMQPublisher ---------------------------
EXTENDS MQPublisher
CONSTANTS g1, g2, k1, k2
=============================================================================
