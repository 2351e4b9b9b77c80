-------------------------- MODULE MCMessageBuffer --------------------------
EXTENDS MessageBuffer
=============================================================================
