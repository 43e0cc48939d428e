---------------------------- MODULE MCOdasBridge ----------------------------
EXTENDS OdasBridge
MCItems == Messages
=============================================================================
