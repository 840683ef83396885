---- MODULE MCRCConnection ----
EXTENDS RCConnection, TLC
====
