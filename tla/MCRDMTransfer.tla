---- MODULE MCRDMTransfer ----
EXTENDS RDMTransfer, TLC
MCSliceSizes == <<1, 2>>
====
