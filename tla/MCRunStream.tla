---- MODULE MCRunStream ----
EXTENDS RunStream
====
