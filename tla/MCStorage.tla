---- MODULE MCStorage ----
EXTENDS MessageBrain
====
