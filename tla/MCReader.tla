---- MODULE MCReader ----
EXTENDS PartitionReader
====
