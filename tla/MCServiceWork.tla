---- MODULE MCServiceWork ----
\* An instance of ServiceWork for TLC: one unit of work.
EXTENDS ServiceWork
CONSTANT u1
====
