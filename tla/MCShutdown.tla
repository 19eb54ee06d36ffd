---- MODULE MCShutdown ----
\* Shutdown with the constants of its configurations.
EXTENDS Shutdown
====
