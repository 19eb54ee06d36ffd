---- MODULE MCSettings ----
\* Settings with the constants of its configurations.
EXTENDS Settings
====
