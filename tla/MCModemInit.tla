---- MODULE MCModemInit ----
\* ModemInit with the constants of its configurations.
EXTENDS ModemInit
====
