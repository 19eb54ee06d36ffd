---- MODULE MCAtSerial ----
\* AtSerial with the constants of its configurations.
EXTENDS AtSerial
====
