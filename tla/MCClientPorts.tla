---- MODULE MCClientPorts ----
\* ClientPorts with the constants of its configurations.
EXTENDS ClientPorts
====
