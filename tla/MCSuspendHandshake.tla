---- MODULE MCSuspendHandshake ----
\* SuspendHandshake with the constants of its configurations.
EXTENDS SuspendHandshake
====
