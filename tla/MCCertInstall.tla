---- MODULE MCCertInstall ----
\* CertInstall with the constants of its configurations.
EXTENDS CertInstall
====
