---------------------------- MODULE MCRestServer ----------------------------
\* A small instance of the REST server.
EXTENDS RestServer

CONSTANTS g1

MCBoot == <<g1>>
=============================================================================
