---------------------------- MODULE MCBootstrap ----------------------------
\* Bootstrap, whose constants the configuration gives.
EXTENDS Bootstrap
=============================================================================
