----------------------------- MODULE MCEditors ------------------------------
EXTENDS Editors

CONSTANTS a, b
=============================================================================
