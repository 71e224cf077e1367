---------------------------- MODULE MCDiffParser ----------------------------
EXTENDS DiffParser
CONSTANTS a, b
=============================================================================
