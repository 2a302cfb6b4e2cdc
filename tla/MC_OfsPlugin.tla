------------------------------ MODULE MC_OfsPlugin ------------------------------
EXTENDS OfsPlugin

CONSTANTS f1, f2, e1, e2

=============================================================================
