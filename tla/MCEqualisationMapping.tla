------------------------ MODULE MCEqualisationMapping ------------------------
EXTENDS EqualisationMapping
=============================================================================
