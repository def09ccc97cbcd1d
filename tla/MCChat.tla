------------------------------- MODULE MCChat -------------------------------
EXTENDS Chat
LinesHere == <<2, 2>>
OneLine == <<1, 1>>
=============================================================================
