------------------------------- MODULE MCGame -------------------------------
EXTENDS Game
=============================================================================
