------------------------------ MODULE MCClient -------------------------------
\* Five sprites, and capacities that are too small twice, too small, and what main asks for.
EXTENDS Client

MCCapacities == {1, 2, SpriteCount + 1}
==============================================================================
