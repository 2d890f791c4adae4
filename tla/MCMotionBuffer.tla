--------------------------- MODULE MCMotionBuffer ---------------------------
EXTENDS MotionBuffer

MCAxisCounts == {2, 4}
MCCommands   == {<<0, 3, 0, 0>>, <<1, -1, 0, 0>>}
=============================================================================
