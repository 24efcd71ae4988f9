--------------------------- MODULE MCPreviewSessions ---------------------------
EXTENDS PreviewSessions

Calm     == [cap |-> 2, ports |-> 2, deaths |-> 0, snags |-> 0, squats |-> 0, hasty |-> 0,
             clients |-> FALSE]
Crowded  == [Calm EXCEPT !.cap = 1, !.snags = 1, !.clients = TRUE]
Squatted == [Calm EXCEPT !.snags = 1, !.squats = 1]
Troubled == [Calm EXCEPT !.cap = 1, !.snags = 2, !.squats = 1]
Hurried  == [Calm EXCEPT !.snags = 1, !.hasty = 1]
Pressed  == [Calm EXCEPT !.cap = 1, !.squats = 1, !.hasty = 1]
Deadly   == [Calm EXCEPT !.deaths = 1, !.clients = TRUE]
Scarce   == [Calm EXCEPT !.ports = 1, !.deaths = 2, !.clients = TRUE]

MCSettings == {Crowded, Squatted, Troubled, Hurried, Pressed, Deadly, Scarce}
=============================================================================
