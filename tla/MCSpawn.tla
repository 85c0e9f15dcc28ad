------------------------------- MODULE MCSpawn -------------------------------
(* Small instances of Spawn. *)
EXTENDS Spawn

\* Every way to connect the three streams.
AllRedirections == [Streams -> {"inherit", "pipe", "file"}]

\* Parents with their streams open, one with another descriptor, and limits from
\* too few for a single pipe to enough for all.
SomeLimits == {4, 6, 8, 9, 10, 12}
WithStreams == {{0, 1, 2}, {0, 1, 2, 4}}

\* Parents some of whose streams are closed, as a daemon's may be.
WithoutSomeStream == (SUBSET Streams) \ {Streams}
=============================================================================
