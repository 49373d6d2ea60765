--------------------------- MODULE MCSelectServer ---------------------------
(* Values of the constants of SelectServer for the model checker. *)
EXTENDS SelectServerProperties, TLC

CONSTANTS a, b, c, t

Never(flags) == [flags |-> flags, timeout |-> INF]
In(flags, n) == [flags |-> flags, timeout |-> n]

\* Sockets that only wait for events.
EventRegistrations == {Never({"read", "error"}), Never({"write"})}
EventSettings == {Never({}), Never({"read", "error"}), Never({"read", "write"})}

\* Sockets with and without a timer, some with a timer alone.
TimerRegistrations == {In({"read"}, 2), In({}, 1)}
TimerSettings == {Never({}), In({}, 1)}

\* Every socket waits for reads, with or without a timer.
ReadRegistrations == {In({"read"}, 1), Never({"read"})}
ReadSettings == {Never({}), In({"read"}, 1)}

\* Sockets that wait for events, with few kinds of interest.
FewRegistrations == {Never({"read"})}
FewSettings == {Never({}), Never({"read", "error"})}

\* Timers alone.
LoneTimer == {In({}, 1)}

Symmetric == Permutations(Sockets)
=============================================================================
