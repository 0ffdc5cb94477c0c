----------------------- MODULE MCProviderConnections -----------------------
(* Model-checking instances of ProviderConnections: two gateway processes     *)
(* that compete for one Discord connection, and one process with two          *)
(* connections of which one is not Discord's.                                 *)
EXTENDS ProviderConnections

CONSTANTS p1, p2, discord, twitch

NeverPut == [desired |-> FALSE, state |-> "stopped", waiting |-> FALSE,
             owner |-> NoProcess, expired |-> FALSE]

\* One run for both: while either leaves a trace, the other is not begun.
NoSecondProcess == pc[p2] = "down" /\ row[discord].owner # p2
NoSecondConnection ==
    /\ row[twitch] = NeverPut
    /\ \A s \in Socket : socket[s].connection # twitch
    /\ twitch \notin recovering[p1] \cup todo[p1] \cup {current[p1]}

Apart == NoSecondProcess \/ NoSecondConnection

MCSpec == Init /\ [][Next /\ Apart']_vars /\ Fairness

=============================================================================
