--------------------------- MODULE MCChatDelivery ---------------------------
(* Model-checking instance of ChatDelivery: a message edited twice, the       *)
(* first edit with part of the content and a later time than the second (the  *)
(* clocks that stamp them differ); and a message edited and removed.          *)
EXTENDS ChatDelivery

CONSTANTS m1, loop, listener

Event(kind, m, at, fields) ==
    [kind |-> kind, message |-> m, at |-> at, fields |-> fields]

Corrections == <<Event("create", m1, 0, {}),
                 Event("edit", m1, 2, {"text"}),
                 Event("edit", m1, 1, Field)>>
Removal == <<Event("create", m1, 0, {}),
             Event("edit", m1, 1, Field),
             Event("delete", m1, 0, {})>>
EitherStream == {Corrections, Removal}

=============================================================================
