---------------------------- MODULE MCDispatcher ----------------------------
(* One method that gets registered and one that may; an element of each kind. *)
EXTENDS Dispatcher

CONSTANTS c1, echo, extra, one, two

MCMethods == {echo, extra}

MCIds == {one, two}

\* Calls of both methods, a notification, params that are a list, an envelope
\* that is refused, with an id that can be repeated and with one that cannot.
MCRequests ==
    {[id |-> one, valid |-> TRUE, method |-> echo, object |-> TRUE],
     [id |-> two, valid |-> TRUE, method |-> extra, object |-> TRUE],
     [id |-> None, valid |-> TRUE, method |-> echo, object |-> TRUE],
     [id |-> two, valid |-> TRUE, method |-> echo, object |-> FALSE],
     [id |-> None, valid |-> FALSE, method |-> echo, object |-> TRUE],
     [id |-> Unfit, valid |-> FALSE, method |-> echo, object |-> TRUE]}
=============================================================================
