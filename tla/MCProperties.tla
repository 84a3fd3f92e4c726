---------------------------- MODULE MCProperties ----------------------------
(* Small instances of Properties for TLC. *)
EXTENDS Properties

\* A list with an invalid speed first and two that are one hundredth apart or
\* less, and one with a speed that is published as 0 and is the slowest.
Lists == {<< <<0, 1>>, <<1, 3>>, <<33, 100>>, <<1, 1>> >>,
          << <<1, 0>>, <<2, 1>>, <<-1, 2>> >>}

\* A full event, as renderers send it after a subscription, and events for
\* each part of it.
NoChange == [actions |-> {}, speed |-> {}, state |-> {}, title |-> {},
             url |-> {}, parses |-> TRUE]

Reports == {
    [actions |-> {{"Play"}}, speed |-> {<<1, 3>>}, state |-> {"Stopped"},
     title |-> {"t1"}, url |-> {"t1"}, parses |-> TRUE],
    [NoChange EXCEPT !.actions = {{}}],
    [NoChange EXCEPT !.speed = {<<-1, 2>>}, !.state = {"Playing"}],
    [NoChange EXCEPT !.speed = {<<1, 0>>}],
    [NoChange EXCEPT !.url = {"t2"}],
    [NoChange EXCEPT !.state = {"Playing"}, !.title = {"t2"}, !.url = {"t2"},
                     !.parses = FALSE]}

\* One hundredth more than the two speeds next to each other of one list, and
\* the slowest of the other.
Rates == {34, -50}

=============================================================================
