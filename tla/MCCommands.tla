----------------------------- MODULE MCCommands -----------------------------
(* Small instances of Commands for TLC. *)
EXTENDS Commands, TLC

Same == Permutations(Clients)

Asks(ops) == {[op |-> op] : op \in ops}
With(op, args) == {[op |-> op, arg |-> a] : a \in args}

\* Three sessions: about the volume, with doubles in and out of [0, 1] and one
\* that is none; about the position, across minutes, hours, 2^32 seconds and 0;
\* about what is played.
SessionSet == {
    With("SetVolume", {16, -3, NotADouble})
        \cup Asks({"SameVolume", "GetOther"}),
    With("SetPosition", {59 * Second, 3661 * Second + 5, (Word + 2) * Second})
        \cup With("Seek", {-5 * Second})
        \cup Asks({"GetPosition", "GotoTrack"}),
    Asks({"Play", "Pause", "PlayPause", "Stop", "OpenUri"})}

=============================================================================
