----------------------------- MODULE MCLifecycle -----------------------------
(* Small instances of Lifecycle for TLC. *)
EXTENDS Lifecycle

CONSTANT c1

File(quit, type, level) ==
    [neverQuit |-> quit, logType |-> type, logLevel |-> level]

\* Files that ask for levels that are not compiled in, so that nothing is
\* logged, on syslog; for nothing, so that all keys have their defaults; and for
\* levels by a list that an invalid value and two single ones interrupt, with a
\* type that the code does not know.
Files == {File({FALSE}, {0}, {<<4, 6>>}),
          File({}, {}, {}),
          File({TRUE}, {2}, {<<3, 9, 7, 0, 3>>})}

=============================================================================
