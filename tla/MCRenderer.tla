----------------------------- MODULE MCRenderer -----------------------------
(* Small instances of Renderer for TLC. *)
EXTENDS Renderer

\* All the services a renderer may have.
AllServices == {"cm", "av", "rc"}

============================================================================
