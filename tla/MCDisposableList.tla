---------------------------- MODULE MCDisposableList ----------------------------
(* A small instance of DisposableList for TLC. *)
EXTENDS DisposableList

CONSTANTS r1, r2

MCLists == {{"old.example", "kept.example"}, {"new.example", "kept.example"}}
MCExtra == {"own.example"}

=============================================================================
