---------------------------- MODULE MCSharedMailbox ----------------------------
EXTENDS SharedMailbox, TLC

(* One that reads the message and one that throws it away.                 *)
MCChange == {[is_read |-> "yes"], [folder |-> "trash"]}

(* People and requests are alike.                                          *)
Alike == {p @@ q : p \in Permutations(User), q \in Permutations(Request)}
=============================================================================
