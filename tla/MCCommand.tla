----------------------------- MODULE MCCommand ------------------------------
(* Values for the constants of Command.                                    *)
EXTENDS Command

SomeCommands == {[sequence |-> 1, type |-> "TIME", time |-> 20],
                [sequence |-> 1, type |-> "TEST", time |-> 0],
                [sequence |-> 2, type |-> "TIME", time |-> 9]}
=============================================================================
