---------------------------- MODULE CommandFifo ----------------------------
(***************************************************************************)
(* What a connection promises: the commands a client sends are executed    *)
(* one at a time, in the order they were sent, each at most once.  A       *)
(* command is a record whose content does not matter here.                 *)
(***************************************************************************)
EXTENDS Integers, Sequences

CONSTANT Commands   \* what a client can send

VARIABLES
    sent,      \* the commands sent so far
    executed   \* the positions in sent of the commands executed so far

Init == sent = <<>> /\ executed = <<>>

Send ==
    /\ sent' \in Seq(Commands) /\ Len(sent') = Len(sent) + 1
    /\ \A i \in 1 .. Len(sent) : sent'[i] = sent[i]
    /\ UNCHANGED executed

Execute ==
    /\ Len(executed) < Len(sent)
    /\ executed' = Append(executed, Len(executed) + 1)
    /\ UNCHANGED sent

Next == Send \/ Execute

Spec == Init /\ [][Next]_<<sent, executed>>
=============================================================================
