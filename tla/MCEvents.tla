------------------------------ MODULE MCEvents ------------------------------
(* An instance of EventMechanisms for TLC. *)
EXTENDS EventMechanisms, TLC

Pd == {[fd |-> 1, events |-> {"in"}], [fd |-> 1, events |-> {"in", "out"}],
       [fd |-> 2, events |-> {"in"}]}

SomePollsets == [1..1 -> Pd] \cup [1..2 -> Pd]

SomeConditions ==
  SUBSET {<<1, "in">>, <<1, "out">>, <<1, "err">>, <<2, "in">>, <<2, "nval">>}

SomeRefusals == {{}, {2}}

PollsetsOfForked == [1..1 -> [fd : ForkFds, events : {{"in"}, {"in", "out"}}]]

ConditionsOfForked == SUBSET (ForkFds \X {"in", "out"})

EventSymmetry == Permutations(Pollers)
=============================================================================
