------------------------------- MODULE MCGoose -------------------------------
EXTENDS GooseBus, TLC
CONSTANTS A, S

comm(a, d) == [app |-> a, dst |-> d, vlan |-> IF a = 1 THEN NoVlan ELSE 5]
MCConfig == [p \in Publishers |->
    IF p = A THEN [ref |-> "g", sim |-> FALSE, comm |-> comm(1, "m1"), ed21 |-> FALSE, min |-> 0, max |-> 2, addressed |-> TRUE]
    ELSE [ref |-> "g", sim |-> TRUE, comm |-> comm(2, "m1"), ed21 |-> FALSE, min |-> 2, max |-> 2, addressed |-> FALSE]]
sub(ref, app, dst, sim, max) == [ref |-> ref, app |-> app, dst |-> dst, sim |-> sim, max |-> max]
follower == sub("g", 1, "m1", "nonSimulated", 1)
observer == sub(Unset, Unset, Unset, "any", 1)
both == sub("g", Unset, Unset, "any", 2)
MCConfs == {follower, observer}
scen(pubs, subs, loss, dup, change, write, tick, admin) ==
  [pubs |-> pubs, subs |-> subs, loss |-> loss, dup |-> dup, change |-> change, write |-> write, tick |-> tick, admin |-> admin]
MCScenarios ==
  {scen({A}, << follower >>, 1, 1, 1, 1, Unset, 0),
   scen({A}, << follower >>, 0, 0, 1, 2, Unset, 0),
   scen({A}, << follower >>, 1, 0, 0, 4, 2, 0),
   scen({S}, << both >>, 1, 0, 0, 0, Unset, 1),
   scen({A, S}, << both, observer >>, 0, 1, 1, 1, 1, 0),
   scen({A}, << follower >>, 0, 0, 0, 1, 0, 3)}
=============================================================================
