-------------------------- MODULE OwnershipContract --------------------------
(***************************************************************************)
(* What the provider promises about ownership, whatever fails and however  *)
(* calls interleave: a record is only ever created, changed or deleted     *)
(* while its ownership marker is in the zone, and a record that never had  *)
(* a marker is left alone.                                                 *)
(***************************************************************************)
CONSTANT Owned      \* the DNS identities of the zone

VARIABLE st         \* what the zone holds of each identity

States == {"absent", "marked", "live", "foreign"}

\* The marker comes before the record and goes after it.
Moves == {<<"absent", "marked">>, <<"marked", "absent">>,
          <<"marked", "live">>, <<"live", "marked">>}

Init == st \in [Owned -> States]

Move(p) ==
    \E s \in States :
        /\ <<st[p], s>> \in Moves
        /\ st' = [st EXCEPT ![p] = s]

Next == \E p \in Owned : Move(p)

Spec == Init /\ [][Next]_st
==============================================================================
