----------------------------- MODULE MCEntries -----------------------------
(***************************************************************************)
(* Instances of Entries for TLC: what may be stored at first.  A master    *)
(* behind an entry, with an inbound through it; a master behind a          *)
(* subscription; and two masters of one box with a backup of another,      *)
(* which has a disabled subscription.                                      *)
(***************************************************************************)
EXTENDS Entries, TLC

Plain(n) == [name |-> n, dialer |-> {}, kind |-> "tunnel", mux |-> FALSE]
Master(n, d) == [Plain(n) EXCEPT !.dialer = d]
Subs(on) == {[name |-> 1, enabled |-> on]}
Box(rows, ins, b) == [entries |-> rows, inbounds |-> ins, subs |-> Subs(TRUE), backup |-> b]

MCBackup == [ins |-> 1 :> <<"xray", 2>>, rows |-> {Master(2, {SubRef(1)})}, subs |-> Subs(FALSE)]

MCStores ==
  { Box(<<Plain(1), Master(2, {XrayRef(1)})>>, 1 :> <<"master", 2>>, NoBackup),
    Box(<<Master(1, {SubRef(1)}), Plain(2)>>, <<>>, NoBackup),
    Box(<<Master(1, {SubRef(1)}), Master(3, {XrayRef(1)})>>, 1 :> <<"master", 3>>, MCBackup) }
=============================================================================
