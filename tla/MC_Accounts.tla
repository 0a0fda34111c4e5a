---------------------------- MODULE MC_Accounts ----------------------------
(***************************************************************************)
(* Two clients of one account that has room for one character: one wants   *)
(* two, the other one of the same, or with another password.               *)
(***************************************************************************)
EXTENDS Accounts

CONSTANTS k1, k2, ann, secret, guess, aria, brom, city

Wants(user, password, name, race, class) ==
    [user |-> user, password |-> password, name |-> name, race |-> race, class |-> class]

TheWishes ==
    [k \in {k1, k2} |->
        IF k = k1
        THEN {Wants(ann, secret, aria, "human", "warrior"), Wants(ann, secret, brom, "human", "warrior")}
        ELSE {Wants(ann, secret, aria, "human", "warrior"), Wants(ann, guess, aria, "dwarf", "wizard")}]

TheClasses == [r \in {"human", "dwarf"} |-> IF r = "dwarf" THEN {"warrior"}
                                            ELSE {"warrior", "wizard"}]

TheStart == [r \in {"human", "dwarf"} |-> city]

TheAttempts == [k \in {k1, k2} |-> IF k = k1 THEN 2 ELSE 1]
=============================================================================
